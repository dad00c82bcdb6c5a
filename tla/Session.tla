------------------------------- MODULE Session -------------------------------
(***************************************************************************)
(* The agent sessions of one run and the limits they share: the loops of   *)
(* runtime/worker.py (AgentRunner.run, _call_model, _run_cli_session) over *)
(* one PolicyEngine (runtime/policy.py).                                   *)
(*                                                                         *)
(* A call reserves what it may cost, gives up control until the provider   *)
(* answers, fails or is cancelled, and settles or releases what it         *)
(* reserved.  Other sessions reserve and settle meanwhile.  Costs are      *)
(* whole units.  What is reserved is an estimate (worker.py, _call_model): *)
(* an answer may cost more, and is settled at what it cost.                *)
(***************************************************************************)
EXTENDS Naturals, FiniteSets, FiniteSetsExt

CONSTANTS
    Sessions,
    CliSessions,    \* those whose driver owns the loop (claude_cli)
    Estimates,      \* what a call of the other drivers may reserve
    Budget,         \* budget_usd
    SessionCap,     \* max_session_cost_usd
    MaxModelCalls,
    MaxToolCalls,
    MaxExtraCalls,  \* bound: calls a cli session reports beyond the first
    MaxExcess       \* bound: what an answer costs above its reservation

ASSUME SessionAssumption ==
    /\ IsFiniteSet(Sessions) /\ CliSessions \subseteq Sessions
    /\ Estimates \subseteq Nat \ {0}
    /\ {Budget, MaxModelCalls, MaxToolCalls, MaxExtraCalls, MaxExcess} \subseteq Nat
    /\ SessionCap \in Nat \ {0}

VARIABLES
    place,      \* where each session is
    outcome,    \* SessionOutcome.kind, "raised" when run() raises
    attempts,   \* of the call under way
    nudges,     \* turns in a row without a tool call
    round,      \* processes of a cli session so far
    held,       \* the reservation of the call under way, 0 if there is none
    spent, reserved, modelCalls, toolCalls,     \* PolicyEngine.usage
    cancelled,  \* the run is cancelled
    late,       \* the wall clock of the run is over
    answered,   \* (history) calls that providers answered
    lost,       \* (history) reservations of calls that neither settled nor released
    excess      \* (history) what answers cost above their reservations, all together

loopVars   == <<outcome, nudges, round>>
policyVars == <<spent, reserved, modelCalls, excess>>
vars == <<place, outcome, attempts, nudges, round, held, spent, reserved, modelCalls,
          toolCalls, cancelled, late, answered, lost, excess>>

Outcomes == {"finished", "blocked", "approval_pending", "failed", "cancelled", "ended", "raised"}

TypeOK ==
    /\ place \in [Sessions -> {"turn", "calling", "backoff", "answered", "tools", "over"}]
    /\ outcome \in [Sessions -> Outcomes \cup {"none"}]
    /\ attempts \in [Sessions -> 0..3]
    /\ nudges \in [Sessions -> 0..3]
    /\ round \in [Sessions -> 0..2]
    /\ held \in [Sessions -> Nat]
    /\ {spent, reserved, modelCalls, answered, lost, excess} \subseteq Nat
    /\ toolCalls \in 0..MaxToolCalls
    /\ cancelled \in BOOLEAN /\ late \in BOOLEAN

Init ==
    /\ place = [s \in Sessions |-> "turn"]
    /\ outcome = [s \in Sessions |-> "none"]
    /\ attempts = [s \in Sessions |-> 0]
    /\ nudges = [s \in Sessions |-> 0]
    /\ round = [s \in Sessions |-> 0]
    /\ held = [s \in Sessions |-> 0]
    /\ spent = 0 /\ reserved = 0 /\ modelCalls = 0 /\ toolCalls = 0
    /\ cancelled = FALSE /\ late = FALSE
    /\ answered = 0 /\ lost = 0 /\ excess = 0

MinOf(m, n) == IF m < n THEN m ELSE n
MaxOf(m, n) == IF m < n THEN n ELSE m
Less(m, n) == IF n > m THEN 0 ELSE m - n        \* max(0, m - n)

End(s, kind) ==
    /\ place' = [place EXCEPT ![s] = "over"]
    /\ outcome' = [outcome EXCEPT ![s] = kind]

-----------------------------------------------------------------------------
(* PolicyEngine *)

RemainingBudget == Less(Budget, spent + reserved)

\* What a call of the session may cost.  The smallest cap of a cli session is one unit.
Amounts(s) ==
    IF s \in CliSessions THEN {MinOf(SessionCap, MaxOf(1, RemainingBudget))} ELSE Estimates

\* (mutant of MayReserve) What other calls may cost is not looked at.
MayReserveAlone(n) == modelCalls < MaxModelCalls /\ spent + n <= Budget

MayReserve(n) == modelCalls < MaxModelCalls /\ spent + reserved + n <= Budget

\* (mutant of Reserve) Only the first attempt is counted.
ReserveCountingFirst(s, n) ==
    /\ reserved' = reserved + n
    /\ modelCalls' = modelCalls + (IF attempts[s] = 0 THEN 1 ELSE 0)
    /\ held' = [held EXCEPT ![s] = n]
    /\ UNCHANGED <<spent, excess>>

Reserve(s, n) ==
    /\ reserved' = reserved + n
    /\ modelCalls' = modelCalls + 1
    /\ held' = [held EXCEPT ![s] = n]
    /\ UNCHANGED <<spent, excess>>

Settle(s, cost, extra) ==
    /\ reserved' = Less(reserved, held[s])
    /\ spent' = spent + cost
    /\ excess' = excess + Less(cost, held[s])
    /\ modelCalls' = modelCalls + extra
    /\ held' = [held EXCEPT ![s] = 0]

Release(s) ==
    /\ reserved' = Less(reserved, held[s])
    /\ held' = [held EXCEPT ![s] = 0]
    /\ UNCHANGED <<spent, excess>>

-----------------------------------------------------------------------------
(* Calls *)

ReadyToCall(s) == place[s] \in {"turn", "backoff"}

\* (mutant of GiveUpBeforeCall) A session out of calls or budget waits for more.
GiveUpWhenStopped(s) ==
    /\ ReadyToCall(s)
    /\ \/ cancelled /\ (late => place[s] = "turn") /\ End(s, "cancelled")
       \/ late /\ (cancelled => place[s] = "backoff") /\ End(s, "failed")
       \/ ~cancelled /\ place[s] = "turn" /\ s \notin CliSessions /\ End(s, "finished")
    /\ UNCHANGED <<attempts, nudges, round, held, policyVars, toolCalls, cancelled, late,
                   answered, lost>>

\* A session ends before a call: the run is cancelled or late (a turn looks at the
\* first, a retry at the second first), a coordinator has delivered its handoffs, or
\* calls or budget do not suffice.
GiveUpBeforeCall(s) ==
    /\ ReadyToCall(s)
    /\ \/ cancelled /\ (late => place[s] = "turn") /\ End(s, "cancelled")
       \/ late /\ (cancelled => place[s] = "backoff") /\ End(s, "failed")
       \/ ~cancelled /\ place[s] = "turn" /\ s \notin CliSessions /\ End(s, "finished")
       \/ ~cancelled /\ ~late /\ (\E n \in Amounts(s) : ~MayReserve(n)) /\ End(s, "failed")
    /\ UNCHANGED <<attempts, nudges, round, held, policyVars, toolCalls, cancelled, late,
                   answered, lost>>

Call(s) ==
    /\ ReadyToCall(s)
    /\ ~cancelled /\ ~late
    /\ \E n \in Amounts(s) : MayReserve(n) /\ Reserve(s, n)
    /\ place' = [place EXCEPT ![s] = "calling"]
    /\ attempts' = [attempts EXCEPT ![s] = @ + 1]
    /\ round' = IF s \in CliSessions THEN [round EXCEPT ![s] = @ + 1] ELSE round
    /\ UNCHANGED <<outcome, nudges, toolCalls, cancelled, late, answered, lost>>

\* A process of a cli session reports how many calls it made.
ExtraCalls(s) == IF s \in CliSessions THEN 0..MaxExtraCalls ELSE {0}

\* (mutant of Answer) The attempts of the session are counted, not those of the call.
AnswerKeepingAttempts(s) ==
    /\ place[s] = "calling"
    /\ \E cost \in 0..(held[s] + MaxExcess), extra \in ExtraCalls(s) : Settle(s, cost, extra)
    /\ answered' = answered + 1
    /\ place' = [place EXCEPT ![s] = "answered"]
    /\ UNCHANGED <<attempts, loopVars, toolCalls, cancelled, late, lost>>

Answer(s) ==
    /\ place[s] = "calling"
    /\ \E cost \in 0..(held[s] + MaxExcess), extra \in ExtraCalls(s) : Settle(s, cost, extra)
    /\ answered' = answered + 1
    /\ place' = [place EXCEPT ![s] = "answered"]
    /\ attempts' = [attempts EXCEPT ![s] = 0]
    /\ UNCHANGED <<loopVars, toolCalls, cancelled, late, lost>>

\* A retry that fails is not counted again.  Whether the wait before the next one
\* fits into the time that is left is open.
Uncounted(s, retryable) == IF attempts[s] > 1 /\ retryable THEN 1 ELSE 0

CallFails(s, retryable) ==
    /\ place[s] = "calling" /\ s \notin CliSessions
    /\ Release(s)
    /\ modelCalls' = modelCalls - Uncounted(s, retryable)
    /\ \/ /\ retryable /\ attempts[s] < 3 /\ ~late
          /\ place' = [place EXCEPT ![s] = "backoff"]
          /\ UNCHANGED outcome
       \/ End(s, "failed")
    /\ UNCHANGED <<attempts, nudges, round, toolCalls, cancelled, late, answered, lost>>

\* (mutant of CallTimesOut) The reservation of a call that timed out is kept.
CallTimesOutHolding(s) ==
    /\ place[s] = "calling" /\ late /\ s \notin CliSessions
    /\ held' = [held EXCEPT ![s] = 0]
    /\ End(s, "failed")
    /\ UNCHANGED <<policyVars, attempts, nudges, round, toolCalls, cancelled, late, answered, lost>>

\* The deadline of the run ends a call.
CallTimesOut(s) ==
    /\ place[s] = "calling" /\ late /\ s \notin CliSessions
    /\ Release(s)
    /\ End(s, "failed")
    /\ UNCHANGED <<modelCalls, attempts, nudges, round, toolCalls, cancelled, late, answered, lost>>

\* An exception that is no ProviderError, or the cancellation of the task of the
\* session, leaves the loop wherever it is; nothing releases what it holds.
Raise(s) ==
    /\ place[s] # "over"
    /\ End(s, "raised")
    /\ lost' = lost + held[s]
    /\ held' = [held EXCEPT ![s] = 0]
    /\ UNCHANGED <<attempts, nudges, round, policyVars, toolCalls, cancelled, late, answered>>

-----------------------------------------------------------------------------
(* Turns *)

\* Kinds of outcomes that tools decide.
ByTools == {"finished", "blocked", "approval_pending"}

\* A turn without a tool call: the session is told to go on, three times at most.
NoTool(s) ==
    /\ place[s] = "answered" /\ s \notin CliSessions
    /\ nudges' = [nudges EXCEPT ![s] = @ + 1]
    /\ \/ End(s, "finished")        \* a reply was sent, or all outputs are published
       \/ /\ nudges[s] < 2
          /\ place' = [place EXCEPT ![s] = "turn"]
          /\ UNCHANGED outcome
       \/ nudges[s] >= 2 /\ End(s, "ended")
    /\ UNCHANGED <<attempts, round, held, policyVars, toolCalls, cancelled, late, answered, lost>>

\* The provider refuses, or calls tools.
Refused(s) ==
    /\ place[s] = "answered" /\ s \notin CliSessions
    /\ End(s, "failed")
    /\ UNCHANGED <<attempts, nudges, round, held, policyVars, toolCalls, cancelled, late,
                   answered, lost>>

WithTools(s) ==
    /\ place[s] = "answered" /\ s \notin CliSessions
    /\ nudges' = [nudges EXCEPT ![s] = 0]
    /\ place' = [place EXCEPT ![s] = "tools"]
    /\ UNCHANGED <<outcome, attempts, round, held, policyVars, toolCalls, cancelled, late,
                   answered, lost>>

\* ToolGateway.call: counted, and fatal for the session at the limit.  A tool decides
\* the outcome, or breaks a policy for good, or only returns its result.
CallTool(s) ==
    /\ place[s] = "tools"
    /\ \/ cancelled /\ End(s, "cancelled") /\ UNCHANGED toolCalls
       \/ ~cancelled /\ toolCalls >= MaxToolCalls /\ End(s, "failed") /\ UNCHANGED toolCalls
       \/ /\ ~cancelled /\ toolCalls < MaxToolCalls
          /\ toolCalls' = toolCalls + 1
          /\ \/ UNCHANGED <<place, outcome>>
             \/ \E kind \in ByTools \cup {"failed"} : End(s, kind)
    /\ UNCHANGED <<attempts, nudges, round, held, policyVars, cancelled, late, answered, lost>>

ToolsDone(s) ==
    /\ place[s] = "tools"
    /\ place' = [place EXCEPT ![s] = "turn"]
    /\ UNCHANGED <<loopVars, attempts, held, policyVars, toolCalls, cancelled, late, answered, lost>>

\* While a cli process runs it calls tools through the broker; at the limit, or once
\* the run is cancelled, they are refused and the process goes on.
CliTool(s) ==
    /\ place[s] = "calling" /\ s \in CliSessions
    /\ ~cancelled /\ toolCalls < MaxToolCalls
    /\ toolCalls' = toolCalls + 1
    /\ UNCHANGED <<place, attempts, loopVars, held, policyVars, cancelled, late, answered, lost>>

\* What is done after a cli process ended: an outcome, or a second process.
CliEnd(s) ==
    /\ place[s] = "answered" /\ s \in CliSessions
    /\ \/ cancelled /\ End(s, "cancelled")
       \/ ~cancelled /\ \E kind \in ByTools \cup {"failed"} : End(s, kind)
       \/ /\ ~cancelled /\ round[s] < 2
          /\ place' = [place EXCEPT ![s] = "turn"]
          /\ UNCHANGED outcome
       \/ ~cancelled /\ round[s] = 2 /\ End(s, "ended")
    /\ UNCHANGED <<attempts, nudges, round, held, policyVars, toolCalls, cancelled, late,
                   answered, lost>>

-----------------------------------------------------------------------------
(* The run *)

CancelRun ==
    /\ ~cancelled
    /\ cancelled' = TRUE
    /\ UNCHANGED <<place, attempts, loopVars, held, policyVars, toolCalls, late, answered, lost>>

WallClock ==
    /\ ~late
    /\ late' = TRUE
    /\ UNCHANGED <<place, attempts, loopVars, held, policyVars, toolCalls, cancelled, answered, lost>>

Over == (\A s \in Sessions : place[s] = "over") /\ UNCHANGED vars

Step(s) ==
    \/ GiveUpBeforeCall(s) \/ Call(s) \/ Answer(s) \/ CallTimesOut(s)
    \/ \E retryable \in BOOLEAN : CallFails(s, retryable)
    \/ NoTool(s) \/ Refused(s) \/ WithTools(s) \/ CallTool(s) \/ ToolsDone(s)
    \/ CliTool(s) \/ CliEnd(s)

Next == (\E s \in Sessions : Step(s) \/ Raise(s)) \/ CancelRun \/ WallClock \/ Over

Spec == Init /\ [][Next]_vars

\* Every call ends: the drivers and the deadline bound it.
FairSpec == Spec /\ \A s \in Sessions : WF_vars(Step(s))

-----------------------------------------------------------------------------
(* Properties *)

Calling == {s \in Sessions : held[s] > 0}

\* What was spent and what the calls under way reserve stay within the budget
\* together, but for what answers cost above their own reservations: nothing else is
\* ever spent past the budget, however sessions interleave, retry, fail or are
\* cancelled, and a budget that was overspent pays for no further call.
WithinBudget == spent + reserved <= Budget + excess

\* What f gives the members of S, added up.
Total(f, S) == MapThenSumSet(LAMBDA s : f[s], S)

\* What is reserved is held by calls under way or by calls that were torn down with
\* their session: nothing is released twice, and nothing is kept by mistake.
ReservedIsAccounted == reserved = Total(held, Sessions) + lost

\* The counter that the limit of model calls looks at never falls below the calls
\* that are answered or under way, although failed retries are taken off it.
AnswersAreCounted == answered + Cardinality(Calling) <= modelCalls

\* Every session ends, which is what the scheduler relies on: its turns without a
\* tool are bounded by nudges, all others by the limits of the run.
SessionsEnd == \A s \in Sessions : <>(place[s] = "over")
=============================================================================
