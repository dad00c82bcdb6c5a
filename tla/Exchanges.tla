------------------------------- MODULE Exchanges -------------------------------
(***************************************************************************)
(* What the sessions, the users and the clients of one run exchange:       *)
(* messages under their limits, the mailbox they are read from, approvals, *)
(* the event stream, the tool calls of command-line sessions, and the      *)
(* commands that sessions run.  They share no variable, so one             *)
(* specification has them side by side: the initial state picks the part   *)
(* that runs and the others keep theirs.                                   *)
(***************************************************************************)
EXTENDS Messages

CONSTANTS
    Mails, Readers,                             \* Mailbox
    Askers, MaxRequests, Resolvers, MaxCrashes, MaxRefusals, None,   \* Approvals
    MaxEvents, MaxConnections,                  \* Streams
    Workers, Probes, MaxCalls, Nobody,          \* CliSessions
    Tools, Checks, Secured, Mode, Seatbelt      \* Commands

\* A probe is no session of an agent, the commands that must be contained are
\* commands, and a check is none.
ASSUME PartsAssumption ==
    /\ Workers \cap Probes = {}
    /\ Checks \cap Tools = {} /\ Secured \subseteq Tools
    /\ {MaxRequests, MaxCrashes, MaxRefusals, MaxEvents, MaxConnections} \subseteq Nat
    /\ None \notin Askers \X (1..MaxRequests)

VARIABLES
    part,
    sent, unread, reader, batch, awake, returned, dropped,
    approval, session, answers, task, pause, run, exec, resolver, crashes, refusals,
    length, unannounced, ending, deferred, pending, place, cursor, replay, queue,
    subscribed, yielded, connections,
    server, starter, registry, at, attempt, proc, calls, did, result, outcome, cancelled,
    earned,
    daemon, known, image, step, backend, client, box, cid, why, identified, unremoved, cut

Mail == INSTANCE Mailbox

Asks == INSTANCE Approvals WITH Tasks <- Askers, told <- answers

Stream == INSTANCE Streams

mailVariables == <<sent, unread, reader, batch, awake, returned, dropped>>
askVariables == <<approval, session, answers, task, pause, run, exec, resolver, crashes,
                  refusals>>
streamVariables == <<length, unannounced, ending, deferred, pending, place, cursor,
                     replay, queue, subscribed, yielded, connections>>
cliVariables == <<server, starter, registry, at, attempt, proc, calls, did, result,
                  outcome, cancelled, earned>>
commandVariables == <<daemon, known, image, step, backend, client, box, cid, why,
                      identified, unremoved, cut>>
allVars == <<part, vars, mailVariables, askVariables, streamVariables, cliVariables,
             commandVariables>>

Cli == INSTANCE CliSessions WITH round <- attempt

Command == INSTANCE Commands WITH at <- step

Parts == {"messages", "mail", "approvals", "stream", "cli", "commands"}

ExchangesInit ==
    /\ part \in Parts
    /\ Init /\ Mail!Init /\ Asks!Init /\ Stream!Init
    /\ Cli!Init /\ Command!Init
    /\ part # "commands" => daemon /\ image

\* One part moves, the others stand still.
Only(p) ==
    /\ part = p /\ UNCHANGED part
    /\ p # "messages" => UNCHANGED vars
    /\ p # "mail" => UNCHANGED mailVariables
    /\ p # "approvals" => UNCHANGED askVariables
    /\ p # "stream" => UNCHANGED streamVariables
    /\ p # "cli" => UNCHANGED cliVariables
    /\ p # "commands" => UNCHANGED commandVariables

ExchangesNext ==
    \/ Only("messages") /\ Next
    \/ Only("mail") /\ Mail!Next
    \/ Only("approvals") /\ Asks!Next
    \/ Only("stream") /\ Stream!Next
    \/ Only("cli") /\ Cli!Next
    \/ Only("commands") /\ Command!Next

ExchangesSpec == ExchangesInit /\ [][ExchangesNext]_allVars

-----------------------------------------------------------------------------
(* Properties *)

\* The six type invariants, each for the states in which its part moves.
TypesOK ==
    CASE part = "messages" -> TypeOK
      [] part = "mail" -> Mail!TypeOK
      [] part = "approvals" -> Asks!TypeOK
      [] part = "stream" -> Stream!TypeOK
      [] part = "cli" -> Cli!TypeOK
      [] part = "commands" -> Command!TypeOK

\* A stored message is unread, was given to a session, or is held by the session
\* that marked it, but for a session that is cancelled or fails between its UPDATE
\* and its next turn: none is lost to a time-out, a wake-up or two sessions reading
\* at once (runtime/mailbox.py, read and mark_read).
NoMailLost == part = "mail" => Mail!NoMailLost

\* A session that is woken reads a decision and what it was told stays decided;
\* a run that is paused has a task it is paused for (tools.py, request_approval;
\* orchestrator.py, resolve_approval; scheduler.py, run).
ApprovalsHold == part = "approvals" => Asks!AnswersAreDecisions /\ Asks!PausedForATask

\* However a run is resumed, a task that paused goes on only when none of its
\* approvals is undecided (orchestrator.py, resolve_approval and resume).
PausedTaskAwaitsDecision == Asks!PausedTaskAwaitsDecision

\* A handler that has written a decision does not leave a run behind that is at
\* rest and paused, unless it ended with an error: its event was not stored, or the
\* queue was full or the service shutting down (orchestrator.py, resolve_approval and
\* submit; job_store.py, enqueue).
DecisionResumes == Asks!DecisionResumes

\* Over all its connections a client receives events in the order of the log,
\* none twice, and misses none but an ending event that a later event overtook
\* while its status was being stored (api/app.py, run_stream).
StreamFollowsLog == part = "stream" => Stream!StreamFollowsLog

\* A command-line session or a command leaves nothing behind when it is over, but in
\* the cases its module names; a session that finished its task is reported so; and
\* secured work runs in a container or not at all (runtime/worker.py,
\* _run_cli_session; runtime/session_broker.py; runtime/sandbox.py, run_command).
NothingIsLeft ==
    /\ part = "cli" => Cli!SessionsLeaveNothing /\ Cli!FinishedIsReported
    /\ part = "commands" => Command!NothingOutlivesItsCall /\ Command!SecuredIsContained
=============================================================================
