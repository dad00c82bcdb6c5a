------------------------------- MODULE Streams -------------------------------
(***************************************************************************)
(* The event log of one run and a client that follows it: EventStore       *)
(* (store/event_store.py), run_stream of api/app.py and the ending events  *)
(* of RunManager._finish, which are stored, followed by the status, and    *)
(* only then announced.  An event is its seq.                              *)
(***************************************************************************)
EXTENDS Naturals, Sequences

CONSTANTS
    MaxEvents,      \* (bound) events of the run
    MaxConnections  \* (bound) connections of the client

Events == 1..MaxEvents

VARIABLES
    length,     \* events of the run in the table: 1..length
    unannounced,\* an event whose notification is still to come, 0 if none
    ending,     \* an ending event announced after its status, 0 if none
    deferred,   \* (history) the ending events
    pending,    \* pending_run: the run is queued or executed
    place,      \* where the generator of the stream is
    cursor,     \* its cursor, and the client's Last-Event-ID
    replay,     \* events it listed and has not yielded
    queue,      \* its subscription; events announced since
    subscribed,
    yielded,    \* (history) what the client received, over all connections
    connections

logVars == <<length, unannounced, ending, deferred, pending>>
streamVars == <<place, cursor, replay, queue, subscribed, yielded, connections>>
vars == <<logVars, streamVars>>

TypeOK ==
    /\ length \in 0..MaxEvents
    /\ {unannounced, ending} \subseteq 0..MaxEvents /\ deferred \subseteq Events
    /\ pending \in BOOLEAN /\ subscribed \in BOOLEAN
    /\ place \in {"off", "subscribe", "list", "replay", "loop", "wait", "flush", "last"}
    /\ cursor \in 0..MaxEvents /\ connections \in 0..MaxConnections
    /\ replay \in Seq(Events) /\ queue \in Seq(Events) /\ yielded \in Seq(Events)

Init ==
    /\ length = 0 /\ unannounced = 0 /\ ending = 0 /\ deferred = {} /\ pending = TRUE
    /\ place = "off" /\ cursor = 0 /\ replay = <<>> /\ queue = <<>>
    /\ subscribed = FALSE /\ yielded = <<>> /\ connections = 0
-----------------------------------------------------------------------------
(* The log. *)

Announced(e) == queue' = IF subscribed THEN Append(queue, e) ELSE queue

\* append: the row is visible before its writer goes on; write_lock is free
\* when the event is announced.
Insert ==
    /\ length < MaxEvents /\ unannounced = 0
    /\ length' = length + 1 /\ unannounced' = length + 1
    /\ UNCHANGED <<ending, deferred, pending, streamVars>>

Notify ==
    /\ unannounced # 0
    /\ unannounced' = 0 /\ Announced(unannounced)
    /\ UNCHANGED <<length, ending, deferred, pending, place, cursor, replay, subscribed,
                   yielded, connections>>

\* _finish: the ending event with notify=False,
InsertEnding ==
    /\ pending /\ ending = 0 /\ length < MaxEvents /\ unannounced = 0
    /\ length' = length + 1 /\ ending' = length + 1
    /\ deferred' = deferred \cup {length + 1}
    /\ UNCHANGED <<unannounced, pending, streamVars>>

\* its notification once the status is stored; then the job is closed.
NotifyEnding ==
    /\ ending # 0 /\ pending
    /\ Announced(ending) /\ pending' = FALSE
    /\ UNCHANGED <<length, unannounced, ending, deferred, place, cursor, replay, subscribed,
                   yielded, connections>>

Resume ==
    /\ ~pending /\ pending' = TRUE /\ ending' = 0
    /\ UNCHANGED <<length, unannounced, deferred, streamVars>>
-----------------------------------------------------------------------------
(* The stream. *)

Listed == [i \in 1..(length - cursor) |-> cursor + i]

\* (mutant of FirstPlace) The stream subscribes when the replay is over.
FirstPlaceListing == "list"
FirstPlace == "subscribe"

\* The client connects, at first or again, with the id it saw last.
Connect ==
    /\ place = "off" /\ connections < MaxConnections
    /\ connections' = connections + 1 /\ place' = FirstPlace
    /\ UNCHANGED <<logVars, cursor, replay, queue, subscribed, yielded>>

Subscribe ==
    /\ place = "subscribe" /\ place' = "list" /\ subscribed' = TRUE
    /\ UNCHANGED <<logVars, cursor, replay, queue, yielded, connections>>

List ==
    /\ place \in {"list", "flush"}
    /\ replay' = Listed /\ place' = IF place = "list" THEN "replay" ELSE "last"
    /\ UNCHANGED <<logVars, cursor, queue, subscribed, yielded, connections>>

Yield(e) == cursor' = e /\ yielded' = Append(yielded, e)

YieldListed ==
    /\ place \in {"replay", "last"} /\ replay # <<>>
    /\ Yield(Head(replay)) /\ replay' = Tail(replay)
    /\ UNCHANGED <<logVars, place, queue, subscribed, connections>>

Replayed ==
    /\ place = "replay" /\ replay = <<>>
    /\ place' = "loop" /\ subscribed' = TRUE
    /\ UNCHANGED <<logVars, cursor, replay, queue, yielded, connections>>

\* Nothing more is expected: what is left is listed once more.
Look ==
    /\ place = "loop"
    /\ place' = IF pending THEN "wait" ELSE "flush"
    /\ UNCHANGED <<logVars, cursor, replay, queue, subscribed, yielded, connections>>

\* (mutant of Known) Events are not compared with the cursor.
KnownNever(e) == FALSE
Known(e) == e <= cursor

Take ==
    /\ place = "wait" /\ queue # <<>>
    /\ queue' = Tail(queue) /\ place' = "loop"
    /\ IF Known(Head(queue)) THEN UNCHANGED <<cursor, yielded>> ELSE Yield(Head(queue))
    /\ UNCHANGED <<logVars, replay, subscribed, connections>>

Ping ==
    /\ place = "wait" /\ queue = <<>> /\ place' = "loop"
    /\ UNCHANGED <<logVars, cursor, replay, queue, subscribed, yielded, connections>>

\* The stream ends, or the client is gone or no longer authorized.
Close ==
    /\ \/ place = "last" /\ replay = <<>>
       \/ place \in {"replay", "loop"}
    /\ place' = "off" /\ replay' = <<>> /\ queue' = <<>> /\ subscribed' = FALSE
    /\ UNCHANGED <<logVars, cursor, yielded, connections>>

Next ==
    \/ Insert \/ Notify \/ InsertEnding \/ NotifyEnding \/ Resume
    \/ Connect \/ Subscribe \/ List \/ YieldListed \/ Replayed \/ Look
    \/ Take \/ Ping \/ Close

Spec == Init /\ [][Next]_vars
-----------------------------------------------------------------------------
(* Properties *)

\* Over all its connections a client receives events in the order of the log,
\* none twice, and misses none but an ending event that a later event overtook
\* while its status was being stored.
StreamFollowsLog ==
    /\ \A i, j \in DOMAIN yielded : i < j => yielded[i] < yielded[j]
    /\ \A e \in 1..cursor : (\E i \in DOMAIN yielded : yielded[i] = e) \/ (e \in deferred /\ e < cursor)
=============================================================================
