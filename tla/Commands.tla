------------------------------ MODULE Commands ------------------------------
(***************************************************************************)
(* The commands that sessions run (runtime/sandbox.py, runtime/checks.py): *)
(* the choice of a backend, the preparation of a container, the command    *)
(* and its client, and what is left when it ends, takes too long or is     *)
(* cancelled while it or its cleanup is waited for.                        *)
(*                                                                         *)
(* With Docker the client and the container are two things: the client has *)
(* the container made, writes its id to a file, has it started and waits;  *)
(* to kill the client does not stop the container.  Elsewhere the command  *)
(* is the client.  The workers of isolated_check have no container either. *)
(***************************************************************************)
CONSTANTS
    Tools,          \* commands of sandbox_run and of checks of kind "command"
    Checks,         \* checks that a worker process makes
    Secured,        \* commands that must run in a container
    Mode,           \* AGENTTEAM_SANDBOX: "auto", "docker" or "subprocess"
    Seatbelt        \* whether the host has sandbox-exec

Commands == Tools \cup Checks

VARIABLES
    daemon,     \* whether Docker answers
    known,      \* _docker_state: "unknown", "yes" or "no"
    image,      \* whether the image is there
    at, backend,
    client,     \* the process of each command
    box,        \* what runs the command: its container or the process itself
    cid,        \* whether the id of the container is in its file
    why,        \* why it is stopped
    identified, \* (history) the id was there when the cleanup looked for it
    unremoved,  \* (history) docker rm failed or took too long
    cut         \* (history) the cleanup itself was cancelled

vars == <<daemon, known, image, at, backend, client, box, cid, why, identified, unremoved, cut>>
runVars == <<client, box, cid>>
stopVars == <<why, identified, unremoved>>
hostVars == <<daemon, known, image>>

TypeOK ==
    /\ daemon \in BOOLEAN /\ known \in {"unknown", "yes", "no"} /\ image \in BOOLEAN
    /\ at \in [Commands -> {"new", "asking", "preparing", "preflight", "running", "cleaning",
                            "removing", "killing", "done", "denied", "raised"}]
    /\ backend \in [Commands -> {"none", "docker", "sandbox-exec", "subprocess", "worker"}]
    /\ client \in [Commands -> {"none", "alive", "dead"}]
    /\ box \in [Commands -> {"none", "made", "running", "gone"}]
    /\ cid \in [Commands -> BOOLEAN] /\ identified \in [Commands -> BOOLEAN]
    /\ unremoved \in [Commands -> BOOLEAN]
    /\ why \in [Commands -> {"none", "timeout", "cancel"}]
    /\ cut \in [Commands -> BOOLEAN]

Init ==
    /\ daemon \in BOOLEAN /\ image \in BOOLEAN /\ known = "unknown"
    /\ at = [k \in Commands |-> "new"] /\ backend = [k \in Commands |-> "none"]
    /\ client = [k \in Commands |-> "none"] /\ box = [k \in Commands |-> "none"]
    /\ cid = [k \in Commands |-> FALSE] /\ identified = [k \in Commands |-> FALSE]
    /\ unremoved = [k \in Commands |-> FALSE]
    /\ why = [k \in Commands |-> "none"]
    /\ cut = [k \in Commands |-> FALSE]

Go(k, place) == at' = [at EXCEPT ![k] = place]
-----------------------------------------------------------------------------
(* The backend *)

Fallback == IF Mode = "auto" /\ Seatbelt THEN "sandbox-exec" ELSE "none"
Backend(docker) ==
    CASE Mode = "subprocess" -> "subprocess"
      [] Mode # "subprocess" /\ docker = "yes" -> "docker"
      [] OTHER -> Fallback

\* (mutant of Refused) Secured work takes what there is.
RefusedNone(k, b) == b = "none"
Refused(k, b) == b = "none" \/ (k \in Secured /\ b # "docker")

\* A process, and with it the command unless that runs in a container.
Spawned(k, b) ==
    /\ client' = [client EXCEPT ![k] = "alive"]
    /\ box' = [box EXCEPT ![k] = IF b = "docker" THEN "none" ELSE "running"]
    /\ UNCHANGED cid
    /\ Go(k, "running")

Chosen(k, b) ==
    /\ backend' = [backend EXCEPT ![k] = b]
    /\ \/ Refused(k, b) /\ Go(k, "denied") /\ UNCHANGED runVars
       \/ ~Refused(k, b) /\ b = "docker" /\ Go(k, "preparing") /\ UNCHANGED runVars
       \/ ~Refused(k, b) /\ b # "docker" /\ Spawned(k, b)

\* run_check: the checks that take long patterns or schemas have a worker process.
BeginCheck(k) ==
    /\ k \in Checks /\ at[k] = "new"
    /\ backend' = [backend EXCEPT ![k] = "worker"]
    /\ Spawned(k, "worker")
    /\ UNCHANGED <<hostVars, stopVars, cut>>

\* docker_available remembers its first answer.
Begin(k) ==
    /\ k \in Tools /\ at[k] = "new"
    /\ IF Mode # "subprocess" /\ known = "unknown"
         THEN Go(k, "asking") /\ UNCHANGED <<backend, runVars>>
         ELSE Chosen(k, Backend(known))
    /\ UNCHANGED <<hostVars, stopVars, cut>>

\* docker info answers, or fails, or takes too long.
DockerInfo(k) ==
    /\ at[k] = "asking"
    /\ known' \in {"no"} \cup {x \in {"yes"} : daemon}
    /\ Chosen(k, Backend(known'))
    /\ UNCHANGED <<daemon, image, stopVars, cut>>

\* The image is there or can be pulled.
Prepare(k) ==
    /\ at[k] = "preparing"
    /\ image' \in {image} \cup {x \in {TRUE} : daemon}
    /\ Go(k, IF daemon /\ image' THEN "preflight" ELSE "denied")
    /\ UNCHANGED <<daemon, known, backend, runVars, stopVars, cut>>

\* A first container finds the workspace writable; it may take too long, too.
Preflight(k) ==
    /\ at[k] = "preflight"
    /\ \/ daemon /\ Spawned(k, "docker")
       \/ (Go(k, "denied") \/ Go(k, "raised")) /\ UNCHANGED runVars
    /\ UNCHANGED <<hostVars, backend, stopVars, cut>>

Daemon ==
    /\ daemon' = ~daemon
    /\ UNCHANGED <<known, image, at, backend, runVars, stopVars, cut>>
-----------------------------------------------------------------------------
(* The client, the container and the command *)

Make(k) ==
    /\ backend[k] = "docker" /\ client[k] = "alive" /\ box[k] = "none" /\ daemon
    /\ box' = [box EXCEPT ![k] = "made"]
    /\ UNCHANGED <<hostVars, at, backend, client, cid, stopVars, cut>>

WriteId(k) ==
    /\ client[k] = "alive" /\ box[k] = "made" /\ ~cid[k]
    /\ cid' = [cid EXCEPT ![k] = TRUE]
    /\ UNCHANGED <<hostVars, at, backend, client, box, stopVars, cut>>

StartBox(k) ==
    /\ client[k] = "alive" /\ box[k] = "made" /\ cid[k] /\ daemon
    /\ box' = [box EXCEPT ![k] = "running"]
    /\ UNCHANGED <<hostVars, at, backend, client, cid, stopVars, cut>>

\* The command ends by itself; --rm removes its container.
EndBox(k) ==
    /\ box[k] = "running"
    /\ box' = [box EXCEPT ![k] = "gone"]
    /\ UNCHANGED <<hostVars, at, backend, client, cid, stopVars, cut>>

\* The client sees the end, or cannot have its container at all.
EndClient(k) ==
    /\ client[k] = "alive"
    /\ box[k] = "gone" \/ (backend[k] = "docker" /\ box[k] # "running" /\ ~daemon)
    /\ client' = [client EXCEPT ![k] = "dead"]
    /\ UNCHANGED <<hostVars, at, backend, box, cid, stopVars, cut>>
-----------------------------------------------------------------------------
(* Its end, time limit and cancellation *)

Finish(k) ==
    /\ at[k] = "running" /\ client[k] = "dead"
    /\ Go(k, "done")
    /\ UNCHANGED <<hostVars, backend, runVars, stopVars, cut>>

\* The worker of a check is killed at once.
Stop(k, reason) ==
    /\ why' = [why EXCEPT ![k] = reason]
    /\ Go(k, IF k \in Checks THEN "killing" ELSE "cleaning")

TimeOut(k) ==
    /\ at[k] = "running" /\ Stop(k, "timeout")
    /\ UNCHANGED <<hostVars, backend, runVars, identified, unremoved, cut>>

\* A cancellation reaches the command wherever it waits.  Before the command runs
\* and while its cleanup waits it ends the call at once.
Cancel(k) ==
    /\ at[k] \in {"asking", "preparing", "preflight", "running", "cleaning", "removing"}
    /\ cut' = [cut EXCEPT ![k] = at[k] \in {"cleaning", "removing"}]
    /\ IF at[k] = "running" THEN Stop(k, "cancel") /\ UNCHANGED <<identified, unremoved>>
       ELSE Go(k, "raised") /\ UNCHANGED stopVars
    /\ UNCHANGED <<hostVars, backend, runVars>>

\* terminate: the readers are gathered, then the id is looked for.
\* (mutant of HasId) The client alone is killed.
HasIdNever(k) == FALSE
HasId(k) == backend[k] = "docker" /\ cid[k]
LookForId(k) ==
    /\ at[k] = "cleaning"
    /\ identified' = [identified EXCEPT ![k] = cid[k]]
    /\ Go(k, IF HasId(k) THEN "removing" ELSE "killing")
    /\ UNCHANGED <<hostVars, backend, runVars, why, unremoved, cut>>

\* docker rm -f, for ten seconds at most.
RemoveBox(k) ==
    /\ at[k] = "removing"
    /\ \/ daemon /\ box' = [box EXCEPT ![k] = "gone"] /\ UNCHANGED unremoved
       \/ unremoved' = [unremoved EXCEPT ![k] = TRUE] /\ UNCHANGED box
    /\ Go(k, "killing")
    /\ UNCHANGED <<hostVars, backend, client, cid, why, identified, cut>>

\* The process group; a command without a container goes with it.
\* (mutant of KilledBox) The shell is killed, and what it runs is not.
KilledBoxNever(k) == box[k]
KilledBox(k) == IF backend[k] # "docker" /\ box[k] = "running" THEN "gone" ELSE box[k]
KillClient(k) ==
    /\ at[k] = "killing"
    /\ client' = [client EXCEPT ![k] = "dead"]
    /\ box' = [box EXCEPT ![k] = KilledBox(k)]
    /\ Go(k, IF why[k] = "timeout" THEN "done" ELSE "raised")
    /\ UNCHANGED <<hostVars, backend, cid, stopVars, cut>>

Step(k) ==
    \/ BeginCheck(k) \/ Begin(k) \/ DockerInfo(k) \/ Prepare(k) \/ Preflight(k)
    \/ Make(k) \/ WriteId(k) \/ StartBox(k) \/ EndBox(k) \/ EndClient(k)
    \/ Finish(k) \/ TimeOut(k) \/ Cancel(k)
    \/ LookForId(k) \/ RemoveBox(k) \/ KillClient(k)

Next == Daemon \/ \E k \in Commands : Step(k)

Spec == Init /\ [][Next]_vars
-----------------------------------------------------------------------------
(* Properties *)

Over(k) == at[k] \in {"done", "denied", "raised"}

\* What a call has run is gone when the call is over, whether it ended, took too
\* long or was cancelled.  The exceptions: a container that had no id yet when the
\* cleanup looked, one that Docker did not remove in time, and a cleanup that was
\* cancelled itself.
NothingOutlivesItsCall ==
    \A k \in Commands : Over(k) /\ box[k] = "running" =>
        \/ backend[k] = "docker" /\ (~identified[k] \/ unremoved[k])
        \/ cut[k]

\* A refused call has run nothing, and secured work runs in a container or not at
\* all, also when Docker comes and goes after its state was remembered.
SecuredIsContained ==
    \A k \in Commands :
        /\ at[k] = "denied" => client[k] = "none"
        /\ k \in Secured /\ box[k] # "none" => backend[k] = "docker"
=============================================================================
