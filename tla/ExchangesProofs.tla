---------------------------- MODULE ExchangesProofs ----------------------------
(***************************************************************************)
(* What the parts of Exchanges promise holds of the whole, for any agents, *)
(* tasks, messages, readers, users, events, sessions and commands: the     *)
(* mailbox, the event stream, the approvals and the messages are proved    *)
(* here, the command-line sessions and the commands in modules of their    *)
(* own.                                                                    *)
(***************************************************************************)
EXTENDS Exchanges, Sequences, FiniteSetTheorems, TLAPS

-----------------------------------------------------------------------------
(* The mailbox                                                             *)

LEMMA MailInit == Mail!Init => Mail!TypeOK /\ Mail!NoMailLost
  BY DEF Mail!Init, Mail!TypeOK, Mail!NoMailLost, Mail!Places

LEMMA MailTypes ==
    ASSUME Mail!TypeOK, [Mail!Next]_(Mail!vars)
    PROVE  Mail!TypeOK'
  <1> USE DEF Mail!TypeOK, Mail!Go, Mail!Places
  <1>1. ASSUME NEW m \in Mails, Mail!Store(m) \/ Mail!Wake(m) PROVE Mail!TypeOK'
    BY <1>1 DEF Mail!Store, Mail!Wake
  <1>2. ASSUME NEW r \in Readers,
               Mail!Read(r) \/ Mail!List(r) \/ Mail!Wait(r) \/ Mail!Woken(r) \/ Mail!TimeOut(r)
        PROVE  Mail!TypeOK'
    BY <1>2 DEF Mail!Read, Mail!List, Mail!Wait, Mail!Woken, Mail!TimeOut
  <1>3. ASSUME NEW r \in Readers, Mail!Reread(r) \/ Mail!ListAll(r) PROVE Mail!TypeOK'
    BY <1>3 DEF Mail!Reread, Mail!ListAll
  <1>4. ASSUME NEW r \in Readers, Mail!Mark(r) \/ Mail!Return(r) \/ Mail!NoteFails(r)
        PROVE  Mail!TypeOK'
    BY <1>4 DEF Mail!Mark, Mail!Return, Mail!NoteFails, Mail!Marked
  <1>5. ASSUME NEW r \in Readers, Mail!Cancelled(r) PROVE Mail!TypeOK'
    BY <1>5 DEF Mail!Cancelled, Mail!MarkAnyway, Mail!Marked
  <1>6. CASE UNCHANGED Mail!vars
    BY <1>6 DEF Mail!vars
  <1> QED BY <1>1, <1>2, <1>3, <1>4, <1>5, <1>6 DEF Mail!Next

\* What a reader marks is what it listed, and it holds that until it returns it,
\* fails or is cancelled.
LEMMA MailKept ==
    ASSUME Mail!TypeOK, Mail!NoMailLost, [Mail!Next]_(Mail!vars)
    PROVE  Mail!NoMailLost'
  <1> USE DEF Mail!TypeOK, Mail!NoMailLost, Mail!Go
  <1>1. ASSUME NEW m \in Mails, Mail!Store(m) \/ Mail!Wake(m) PROVE Mail!NoMailLost'
    BY <1>1 DEF Mail!Store, Mail!Wake
  <1>2. ASSUME NEW r \in Readers,
               \/ Mail!Read(r) \/ Mail!List(r) \/ Mail!Wait(r) \/ Mail!Woken(r)
               \/ Mail!TimeOut(r) \/ Mail!Reread(r) \/ Mail!ListAll(r)
        PROVE  Mail!NoMailLost'
    <2>1. reader[r] # "noting" /\ UNCHANGED <<sent, unread, returned, dropped>>
      BY <1>2 DEF Mail!Read, Mail!List, Mail!Wait, Mail!Woken, Mail!TimeOut, Mail!Reread,
                  Mail!ListAll
    <2>2. \A o \in Readers \ {r} : reader'[o] = reader[o] /\ batch'[o] = batch[o]
      BY <1>2 DEF Mail!Read, Mail!List, Mail!Wait, Mail!Woken, Mail!TimeOut, Mail!Reread,
                  Mail!ListAll
    <2> QED BY <2>1, <2>2
  <1>3. ASSUME NEW r \in Readers, Mail!Mark(r) PROVE Mail!NoMailLost'
    BY <1>3 DEF Mail!Mark, Mail!Marked
  <1>4. ASSUME NEW r \in Readers, Mail!Return(r) \/ Mail!NoteFails(r)
        PROVE  Mail!NoMailLost'
    BY <1>4 DEF Mail!Return, Mail!NoteFails
  <1>5. ASSUME NEW r \in Readers, Mail!Cancelled(r) PROVE Mail!NoMailLost'
    <2>1. \A o \in Readers \ {r} : reader'[o] = reader[o] /\ batch'[o] = batch[o]
      BY <1>5 DEF Mail!Cancelled
    <2>2. CASE Mail!MarkAnyway(r)
      BY <1>5, <2>1, <2>2 DEF Mail!Cancelled, Mail!MarkAnyway, Mail!Marked
    <2>3. CASE ~Mail!MarkAnyway(r)
      BY <1>5, <2>1, <2>3 DEF Mail!Cancelled
    <2> QED BY <2>2, <2>3
  <1>6. CASE UNCHANGED Mail!vars
    BY <1>6 DEF Mail!vars
  <1> QED BY <1>1, <1>2, <1>3, <1>4, <1>5, <1>6 DEF Mail!Next

-----------------------------------------------------------------------------
(* The parts and the whole                                                 *)

\* A step of the whole is a step of each part or leaves it alone.
LEMMA StepOfEachPart ==
    ASSUME [ExchangesNext]_allVars
    PROVE  /\ [Next]_vars
           /\ [Mail!Next]_(Mail!vars)
           /\ [Asks!Next]_(Asks!vars)
           /\ [Stream!Next]_(Stream!vars)
           /\ [Cli!Next]_(Cli!vars)
           /\ [Command!Next]_(Command!vars)
           /\ part' = part
  <1> USE DEF mailVariables, askVariables, streamVariables, cliVariables, commandVariables,
              Mail!vars, Asks!vars, Stream!vars, Stream!logVars, Stream!streamVars, Cli!vars,
              Command!vars
  <1>1. CASE UNCHANGED allVars
    BY <1>1 DEF allVars
  <1>2. CASE ExchangesNext
    BY <1>2 DEF ExchangesNext, Only
  <1> QED BY <1>1, <1>2

\* A message is unread, given or held, unless a session ends between marking it and
\* its next turn (runtime/mailbox.py, read and mark_read).
THEOREM MailIsKept == ExchangesSpec => []NoMailLost
  <1> DEFINE Inv == Mail!TypeOK /\ Mail!NoMailLost
  <1>1. ExchangesInit => Inv
    BY MailInit DEF ExchangesInit
  <1>2. Inv /\ [ExchangesNext]_allVars => Inv'
    BY StepOfEachPart, MailTypes, MailKept
  <1>3. Inv => NoMailLost
    BY DEF NoMailLost
  <1> QED BY <1>1, <1>2, <1>3, PTL DEF ExchangesSpec

-----------------------------------------------------------------------------
(* The command-line sessions                                               *)

\* What ties the broker to the session that starts it.
BrokerInv ==
    /\ server \in {"none", "starting"} => \A s \in Cli!Sessions : at[s] \in {"new", "starting"}
    /\ server = "starting" => starter \in Cli!Sessions
    /\ \A s \in Cli!Sessions : at[s] = "starting" <=> server = "starting" /\ starter = s

\* What holds of one session wherever it is.
CliSessionInv(s) ==
    /\ s \in registry <=> at[s] \in {"ready", "running", "settling"}
    /\ proc[s] = "alive" => at[s] \in {"running", "asking"}
    /\ at[s] = "asking" => s \in Probes
    /\ at[s] \in {"new", "starting"} => attempt[s] = 0
    /\ at[s] = "ready" => attempt[s] \in 0..1
    /\ earned[s] /\ s \in Workers =>
         /\ "finish" \in did[s] /\ at[s] \in {"running", "settling", "over"}
         /\ at[s] = "over" => outcome[s] \in {"finished", "cancelled", "abandoned"}
    /\ outcome[s] = "passed" => Cli!Pinged(s)

CliInv ==
    /\ Cli!TypeOK /\ earned \in [Cli!Sessions -> BOOLEAN]
    /\ BrokerInv
    /\ \A s \in Cli!Sessions : CliSessionInv(s)


\* At first no session has started.
LEMMA CliInit == Cli!Init => CliInv
  <1> SUFFICES ASSUME Cli!Init PROVE CliInv
    OBVIOUS
  <1>1. calls \in [Cli!Sessions -> [Cli!Calls -> {"idle", "sent", "known", "inside", "done", "refused"}]]
    BY DEF Cli!Init
  <1>2. Cli!TypeOK
    <2>1. /\ server = "none" /\ starter = Nobody /\ registry = {} /\ cancelled = FALSE
      BY DEF Cli!Init
    <2>2. at \in [Cli!Sessions -> {"new", "starting", "ready", "running", "settling", "asking",
          "over"}]
      BY DEF Cli!Init
    <2>3. attempt \in [Cli!Sessions -> 0..2]
      BY DEF Cli!Init
    <2>4. proc \in [Cli!Sessions -> {"none", "alive", "dead"}]
      BY DEF Cli!Init
    <2>5. did \in [Cli!Sessions -> SUBSET Cli!Signs]
      BY DEF Cli!Init
    <2>6. result \in [Cli!Sessions -> {"none", "ok", "turns", "budget", "error", "timeout",
          "cancelled"}]
      BY DEF Cli!Init
    <2>7. outcome \in [Cli!Sessions -> {"none", "finished", "blocked", "approval_pending",
          "failed",
                                    "ended", "cancelled", "abandoned", "passed"}]
      BY DEF Cli!Init
    <2> QED BY <1>1, <2>1, <2>2, <2>3, <2>4, <2>5, <2>6, <2>7, Zenon DEF Cli!TypeOK
  <1>3. BrokerInv
    BY DEF Cli!Init, BrokerInv
  <1>4. \A s \in Cli!Sessions : CliSessionInv(s)
    BY DEF Cli!Init, CliSessionInv
  <1> QED BY <1>2, <1>3, <1>4 DEF Cli!Init, CliInv

\* A session that a step leaves alone keeps its part.
CliUntouched(s) ==
    /\ s \in registry' <=> s \in registry
    /\ at'[s] = at[s] /\ proc'[s] = proc[s] /\ earned'[s] = earned[s] /\ did'[s] = did[s]
    /\ outcome'[s] = outcome[s] /\ calls'[s] = calls[s] /\ attempt'[s] = attempt[s]

\* A session that a step leaves alone keeps its part.
LEMMA CliUntouchedKeeps ==
    ASSUME NEW s \in Cli!Sessions, CliSessionInv(s), CliUntouched(s)
    PROVE  CliSessionInv(s)'
  BY DEF CliSessionInv, CliUntouched, Cli!Pinged

\* A call that was answered stays so.
LEMMA PingsStay ==
    ASSUME CliInv, NEW s \in Cli!Sessions, NEW i \in Cli!Calls, Cli!Call(s, i)
               \/ Cli!LookUp(s, i) \/ Cli!Enter(s, i) \/ Cli!Leave(s, i),
           Cli!Pinged(s)
    PROVE  Cli!Pinged(s)'
  <1>1. PICK j \in Cli!Calls : calls[s][j] = "done"
    BY DEF Cli!Pinged
  <1>2. calls[s][i] # "done"
    BY DEF Cli!Call, Cli!LookUp, Cli!Enter, Cli!Leave
  <1>3. calls'[s][j] = "done"
    BY <1>1, <1>2 DEF Cli!Call, Cli!LookUp, Cli!Enter, Cli!Leave, CliInv, Cli!TypeOK
  <1> QED BY <1>3 DEF Cli!Pinged

\* The broker: only one session starts it, and none goes on before it is started.
LEMMA BrokerKeeps ==
    ASSUME CliInv, Cli!BrokerUp \/ Cli!BrokerFails \/ \E s \in Cli!Sessions : Cli!GetBroker(s)
    PROVE  CliInv'
  <1> USE DEF CliInv, Cli!TypeOK, BrokerInv
  <1>1. ASSUME NEW s \in Cli!Sessions, Cli!GetBroker(s) PROVE CliInv'
    <2>1. Cli!TypeOK' /\ (earned \in [Cli!Sessions -> BOOLEAN])'
      BY <1>1 DEF Cli!GetBroker, Cli!BrokerFree, Cli!brokerVars, Cli!callVars
    <2>2. BrokerInv'
      BY <1>1 DEF Cli!GetBroker, Cli!BrokerFree, Cli!brokerVars, Cli!callVars
    <2>3. CliSessionInv(s)'
      BY <1>1 DEF Cli!GetBroker, Cli!BrokerFree, Cli!brokerVars, Cli!callVars, CliSessionInv,
         Cli!Pinged
    <2>4. \A x \in Cli!Sessions \ {s} : CliUntouched(x)
      BY <1>1 DEF Cli!GetBroker, Cli!BrokerFree, Cli!brokerVars, Cli!callVars, CliUntouched
    <2> QED BY <2>1, <2>2, <2>3, <2>4, CliUntouchedKeeps
  <1>2. ASSUME Cli!BrokerUp \/ Cli!BrokerFails PROVE CliInv'
    <2>1. PICK s \in Cli!Sessions : starter = s /\ at[s] = "starting"
      BY <1>2 DEF Cli!BrokerUp, Cli!BrokerFails
    <2>2. Cli!TypeOK' /\ (earned \in [Cli!Sessions -> BOOLEAN])'
      BY <1>2, <2>1 DEF Cli!BrokerUp, Cli!BrokerFails, Cli!callVars
    <2>3. BrokerInv'
      BY <1>2, <2>1 DEF Cli!BrokerUp, Cli!BrokerFails, Cli!callVars
    <2>4. CliSessionInv(s)'
      <3>1. s \notin registry /\ proc[s] # "alive" /\ ~(earned[s] /\ s \in Workers)
        BY <2>1 DEF CliSessionInv
      <3>2. CASE Cli!BrokerUp
        BY <2>1, <3>1, <3>2 DEF Cli!BrokerUp, Cli!callVars, CliSessionInv, Cli!Pinged
      <3>3. CASE Cli!BrokerFails
        BY <2>1, <3>1, <3>3 DEF Cli!BrokerFails, Cli!callVars, CliSessionInv, Cli!Pinged
      <3> QED BY <1>2, <3>2, <3>3
    <2>5. \A x \in Cli!Sessions \ {s} : CliUntouched(x)
      BY <1>2, <2>1 DEF Cli!BrokerUp, Cli!BrokerFails, Cli!callVars, CliUntouched
    <2> QED BY <2>2, <2>3, <2>4, <2>5, CliUntouchedKeeps
  <1> QED BY <1>1, <1>2

\* A call changes nothing but what its session's calls leave.
LEMMA CliCallsKeep ==
    ASSUME Workers \cap Probes = {}, CliInv, NEW s \in Cli!Sessions, NEW i \in Cli!Calls,
           Cli!Call(s, i) \/ Cli!LookUp(s, i) \/ Cli!Enter(s, i) \/ Cli!Leave(s, i)
    PROVE  CliInv'
  <1> USE DEF CliInv, Cli!TypeOK
  <1>2. Cli!TypeOK' /\ (earned \in [Cli!Sessions -> BOOLEAN])'
    <2>1. calls' \in [Cli!Sessions -> [Cli!Calls -> {"idle", "sent", "known",
          "inside", "done", "refused"}]]
      <3>1. CASE Cli!Call(s, i)
        BY <3>1 DEF Cli!Call
      <3>2. CASE Cli!LookUp(s, i) \/ Cli!Enter(s, i)
        <4>1. PICK where \in {"known", "inside", "refused"} :
                calls' = [calls EXCEPT ![s][i] = where]
          BY <3>2 DEF Cli!LookUp, Cli!Enter
        <4> QED BY <4>1
      <3>3. CASE Cli!Leave(s, i)
        BY <3>3 DEF Cli!Leave
      <3> QED BY <3>1, <3>2, <3>3
    <2>2. did' \in [Cli!Sessions -> SUBSET Cli!Signs] /\ earned' \in [Cli!Sessions -> BOOLEAN]
      <3>1. CASE Cli!Call(s, i) \/ Cli!LookUp(s, i) \/ Cli!Enter(s, i)
        BY <3>1 DEF Cli!Call, Cli!LookUp, Cli!Enter
      <3>2. CASE Cli!Leave(s, i)
        <4>0. {{}} \cup {{x} : x \in Cli!Signs} \subseteq SUBSET Cli!Signs
          BY Zenon
        <4>1. PICK signs \in SUBSET Cli!Signs :
                /\ did' = [did EXCEPT ![s] = @ \cup signs]
                /\ earned' = [earned EXCEPT ![s] = @ \/ ("finish" \in signs /\ proc[s] = "alive")]
          BY <3>2, <4>0 DEF Cli!Leave
        <4>2. did' \in [Cli!Sessions -> SUBSET Cli!Signs]
          BY <4>1
        <4>3. (earned[s] \/ ("finish" \in signs /\ proc[s] = "alive")) \in BOOLEAN
          BY ZenonT(30)
        <4>4. earned' \in [Cli!Sessions -> BOOLEAN]
          BY <4>1, <4>3
        <4> QED BY <4>2, <4>4
      <3> QED BY <3>1, <3>2
    <2> QED BY <2>1, <2>2 DEF Cli!Call, Cli!LookUp, Cli!Enter, Cli!Leave, Cli!brokerVars
  <1>3. BrokerInv'
    BY DEF Cli!Call, Cli!LookUp, Cli!Enter, Cli!Leave, Cli!brokerVars, BrokerInv
  <1>4. CliSessionInv(s)'
    <2>1. at'[s] = at[s] /\ proc'[s] = proc[s] /\ outcome'[s] = outcome[s] /\ registry' = registry
        /\ attempt'[s] = attempt[s]
      BY DEF Cli!Call, Cli!LookUp, Cli!Enter, Cli!Leave
    <2>2. outcome[s] = "passed" => Cli!Pinged(s)'
      BY PingsStay DEF CliSessionInv
    <2>3. earned'[s] /\ s \in Workers =>
            /\ "finish" \in did'[s] /\ at[s] \in {"running", "settling", "over"}
            /\ at[s] = "over" => outcome[s] \in {"finished", "cancelled", "abandoned"}
      <3>1. CASE Cli!Call(s, i) \/ Cli!LookUp(s, i) \/ Cli!Enter(s, i)
        BY <3>1 DEF Cli!Call, Cli!LookUp, Cli!Enter, CliSessionInv
      <3>2. CASE Cli!Leave(s, i)
        <4>0. {{}} \cup {{x} : x \in Cli!Signs} \subseteq SUBSET Cli!Signs
          BY Zenon
        <4>1. PICK signs \in SUBSET Cli!Signs :
                /\ did' = [did EXCEPT ![s] = @ \cup signs]
                /\ earned' = [earned EXCEPT ![s] = @ \/ ("finish" \in signs /\ proc[s] = "alive")]
          BY <3>2, <4>0 DEF Cli!Leave
        <4>2. did'[s] = did[s] \cup signs
          BY <4>1
        <4>3. earned'[s] => earned[s] \/ ("finish" \in signs /\ proc[s] = "alive")
          BY <4>1
        <4>4. CASE earned[s]
          BY <4>2, <4>4 DEF CliSessionInv
        <4>5. CASE ~earned[s]
          BY <4>2, <4>3, <4>5 DEF CliSessionInv, Cli!Sessions
        <4> QED BY <4>4, <4>5
      <3> QED BY <3>1, <3>2
    <2> QED BY <2>1, <2>2, <2>3 DEF CliSessionInv
  <1>5. \A x \in Cli!Sessions \ {s} : CliUntouched(x)
    BY DEF Cli!Call, Cli!LookUp, Cli!Enter, Cli!Leave, CliUntouched
  <1> QED BY <1>2, <1>3, <1>4, <1>5, CliUntouchedKeeps

\* The process and the verdict on its session.
LEMMA CliSessionKeeps ==
    ASSUME Workers \cap Probes = {}, CliInv, NEW s \in Cli!Sessions,
           Cli!Launch(s) \/ Cli!Exit(s) \/ Cli!Classify(s) \/ Cli!Ask(s) \/ Cli!Answered(s)
                 \/ Cli!Abandon(s)
    PROVE  CliInv'
  <1> USE DEF CliInv, Cli!TypeOK
  <1>1. Cli!TypeOK'
    <2>1. CASE Cli!Launch(s)
      <3>1. attempt[s] + 1 \in 0..2
        BY <2>1 DEF Cli!Launch, CliSessionInv
      <3>2. attempt' \in [Cli!Sessions -> 0..2]
        BY <2>1, <3>1 DEF Cli!Launch
      <3>3. proc' \in [Cli!Sessions -> {"none", "alive", "dead"}]
        BY <2>1 DEF Cli!Launch
      <3>4. /\ at' \in [Cli!Sessions -> {"new", "starting", "ready", "running", "settling",
               "asking",
                                      "over"}]
            /\ outcome' \in [Cli!Sessions -> {"none", "finished", "blocked", "approval_pending",
                                           "failed", "ended", "cancelled", "abandoned", "passed"}]
            /\ registry' \subseteq Cli!Sessions
        BY <2>1 DEF Cli!Launch, Cli!End, Cli!Unregistered
      <3> QED BY <2>1, <3>2, <3>3, <3>4 DEF Cli!Launch, Cli!brokerVars, Cli!callVars
    <2>2. CASE Cli!Exit(s) \/ Cli!Ask(s)
      <3>1. result' \in [Cli!Sessions -> {"none", "ok", "turns", "budget", "error", "timeout",
                                      "cancelled"}]
        BY <2>2 DEF Cli!Exit, Cli!Ask
      <3>2. at' \in [Cli!Sessions -> {"new", "starting", "ready", "running", "settling", "asking",
                                  "over"}]
        BY <2>2 DEF Cli!Exit, Cli!Ask
      <3>3. proc' \in [Cli!Sessions -> {"none", "alive", "dead"}]
                /\ registry' \subseteq Cli!Sessions
        BY <2>2 DEF Cli!Exit, Cli!Ask
      <3> QED BY <2>2, <3>1, <3>2, <3>3 DEF Cli!Exit, Cli!Ask, Cli!brokerVars, Cli!callVars
    <2>3. CASE Cli!Classify(s)
      <3>1. Cli!Verdict(s)
                \in {"none", "finished", "blocked", "approval_pending", "failed", "cancelled"}
        BY DEF Cli!Verdict, Cli!Signed
      <3>2. /\ at' \in [Cli!Sessions -> {"new", "starting", "ready", "running", "settling",
               "asking",
                                      "over"}]
            /\ outcome' \in [Cli!Sessions -> {"none", "finished", "blocked", "approval_pending",
                                           "failed", "ended", "cancelled", "abandoned", "passed"}]
            /\ registry' \subseteq Cli!Sessions
        <4>1. \/ Cli!End(s, Cli!Verdict(s))
              \/ at' = [at EXCEPT ![s] = "ready"] /\ registry' = registry /\ outcome' = outcome
              \/ \E how \in {"finished", "ended"} : Cli!End(s, how)
          BY <2>3 DEF Cli!Classify
        <4>2. ASSUME NEW how \in {"finished", "blocked", "approval_pending", "failed", "ended",
                                  "cancelled", "none"}, Cli!End(s, how)
              PROVE  /\ at' = [at EXCEPT ![s] = "over"] /\ outcome' = [outcome EXCEPT ![s] = how]
                     /\ registry' \subseteq Cli!Sessions
          BY <4>2 DEF Cli!End, Cli!Unregistered
        <4> QED BY <3>1, <4>1, <4>2
      <3> QED BY <2>3, <3>2 DEF Cli!Classify, Cli!brokerVars, Cli!callVars
    <2>4. CASE Cli!Answered(s) \/ Cli!Abandon(s)
      BY <2>4 DEF Cli!Answered, Cli!Abandon, Cli!End, Cli!Unregistered, Cli!Stopped,
         Cli!brokerVars, Cli!callVars
    <2> QED BY <2>1, <2>2, <2>3, <2>4
  <1>2. BrokerInv' /\ (earned \in [Cli!Sessions -> BOOLEAN])'
    BY DEF Cli!Launch, Cli!Exit, Cli!Classify, Cli!Ask, Cli!Answered, Cli!Abandon, Cli!End,
       Cli!brokerVars, Cli!callVars, BrokerInv
  <1>3. CliSessionInv(s)'
    <2>1. CASE Cli!Launch(s)
      BY <2>1 DEF Cli!Launch, Cli!End, Cli!Unregistered, Cli!callVars, CliSessionInv,
         Cli!Pinged, Cli!Sessions
    <2>2. CASE Cli!Exit(s)
      BY <2>2 DEF Cli!Exit, Cli!callVars, CliSessionInv, Cli!Pinged
    <2>3. CASE Cli!Classify(s)
      <3>1. s \in Workers /\ s \in registry /\ proc[s] # "alive"
        BY <2>3 DEF Cli!Classify, CliSessionInv
      <3>2. CASE Cli!Verdict(s) # "none" /\ Cli!End(s, Cli!Verdict(s))
        <4>1. earned[s] => Cli!Verdict(s) \in {"finished", "cancelled"}
          BY <3>1 DEF Cli!Verdict, Cli!Signed, CliSessionInv
        <4>2. Cli!Verdict(s) # "passed"
          BY DEF Cli!Verdict, Cli!Signed
        <4> QED BY <2>3, <3>1, <3>2, <4>1, <4>2 DEF Cli!Classify, Cli!End, Cli!Unregistered,
                   Cli!callVars, CliSessionInv
      <3>3. CASE Cli!Verdict(s) = "none"
        <4>1. ~earned[s]
          BY <3>1, <3>3 DEF Cli!Verdict, Cli!Signed, CliSessionInv
        <4> QED BY <2>3, <3>1, <3>3, <4>1
              DEF Cli!Classify, Cli!End, Cli!Unregistered, Cli!callVars, CliSessionInv,
              Cli!Pinged
      <3> QED BY <2>3, <3>2, <3>3 DEF Cli!Classify
    <2>4. CASE Cli!Ask(s)
      BY <2>4 DEF Cli!Ask, Cli!callVars, CliSessionInv, Cli!Pinged
    <2>5. CASE Cli!Answered(s)
      BY <2>5 DEF Cli!Answered, Cli!End, Cli!Unregistered, Cli!callVars, CliSessionInv,
         Cli!Pinged
    <2>6. CASE Cli!Abandon(s)
      BY <2>6 DEF Cli!Abandon, Cli!End, Cli!Unregistered, Cli!Stopped, Cli!callVars,
         CliSessionInv, Cli!Pinged
    <2> QED BY <2>1, <2>2, <2>3, <2>4, <2>5, <2>6
  <1>4. \A x \in Cli!Sessions \ {s} : CliUntouched(x)
    BY DEF Cli!Launch, Cli!Exit, Cli!Classify, Cli!Ask, Cli!Answered, Cli!Abandon, Cli!End,
       Cli!Unregistered, Cli!Stopped,
           Cli!callVars, CliUntouched
  <1> QED BY <1>1, <1>2, <1>3, <1>4, CliUntouchedKeeps

\* The invariant of the command-line sessions is inductive.
LEMMA CliStep ==
    ASSUME Workers \cap Probes = {}, CliInv, [Cli!Next]_(Cli!vars)
    PROVE  CliInv'
  <1>1. CASE Cli!BrokerUp \/ Cli!BrokerFails
    BY <1>1, BrokerKeeps
  <1>2. CASE \E s \in Cli!Sessions : Cli!Step(s)
    BY <1>2, BrokerKeeps, CliCallsKeep, CliSessionKeeps DEF Cli!Step
  <1>3. CASE Cli!Cancel \/ UNCHANGED Cli!vars
    <2>1. \A s \in Cli!Sessions : CliUntouched(s)
      BY <1>3 DEF Cli!Cancel, Cli!vars, Cli!callVars, CliUntouched
    <2>2. Cli!TypeOK' /\ (earned \in [Cli!Sessions -> BOOLEAN])' /\ BrokerInv'
      BY <1>3 DEF Cli!Cancel, Cli!vars, Cli!brokerVars, Cli!callVars, CliInv, Cli!TypeOK,
         BrokerInv
    <2> QED BY <2>1, <2>2, CliUntouchedKeeps DEF CliInv
  <1> QED BY <1>1, <1>2, <1>3 DEF Cli!Next

\* The inductive invariant holds in every run.
LEMMA CliRuns == ExchangesSpec => []CliInv
  <1>1. ExchangesInit => CliInv
    BY CliInit DEF ExchangesInit
  <1>2. CliInv /\ [ExchangesNext]_allVars => CliInv'
    BY PartsAssumption, StepOfEachPart, CliStep
  <1> QED BY <1>1, <1>2, PTL DEF ExchangesSpec

-----------------------------------------------------------------------------
(* The commands                                                            *)

\* Places at which nothing has run yet.
BeforeRun == {"new", "asking", "preparing", "preflight", "denied"}

\* What holds of one command wherever its call is.
CommandInv(k) ==
    /\ step[k] \in BeforeRun => client[k] = "none" /\ box[k] = "none"
    /\ client[k] = "none" => box[k] = "none"
    /\ step[k] \in {"running", "cleaning", "removing", "killing"} => client[k] # "none"
    /\ step[k] = "removing" => backend[k] = "docker"
    /\ client[k] = "dead" /\ step[k] = "running" => box[k] # "running"
    /\ step[k] = "killing" /\ backend[k] = "docker" /\ identified[k] /\ ~unremoved[k]
         => box[k] = "gone"
    /\ k \in Checks =>
         backend[k] \in {"none", "worker"} /\ step[k] \notin {"asking", "preparing", "preflight"}
    /\ k \in Secured /\ box[k] # "none" => backend[k] = "docker"
    /\ step[k] = "done" => client[k] = "dead"
    /\ step[k] = "raised" => client[k] # "alive" \/ cut[k]
    /\ Command!Over(k) /\ box[k] = "running" =>
         (backend[k] = "docker" /\ (~identified[k] \/ unremoved[k])) \/ cut[k]

CommandsInv == Command!TypeOK /\ \A k \in Command!Commands : CommandInv(k)


\* At first no command has started.
LEMMA CommandInit == Command!Init => CommandsInv
  BY DEF Command!Init, CommandsInv, Command!TypeOK, CommandInv, BeforeRun, Command!Over

\* A command that a step leaves alone keeps its part.
CommandUntouched(k) ==
    /\ step'[k] = step[k] /\ backend'[k] = backend[k] /\ client'[k] = client[k]
    /\ box'[k] = box[k] /\ identified'[k] = identified[k]
    /\ unremoved'[k] = unremoved[k] /\ cut'[k] = cut[k]

\* A command that a step leaves alone keeps its part.
LEMMA CommandUntouchedKeeps ==
    ASSUME NEW k \in Command!Commands, CommandInv(k), CommandUntouched(k)
    PROVE  CommandInv(k)'
  BY DEF CommandInv, CommandUntouched, Command!Over, BeforeRun

\* The steps up to the start of the command.
LEMMA BeginningKeeps ==
    ASSUME Checks \cap Tools = {}, Secured \subseteq Tools, CommandsInv,
           NEW k \in Command!Commands,
           Command!BeginCheck(k) \/ Command!Begin(k) \/ Command!DockerInfo(k)
                 \/ Command!Prepare(k) \/ Command!Preflight(k)
    PROVE  CommandsInv'
  <1> USE DEF CommandsInv, Command!TypeOK
  <1>1. CASE Command!BeginCheck(k)
    <2>1. Command!TypeOK'
      BY <1>1 DEF Command!BeginCheck, Command!Spawned, Command!Go, Command!hostVars,
         Command!stopVars
    <2>2. CommandInv(k)'
      BY <1>1 DEF Command!BeginCheck, Command!Spawned, Command!Go, Command!hostVars,
         Command!stopVars, CommandInv, Command!Over, BeforeRun
    <2>3. \A x \in Command!Commands \ {k} : CommandUntouched(x)
      BY <1>1 DEF Command!BeginCheck, Command!Spawned, Command!Go, Command!hostVars,
         Command!stopVars, CommandUntouched
    <2> QED BY <2>1, <2>2, <2>3, CommandUntouchedKeeps
  <1>2. ASSUME NEW b \in {"none", "docker", "sandbox-exec", "subprocess"}, Command!Chosen(k, b),
               step[k] \in {"new", "asking"}, k \in Tools, UNCHANGED <<Command!stopVars, cut>>,
               daemon' = daemon, known' \in {"unknown", "yes", "no"}, image' = image
        PROVE  CommandsInv'
    <2>1. Command!TypeOK'
      BY <1>2 DEF Command!Chosen, Command!Spawned, Command!Go, Command!stopVars, Command!runVars
    <2>2. CommandInv(k)'
      BY <1>2 DEF Command!Chosen, Command!Refused, Command!Spawned, Command!Go,
         Command!stopVars, Command!runVars, CommandInv, Command!Over, BeforeRun
    <2>3. \A x \in Command!Commands \ {k} : CommandUntouched(x)
      BY <1>2 DEF Command!Chosen, Command!Spawned, Command!Go, Command!stopVars,
         Command!runVars, CommandUntouched
    <2> QED BY <2>1, <2>2, <2>3, CommandUntouchedKeeps
  <1>3. \A docker : Command!Backend(docker) \in {"none", "docker", "sandbox-exec", "subprocess"}
    BY DEF Command!Backend, Command!Fallback
  <1>4. CASE Command!Begin(k)
    <2>1. CASE Mode # "subprocess" /\ known = "unknown"
      <3>1. Command!TypeOK'
        BY <1>4, <2>1 DEF Command!Begin, Command!Go, Command!hostVars, Command!stopVars,
           Command!runVars
      <3>2. CommandInv(k)'
        BY <1>4, <2>1 DEF Command!Begin, Command!Go, Command!hostVars, Command!stopVars,
           Command!runVars, CommandInv, Command!Over, BeforeRun
      <3>3. \A x \in Command!Commands \ {k} : CommandUntouched(x)
        BY <1>4, <2>1 DEF Command!Begin, Command!Go, Command!hostVars, Command!stopVars,
           Command!runVars, CommandUntouched
      <3> QED BY <3>1, <3>2, <3>3, CommandUntouchedKeeps
    <2>2. CASE ~(Mode # "subprocess" /\ known = "unknown")
      BY <1>2, <1>3, <1>4, <2>2 DEF Command!Begin, Command!hostVars
    <2> QED BY <2>1, <2>2
  <1>5. CASE Command!DockerInfo(k)
    <2>1. k \in Tools
      BY <1>5 DEF Command!DockerInfo, CommandInv, Command!Commands
    <2> QED BY <1>2, <1>3, <1>5, <2>1 DEF Command!DockerInfo
  <1>6. CASE Command!Prepare(k) \/ Command!Preflight(k)
    <2>1. Command!TypeOK'
      BY <1>6 DEF Command!Prepare, Command!Preflight, Command!Spawned, Command!Go,
         Command!hostVars, Command!stopVars, Command!runVars
    <2>2. CommandInv(k)'
      BY <1>6 DEF Command!Prepare, Command!Preflight, Command!Spawned, Command!Go,
         Command!hostVars, Command!stopVars, Command!runVars, CommandInv,
                  Command!Over, BeforeRun
    <2>3. \A x \in Command!Commands \ {k} : CommandUntouched(x)
      BY <1>6 DEF Command!Prepare, Command!Preflight, Command!Spawned, Command!Go,
         Command!hostVars, Command!stopVars, Command!runVars, CommandUntouched
    <2> QED BY <2>1, <2>2, <2>3, CommandUntouchedKeeps
  <1> QED BY <1>1, <1>4, <1>5, <1>6

\* The container, its client and the command by themselves.
LEMMA RunningKeeps ==
    ASSUME CommandsInv, NEW k \in Command!Commands,
           Command!Make(k) \/ Command!WriteId(k) \/ Command!StartBox(k) \/ Command!EndBox(k)
                 \/ Command!EndClient(k)
    PROVE  CommandsInv'
  <1> USE DEF CommandsInv, Command!TypeOK
  <1>1. Command!TypeOK'
    BY DEF Command!Make, Command!WriteId, Command!StartBox, Command!EndBox, Command!EndClient,
       Command!hostVars, Command!stopVars
  <1>2. CommandInv(k)'
    BY DEF Command!Make, Command!WriteId, Command!StartBox, Command!EndBox, Command!EndClient,
       Command!hostVars, Command!stopVars, CommandInv, Command!Over, BeforeRun
  <1>3. \A x \in Command!Commands \ {k} : CommandUntouched(x)
    BY DEF Command!Make, Command!WriteId, Command!StartBox, Command!EndBox, Command!EndClient,
       Command!hostVars, Command!stopVars, CommandUntouched
  <1> QED BY <1>1, <1>2, <1>3, CommandUntouchedKeeps

\* The end of a call: by itself, at its time limit, or cancelled.
LEMMA EndingKeeps ==
    ASSUME CommandsInv, NEW k \in Command!Commands,
           \/ Command!Finish(k) \/ Command!TimeOut(k) \/ Command!Cancel(k)
           \/ Command!LookForId(k) \/ Command!RemoveBox(k) \/ Command!KillClient(k)
    PROVE  CommandsInv'
  <1> USE DEF CommandsInv, Command!TypeOK
  <1>1. CASE Command!Finish(k) \/ Command!TimeOut(k) \/ Command!Cancel(k)
    <2>1. ASSUME Command!Finish(k) PROVE Command!TypeOK' /\ CommandInv(k)'
      <3>1. Command!TypeOK'
        BY <2>1 DEF Command!Finish, Command!Go, Command!hostVars, Command!stopVars,
           Command!runVars
      <3>2. CommandInv(k)'
        BY <2>1 DEF Command!Finish, Command!Go, Command!hostVars, Command!stopVars,
           Command!runVars, CommandInv, Command!Over, BeforeRun
      <3> QED BY <3>1, <3>2
    <2>2. ASSUME Command!TimeOut(k) PROVE Command!TypeOK' /\ CommandInv(k)'
      <3>1. Command!TypeOK'
        BY <2>2 DEF Command!TimeOut, Command!Stop, Command!Go, Command!hostVars, Command!runVars
      <3>2. CommandInv(k)'
        BY <2>2 DEF Command!TimeOut, Command!Stop, Command!Go, Command!hostVars,
           Command!runVars, CommandInv, Command!Over, BeforeRun
      <3> QED BY <3>1, <3>2
    <2>3. ASSUME Command!Cancel(k) PROVE Command!TypeOK' /\ CommandInv(k)'
      <3>1. Command!TypeOK'
        BY <2>3 DEF Command!Cancel, Command!Stop, Command!Go, Command!hostVars,
           Command!stopVars, Command!runVars
      <3>2. CommandInv(k)'
        <4>1. CASE step[k] = "running"
          BY <2>3, <4>1 DEF Command!Cancel, Command!Stop, Command!Go, Command!hostVars,
             Command!stopVars, Command!runVars, CommandInv, Command!Over, BeforeRun
        <4>2. CASE step[k] # "running"
          BY <2>3, <4>2 DEF Command!Cancel, Command!Stop, Command!Go, Command!hostVars,
             Command!stopVars, Command!runVars, CommandInv, Command!Over, BeforeRun
        <4> QED BY <4>1, <4>2
      <3> QED BY <3>1, <3>2
    <2>4. Command!TypeOK' /\ CommandInv(k)'
      BY <1>1, <2>1, <2>2, <2>3
    <2>5. \A x \in Command!Commands \ {k} : CommandUntouched(x)
      BY <1>1 DEF Command!Finish, Command!TimeOut, Command!Cancel, Command!Stop, Command!Go,
         Command!hostVars, Command!stopVars, Command!runVars, CommandUntouched
    <2> QED BY <2>4, <2>5, CommandUntouchedKeeps
  <1>2. CASE Command!LookForId(k) \/ Command!RemoveBox(k) \/ Command!KillClient(k)
    <2>1. Command!TypeOK'
      BY <1>2 DEF Command!LookForId, Command!RemoveBox, Command!KillClient, Command!KilledBox,
         Command!Go, Command!hostVars, Command!stopVars, Command!runVars
    <2>2. CommandInv(k)'
      <3>1. CASE Command!LookForId(k)
        BY <3>1 DEF Command!LookForId, Command!HasId, Command!Go, Command!hostVars,
           Command!runVars, CommandInv, Command!Over, BeforeRun
      <3>2. CASE Command!RemoveBox(k)
        BY <3>2 DEF Command!RemoveBox, Command!Go, Command!hostVars, CommandInv, Command!Over,
           BeforeRun
      <3>3. CASE Command!KillClient(k)
        BY <3>3 DEF Command!KillClient, Command!KilledBox, Command!Go, Command!hostVars,
           Command!stopVars, CommandInv, Command!Over, BeforeRun
      <3> QED BY <1>2, <3>1, <3>2, <3>3
    <2>3. \A x \in Command!Commands \ {k} : CommandUntouched(x)
      BY <1>2 DEF Command!LookForId, Command!RemoveBox, Command!KillClient, Command!KilledBox,
         Command!Go, Command!hostVars, Command!stopVars, Command!runVars,
                  CommandUntouched
    <2> QED BY <2>1, <2>2, <2>3, CommandUntouchedKeeps
  <1> QED BY <1>1, <1>2

\* The invariant of the commands is inductive.
LEMMA CommandStep ==
    ASSUME Checks \cap Tools = {}, Secured \subseteq Tools, CommandsInv,
           [Command!Next]_(Command!vars)
    PROVE  CommandsInv'
  <1>1. ASSUME NEW k \in Command!Commands, Command!Step(k) PROVE CommandsInv'
    BY <1>1, BeginningKeeps, RunningKeeps, EndingKeeps DEF Command!Step
  <1>2. CASE Command!Daemon \/ UNCHANGED Command!vars
    <2>1. Command!TypeOK'
      BY <1>2 DEF Command!Daemon, Command!vars, Command!runVars, Command!stopVars, CommandsInv,
         Command!TypeOK
    <2>2. \A k \in Command!Commands : CommandUntouched(k)
      BY <1>2 DEF Command!Daemon, Command!vars, Command!runVars, Command!stopVars,
         CommandUntouched
    <2> QED BY <2>1, <2>2, CommandUntouchedKeeps DEF CommandsInv
  <1> QED BY <1>1, <1>2 DEF Command!Next

\* The inductive invariant holds in every run.
LEMMA CommandsRun == ExchangesSpec => []CommandsInv
  <1>1. ExchangesInit => CommandsInv
    BY CommandInit DEF ExchangesInit
  <1>2. CommandsInv /\ [ExchangesNext]_allVars => CommandsInv'
    BY PartsAssumption, StepOfEachPart, CommandStep
  <1> QED BY <1>1, <1>2, PTL DEF ExchangesSpec

\* A session that is over has no process and no token, and no call enters its tools; a
\* finish that was answered while the process lived is reported, and a probe passes only
\* with a tool call of its own (runtime/worker.py, _run_cli_session;
\* runtime/session_broker.py).  When a call is over nothing of it runs, but for a
\* container that had no id yet, one that Docker did not remove, or a cleanup that was
\* cancelled; and secured work runs in a container or not at all (runtime/sandbox.py,
\* run_command and terminate).
THEOREM NothingIsLeftBehind == ExchangesSpec => []NothingIsLeft
  <1>1. CliInv => Cli!SessionsLeaveNothing
    BY DEF CliInv, BrokerInv, CliSessionInv, Cli!SessionsLeaveNothing
  <1>2. CliInv => Cli!FinishedIsReported
    BY DEF CliInv, CliSessionInv, Cli!FinishedIsReported, Cli!Sessions
  <1>3. CommandsInv => Command!NothingOutlivesItsCall
    BY DEF CommandsInv, CommandInv, Command!NothingOutlivesItsCall
  <1>4. CommandsInv => Command!SecuredIsContained
    BY DEF CommandsInv, CommandInv, Command!SecuredIsContained, BeforeRun
  <1>5. CliInv /\ CommandsInv => NothingIsLeft
    BY <1>1, <1>2, <1>3, <1>4 DEF NothingIsLeft
  <1> QED BY <1>5, CliRuns, CommandsRun, PTL

-----------------------------------------------------------------------------
(* The event stream                                                        *)

\* The places at which the stream has listed the log since it subscribed.
Following == place \in {"replay", "loop", "wait", "flush", "last"}

\* The event is in what was listed and is not yielded.
InReplay(e) == e <= cursor + Len(replay)

\* How the listed events, the subscription and the cursor lie in the log.
StreamShape ==
    /\ unannounced \in {0, length} /\ ending <= length
    /\ cursor + Len(replay) <= length
    /\ \A i \in DOMAIN replay : replay[i] = cursor + i
    /\ \A i \in DOMAIN queue : queue[i] <= length
    /\ replay # <<>> => place \in {"replay", "last"}
    /\ Following \/ place = "list" => subscribed

\* What was received rises to the cursor, and what the cursor passed was received
\* or is an ending event.
ReceivedInOrder ==
    /\ \A i, j \in DOMAIN yielded : i < j => yielded[i] < yielded[j]
    /\ \A i \in DOMAIN yielded : yielded[i] <= cursor
    /\ \A e \in 1..cursor :
         (\E i \in DOMAIN yielded : yielded[i] = e) \/ (e \in deferred /\ e < cursor)

\* What is still to be received and was announced is listed or subscribed,
NoneIsMissing ==
    Following =>
      \A e \in 1..length :
        cursor < e /\ e \notin deferred /\ e # unannounced =>
          InReplay(e) \/ \E j \in DOMAIN queue : queue[j] = e

\* and comes to the subscription before what was announced later, unless it is an
\* ending event.
QueueInOrder ==
    Following =>
      \A i \in DOMAIN queue : \A e \in 1..length :
        cursor < e /\ e < queue[i] /\ e \notin deferred =>
          InReplay(e) \/ \E j \in 1..(i - 1) : queue[j] = e

StreamInv ==
    /\ Stream!TypeOK /\ StreamShape /\ ReceivedInOrder /\ NoneIsMissing /\ QueueInOrder

LEMMA StreamLimits == MaxEvents \in Nat /\ MaxConnections \in Nat
  BY PartsAssumption

LEMMA StreamInit == Stream!Init => StreamInv
  <1> SUFFICES ASSUME Stream!Init PROVE StreamInv
    OBVIOUS
  <1> USE StreamLimits DEF Stream!Init
  <1>1. Stream!TypeOK
    <2>1. /\ length \in 0..MaxEvents /\ {unannounced, ending} \subseteq 0..MaxEvents
          /\ deferred \subseteq Stream!Events
          /\ cursor \in 0..MaxEvents /\ connections \in 0..MaxConnections
      OBVIOUS
    <2>2. /\ replay \in Seq(Stream!Events) /\ queue \in Seq(Stream!Events)
          /\ yielded \in Seq(Stream!Events)
      OBVIOUS
    <2> QED BY <2>1, <2>2 DEF Stream!TypeOK
  <1>2. StreamShape
    BY DEF StreamShape, Following
  <1>3. ReceivedInOrder /\ NoneIsMissing /\ QueueInOrder
    BY DEF ReceivedInOrder, NoneIsMissing, QueueInOrder, Following
  <1> QED BY <1>1, <1>2, <1>3 DEF StreamInv

\* An event announced to the subscription is behind those announced before, and no
\* event below it waits for its notification but an ending event.
LEMMA AnnouncedKeeps ==
    ASSUME StreamInv, NEW e \in Stream!Events, Stream!Announced(e), e <= length,
           unannounced' = unannounced \/ (unannounced = e /\ unannounced' = 0),
           UNCHANGED <<length, ending, deferred, place, cursor, replay, subscribed, yielded,
                       connections>>,
           pending' \in BOOLEAN
    PROVE  StreamInv'
  <1> USE StreamLimits DEF StreamInv, Stream!Announced
  <1>1. Stream!TypeOK'
    <2>1. queue' \in Seq(Stream!Events)
      BY DEF Stream!TypeOK
    <2>2. unannounced' \in 0..MaxEvents
      BY DEF Stream!TypeOK
    <2> QED BY <2>1, <2>2 DEF Stream!TypeOK
  <1>2. CASE ~subscribed
    BY <1>1, <1>2 DEF StreamShape, ReceivedInOrder, NoneIsMissing, QueueInOrder, Following
  <1>3. CASE subscribed
    <2>1. /\ queue' = Append(queue, e) /\ Len(queue') = Len(queue) + 1
          /\ queue'[Len(queue) + 1] = e
          /\ \A i \in DOMAIN queue : i \in DOMAIN queue' /\ queue'[i] = queue[i]
          /\ DOMAIN queue' = 1..(Len(queue) + 1) /\ DOMAIN queue = 1..Len(queue)
          /\ Len(queue) \in Nat
      BY <1>3 DEF Stream!TypeOK
    <2>2. StreamShape'
      BY <2>1 DEF StreamShape, Following, Stream!TypeOK
    <2>3. ReceivedInOrder'
      BY DEF ReceivedInOrder
    <2>4. NoneIsMissing'
      <3> SUFFICES ASSUME Following, NEW d \in 1..length, cursor < d, d \notin deferred,
                          d # unannounced'
                   PROVE  InReplay(d) \/ \E j \in DOMAIN queue' : queue'[j] = d
        BY DEF NoneIsMissing, Following, InReplay
      <3>1. CASE d = e
        BY <3>1, <2>1
      <3>2. CASE d # e
        BY <3>2, <2>1 DEF NoneIsMissing, InReplay, StreamShape, Stream!TypeOK
      <3> QED BY <3>1, <3>2
    <2>5. QueueInOrder'
      <3> SUFFICES ASSUME Following, NEW i \in DOMAIN queue',
                          NEW d \in 1..length, cursor < d, d < queue'[i], d \notin deferred
                   PROVE  InReplay(d) \/ \E j \in 1..(i - 1) : queue'[j] = d
        BY DEF QueueInOrder, Following, InReplay
      <3>1. CASE i \in DOMAIN queue
        <4>1. InReplay(d) \/ \E j \in 1..(i - 1) : queue[j] = d
          BY <3>1, <2>1 DEF QueueInOrder
        <4> QED BY <4>1, <3>1, <2>1 DEF InReplay
      <3>2. CASE i = Len(queue) + 1
        <4>1. d # unannounced
          BY <3>2, <2>1 DEF Stream!TypeOK, Stream!Events, StreamShape
        <4> QED BY <4>1, <3>2, <2>1 DEF NoneIsMissing, InReplay
      <3> QED BY <3>1, <3>2, <2>1
    <2> QED BY <1>1, <2>2, <2>3, <2>4, <2>5
  <1> QED BY <1>2, <1>3 DEF Stream!TypeOK

LEMMA LogKeeps ==
    ASSUME StreamInv,
           \/ Stream!Insert \/ Stream!Notify \/ Stream!InsertEnding \/ Stream!NotifyEnding
           \/ Stream!Resume
    PROVE  StreamInv'
  <1> USE StreamLimits DEF StreamInv, Stream!streamVars
  <1>1. CASE Stream!Insert \/ Stream!InsertEnding
    <2> USE <1>1 DEF Stream!Insert, Stream!InsertEnding
    <2>1. Stream!TypeOK'
      <3>1. length + 1 \in Stream!Events /\ length' \in 0..MaxEvents
        BY DEF Stream!TypeOK, Stream!Events
      <3>2. /\ {unannounced', ending'} \subseteq 0..MaxEvents
            /\ deferred' \subseteq Stream!Events
        BY <3>1 DEF Stream!TypeOK, Stream!Events
      <3> QED BY <3>1, <3>2 DEF Stream!TypeOK
    <2>2. StreamShape'
      <3>1. \A i \in DOMAIN queue : queue[i] <= length'
        BY DEF StreamShape, Stream!TypeOK, Stream!Events
      <3> QED BY <3>1 DEF StreamShape, Following, Stream!TypeOK
    <2>3. ReceivedInOrder'
      BY DEF ReceivedInOrder
    <2>4. NoneIsMissing'
      BY DEF NoneIsMissing, Following, InReplay, Stream!TypeOK
    <2>5. QueueInOrder'
      <3>1. \A i \in DOMAIN queue : queue[i] \in Nat /\ queue[i] <= length
        BY DEF StreamShape, Stream!TypeOK, Stream!Events
      <3>2. length \in Nat /\ deferred \subseteq deferred' /\ length' = length + 1
        BY DEF Stream!TypeOK
      <3>3. UNCHANGED <<place, cursor, replay, queue>>
        OBVIOUS
      <3> QED
        BY ONLY QueueInOrder, <3>1, <3>2, <3>3 DEF QueueInOrder, Following, InReplay
    <2> QED BY <2>1, <2>2, <2>3, <2>4, <2>5
  <1>2. CASE Stream!Notify
    BY <1>2, AnnouncedKeeps DEF Stream!Notify, Stream!TypeOK, Stream!Events, StreamShape
  <1>3. CASE Stream!NotifyEnding
    <2>1. ending \in Stream!Events /\ ending <= length
      BY <1>3 DEF Stream!NotifyEnding, Stream!TypeOK, Stream!Events, StreamShape
    <2> QED BY <1>3, <2>1, AnnouncedKeeps DEF Stream!NotifyEnding
  <1>4. CASE Stream!Resume
    <2> USE <1>4 DEF Stream!Resume
    <2>1. Stream!TypeOK' /\ StreamShape'
      BY DEF Stream!TypeOK, StreamShape, Following
    <2>2. ReceivedInOrder' /\ NoneIsMissing' /\ QueueInOrder'
      BY DEF ReceivedInOrder, NoneIsMissing, QueueInOrder, Following, InReplay
    <2> QED BY <2>1, <2>2
  <1> QED BY <1>1, <1>2, <1>3, <1>4

\* The stream connects, lists, waits and closes.
LEMMA PlacesKeep ==
    ASSUME StreamInv,
           \/ Stream!Connect \/ Stream!Subscribe \/ Stream!List \/ Stream!Replayed
           \/ Stream!Look \/ Stream!Ping \/ Stream!Close
    PROVE  StreamInv'
  <1> USE StreamLimits DEF StreamInv, Stream!logVars
  <1>1. CASE Stream!List
    <2> USE <1>1 DEF Stream!List
    <2>1. /\ replay' \in Seq(Stream!Events) /\ Len(replay') = length - cursor
          /\ \A i \in DOMAIN replay' : replay'[i] = cursor + i
      BY DEF Stream!Listed, Stream!TypeOK, Stream!Events, StreamShape
    <2>2. Stream!TypeOK'
      BY <2>1 DEF Stream!TypeOK
    <2>3. StreamShape'
      BY <2>1 DEF StreamShape, Following, Stream!TypeOK
    <2>4. ReceivedInOrder'
      BY DEF ReceivedInOrder
    <2>5. NoneIsMissing'
      BY <2>1 DEF NoneIsMissing, InReplay, Stream!TypeOK
    <2>6. QueueInOrder'
      BY <2>1 DEF QueueInOrder, InReplay, Stream!TypeOK, Stream!Events, StreamShape
    <2> QED BY <2>2, <2>3, <2>4, <2>5, <2>6
  <1>2. CASE Stream!Connect \/ Stream!Subscribe
    <2> USE <1>2 DEF Stream!Connect, Stream!Subscribe, Stream!FirstPlace
    <2>1. Stream!TypeOK'
      <3>1. connections' \in 0..MaxConnections
        BY DEF Stream!TypeOK
      <3>2. place' \in {"subscribe", "list"} /\ subscribed' \in BOOLEAN
        BY DEF Stream!TypeOK
      <3> QED BY <3>1, <3>2 DEF Stream!TypeOK
    <2>2. StreamShape' /\ ReceivedInOrder' /\ NoneIsMissing' /\ QueueInOrder'
      BY DEF StreamShape, ReceivedInOrder, NoneIsMissing, QueueInOrder, Following
    <2> QED BY <2>1, <2>2
  <1>3. CASE Stream!Replayed \/ Stream!Look \/ Stream!Ping
    <2> USE <1>3 DEF Stream!Replayed, Stream!Look, Stream!Ping
    <2>1. Stream!TypeOK'
      BY DEF Stream!TypeOK
    <2>2. StreamShape' /\ ReceivedInOrder'
      BY DEF StreamShape, ReceivedInOrder, Following
    <2>3. NoneIsMissing' /\ QueueInOrder'
      BY DEF NoneIsMissing, QueueInOrder, Following, InReplay
    <2> QED BY <2>1, <2>2, <2>3
  <1>4. CASE Stream!Close
    <2> USE <1>4 DEF Stream!Close
    <2>1. Stream!TypeOK'
      <3>1. replay' \in Seq(Stream!Events) /\ queue' \in Seq(Stream!Events)
        OBVIOUS
      <3> QED BY <3>1 DEF Stream!TypeOK
    <2>2. StreamShape'
      BY DEF StreamShape, Following, Stream!TypeOK
    <2>3. ReceivedInOrder' /\ NoneIsMissing' /\ QueueInOrder'
      BY DEF ReceivedInOrder, NoneIsMissing, QueueInOrder, Following
    <2> QED BY <2>1, <2>2, <2>3
  <1> QED BY <1>1, <1>2, <1>3, <1>4

\* What is received next is above all that was received, and what it passes over is
\* ending events.
LEMMA ReceivedKeepsOrder ==
    ASSUME Stream!TypeOK, ReceivedInOrder, NEW e \in Stream!Events, cursor < e,
           Stream!Yield(e), deferred' = deferred,
           \A d \in (cursor + 1)..(e - 1) : d \in deferred
    PROVE  ReceivedInOrder'
  <1> USE DEF Stream!Yield, Stream!TypeOK, Stream!Events
  <1>1. /\ Len(yielded) \in Nat /\ DOMAIN yielded = 1..Len(yielded)
        /\ DOMAIN yielded' = 1..(Len(yielded) + 1) /\ yielded'[Len(yielded) + 1] = e
        /\ \A i \in DOMAIN yielded : yielded'[i] = yielded[i] /\ yielded[i] \in Nat
    <2>1. yielded \in Seq(Nat) /\ e \in Nat
      BY StreamLimits
    <2> HIDE DEF Stream!TypeOK, Stream!Events
    <2> QED BY <2>1
  <1>2. \A i, j \in DOMAIN yielded' : i < j => yielded'[i] < yielded'[j]
    <2> SUFFICES ASSUME NEW i \in DOMAIN yielded', NEW j \in DOMAIN yielded', i < j
                 PROVE  yielded'[i] < yielded'[j]
      OBVIOUS
    <2>1. i \in DOMAIN yielded /\ yielded'[i] = yielded[i] /\ yielded[i] <= cursor
      BY <1>1 DEF ReceivedInOrder
    <2>2. CASE j \in DOMAIN yielded
      BY <1>1, <2>1, <2>2 DEF ReceivedInOrder
    <2>3. CASE j = Len(yielded) + 1
      BY <1>1, <2>1, <2>3
    <2> QED BY <1>1, <2>2, <2>3
  <1>3. \A i \in DOMAIN yielded' : yielded'[i] <= cursor'
    <2> SUFFICES ASSUME NEW i \in DOMAIN yielded' PROVE yielded'[i] <= e
      OBVIOUS
    <2>1. CASE i \in DOMAIN yielded
      BY <1>1, <2>1 DEF ReceivedInOrder
    <2> QED BY <1>1, <2>1
  <1>4. \A d \in 1..cursor' : (\E i \in DOMAIN yielded' : yielded'[i] = d) \/
                              (d \in deferred' /\ d < cursor')
    <2> SUFFICES ASSUME NEW d \in 1..e
                 PROVE  (\E i \in DOMAIN yielded' : yielded'[i] = d) \/ (d \in deferred /\ d < e)
      OBVIOUS
    <2>1. CASE d = e
      <3>1. Len(yielded) + 1 \in DOMAIN yielded'
        BY <1>1
      <3> QED BY <1>1, <2>1, <3>1
    <2>2. CASE d <= cursor
      <3>1. (\E i \in DOMAIN yielded : yielded[i] = d) \/ d \in deferred
        BY <2>2 DEF ReceivedInOrder
      <3> QED BY <3>1, <2>2, <1>1
    <2>3. CASE d \in (cursor + 1)..(e - 1)
      BY <2>3
    <2> QED BY <2>1, <2>2, <2>3
  <1> QED BY <1>2, <1>3, <1>4 DEF ReceivedInOrder

LEMMA YieldListedKeeps ==
    ASSUME StreamInv, Stream!YieldListed
    PROVE  StreamInv'
  <1> USE StreamLimits DEF StreamInv, Stream!YieldListed, Stream!logVars
  <1>1. /\ Len(replay) \in Nat \ {0} /\ Head(replay) = cursor + 1 /\ cursor + 1 \in Stream!Events
        /\ Len(replay') = Len(replay) - 1 /\ cursor' = cursor + 1
        /\ \A i \in DOMAIN replay' : replay'[i] = cursor' + i
        /\ replay' \in Seq(Stream!Events)
    <2>1. replay \in Seq(Stream!Events) /\ replay # <<>> /\ cursor \in Nat
      BY DEF Stream!TypeOK
    <2>2. Len(replay) \in Nat \ {0} /\ Head(replay) = replay[1] /\ DOMAIN replay = 1..Len(replay)
      BY <2>1
    <2>3. Head(replay) = cursor + 1 /\ cursor + 1 \in Stream!Events
      BY <2>1, <2>2 DEF StreamShape
    <2>4. /\ Len(replay') = Len(replay) - 1 /\ replay' \in Seq(Stream!Events)
          /\ \A i \in DOMAIN replay' : replay'[i] = replay[i + 1] /\ i + 1 \in DOMAIN replay
                                       /\ i \in Nat
      BY <2>1, <2>2
    <2>5. cursor' = cursor + 1
      BY <2>3 DEF Stream!Yield
    <2>6. \A i \in DOMAIN replay' : replay'[i] = cursor' + i
      BY <2>1, <2>4, <2>5 DEF StreamShape
    <2> QED BY <2>2, <2>3, <2>4, <2>5, <2>6
  <1>2. Stream!TypeOK'
    <2>1. cursor' \in 0..MaxEvents
      BY <1>1 DEF Stream!Events
    <2>2. yielded' \in Seq(Stream!Events)
      BY <1>1 DEF Stream!Yield, Stream!TypeOK
    <2> QED BY <1>1, <2>1, <2>2 DEF Stream!TypeOK
  <1>3. StreamShape'
    BY <1>1 DEF StreamShape, Following, Stream!TypeOK
  <1>4. ReceivedInOrder'
    BY <1>1, ReceivedKeepsOrder DEF Stream!TypeOK, Stream!Events
  <1>5. NoneIsMissing'
    BY <1>1 DEF NoneIsMissing, Following, InReplay, Stream!TypeOK
  <1>6. QueueInOrder'
    <2> SUFFICES ASSUME Following, NEW i \in DOMAIN queue, NEW d \in 1..length,
                        cursor' < d, d < queue[i], d \notin deferred
                 PROVE  InReplay(d)' \/ \E j \in 1..(i - 1) : queue[j] = d
      BY DEF QueueInOrder, Following
    <2>1. cursor \in Nat /\ queue[i] \in Nat
      BY DEF Stream!TypeOK, Stream!Events
    <2>2. cursor < d /\ d \in Nat
      BY <1>1, <2>1
    <2>3. InReplay(d) \/ \E j \in 1..(i - 1) : queue[j] = d
      BY <2>2 DEF QueueInOrder
    <2> QED BY <1>1, <2>1, <2>3 DEF InReplay
  <1> QED BY <1>2, <1>3, <1>4, <1>5, <1>6

\* What is between the cursor and the first event of the subscription is ending events.
LEMMA TakeKeeps ==
    ASSUME StreamInv, Stream!Take
    PROVE  StreamInv'
  <1> USE StreamLimits DEF StreamInv, Stream!Take, Stream!logVars
  <1> DEFINE h == Head(queue)
  <1>1. /\ queue \in Seq(Stream!Events) /\ queue # <<>>
        /\ h = queue[1] /\ 1 \in DOMAIN queue /\ h \in Stream!Events
        /\ Len(queue) \in Nat \ {0} /\ DOMAIN queue = 1..Len(queue)
        /\ queue' \in Seq(Stream!Events) /\ DOMAIN queue' = 1..(Len(queue) - 1)
        /\ \A i \in DOMAIN queue' : queue'[i] = queue[i + 1]
    <2>1. queue \in Seq(Stream!Events) /\ queue # <<>> /\ queue' = Tail(queue)
      BY DEF Stream!TypeOK
    <2> QED BY <2>1
  <1>2. /\ h \in Nat /\ h <= length /\ cursor \in Nat /\ length \in Nat
        /\ \A i \in DOMAIN queue : queue[i] \in Nat
    <2>1. \A i \in DOMAIN queue : queue[i] \in Nat
      BY <1>1 DEF Stream!Events
    <2>2. h <= length
      BY <1>1 DEF StreamShape
    <2>3. cursor \in Nat /\ length \in Nat
      BY DEF Stream!TypeOK
    <2> QED BY <1>1, <2>1, <2>2, <2>3
  <1>3. Following /\ Len(replay) = 0 /\ Following'
    BY DEF Following, StreamShape, Stream!TypeOK
  <1>4. \/ cursor' = cursor /\ yielded' = yielded /\ h <= cursor
        \/ cursor < h /\ cursor' = h /\ Stream!Yield(h)
    BY <1>2 DEF Stream!Known, Stream!Yield
  <1>5. cursor <= cursor' /\ h <= cursor' /\ cursor' <= length /\ cursor' \in Nat
    BY <1>2, <1>3, <1>4 DEF StreamShape
  <1>6. Stream!TypeOK'
    <2>1. cursor' \in 0..MaxEvents
      BY <1>5 DEF Stream!TypeOK
    <2>2. yielded' \in Seq(Stream!Events)
      <3>1. yielded \in Seq(Stream!Events)
        BY DEF Stream!TypeOK
      <3>2. CASE Stream!Yield(h)
        BY <1>1, <3>1, <3>2 DEF Stream!Yield
      <3> QED BY <1>4, <3>1, <3>2
    <2> QED BY <1>1, <2>1, <2>2 DEF Stream!TypeOK
  <1>7. StreamShape'
    <2>1. \A i \in DOMAIN queue' : queue'[i] <= length
      BY <1>1 DEF StreamShape
    <2> QED BY <1>3, <1>5, <2>1 DEF StreamShape, Following
  <1>8. ReceivedInOrder'
    <2>1. CASE cursor' = cursor /\ yielded' = yielded
      BY <2>1 DEF ReceivedInOrder
    <2>2. CASE cursor < h /\ Stream!Yield(h)
      <3>1. \A d \in (cursor + 1)..(h - 1) : d \in deferred
        BY <1>1, <1>2, <1>3 DEF QueueInOrder, InReplay
      <3> QED BY <2>2, <3>1, <1>1, ReceivedKeepsOrder
    <2> QED BY <1>4, <2>1, <2>2
  <1>9. NoneIsMissing'
    <2> SUFFICES ASSUME NEW d \in 1..length, cursor' < d, d \notin deferred, d # unannounced
                 PROVE  \E j \in DOMAIN queue' : queue'[j] = d
      BY DEF NoneIsMissing
    <2>1. cursor < d /\ h < d /\ d \in Nat
      BY <1>2, <1>5
    <2>2. PICK j \in DOMAIN queue : queue[j] = d
      BY <1>2, <1>3, <2>1 DEF NoneIsMissing, InReplay
    <2> HIDE DEF StreamInv, Stream!Take
    <2>3. j - 1 \in DOMAIN queue' /\ queue'[j - 1] = d
      BY <1>1, <2>1, <2>2
    <2> QED BY <2>3
  <1>10. QueueInOrder'
    <2> SUFFICES ASSUME NEW i \in DOMAIN queue', NEW d \in 1..length, cursor' < d,
                        d < queue'[i], d \notin deferred
                 PROVE  \E j \in 1..(i - 1) : queue'[j] = d
      BY DEF QueueInOrder
    <2>1. i + 1 \in DOMAIN queue /\ queue[i + 1] = queue'[i] /\ i \in Nat
      BY <1>1
    <2>2. cursor < d /\ h < d /\ d \in Nat
      BY <1>2, <1>5
    <2>3. PICK j \in 1..((i + 1) - 1) : queue[j] = d
      BY <1>2, <1>3, <2>1, <2>2 DEF QueueInOrder, InReplay
    <2> HIDE DEF StreamInv, Stream!Take
    <2>4. j - 1 \in 1..(i - 1) /\ queue'[j - 1] = d
      BY <1>1, <2>1, <2>2, <2>3
    <2> QED BY <2>4
  <1> QED BY <1>6, <1>7, <1>8, <1>9, <1>10

LEMMA StreamKeeps ==
    ASSUME StreamInv, [Stream!Next]_(Stream!vars)
    PROVE  StreamInv'
  <1>1. CASE UNCHANGED Stream!vars
    BY <1>1
    DEF Stream!vars, Stream!logVars, Stream!streamVars, StreamInv, Stream!TypeOK, StreamShape,
        ReceivedInOrder, NoneIsMissing, QueueInOrder, Following, InReplay
  <1> QED BY <1>1, LogKeeps, PlacesKeep, YieldListedKeeps, TakeKeeps DEF Stream!Next

LEMMA StreamRuns == ExchangesSpec => []StreamInv
  <1>1. ExchangesInit => StreamInv
    BY StreamInit DEF ExchangesInit
  <1>2. StreamInv /\ [ExchangesNext]_allVars => StreamInv'
    BY StepOfEachPart, StreamKeeps
  <1> QED BY <1>1, <1>2, PTL DEF ExchangesSpec

\* A client misses no event and receives none twice, for any events and connections
\* (api/app.py, run_stream; store/event_store.py, append and subscribe).
THEOREM StreamIsComplete == ExchangesSpec => []StreamFollowsLog
  <1>1. StreamInv => StreamFollowsLog
    BY DEF StreamInv, ReceivedInOrder, StreamFollowsLog, Stream!StreamFollowsLog
  <1> QED BY <1>1, StreamRuns, PTL

-----------------------------------------------------------------------------
(* Approvals                                                               *)

AskedCount(t) == Cardinality(Asks!Asked(t))

\* The approvals of a task are asked for one after the other, and a session that is
\* in a call has asked.
AskedInOrder ==
    \A t \in Askers :
      /\ IsFiniteSet(Asks!Asked(t))
      /\ \A n \in 1..MaxRequests : approval[<<t, n>>] # "absent" <=> n <= AskedCount(t)
      /\ Asks!InCall(t) => AskedCount(t) \in 1..MaxRequests

\* No session is in a call for the approval, and none will be.
OutOfCall(a) == ~(Asks!InCall(a[1]) /\ Asks!Latest(a[1]) = a)

\* A handler has an approval that was asked for; what it lets expire was told to no
\* session, and what it has written is a decision to every session that waits for it.
HandlerInv(c) ==
    LET a == resolver[c].of IN
    /\ resolver[c].at \in {"read", "written"} =>
         a \in Asks!Approvals /\ approval[a] # "absent" /\ resolver[c].decision # "none"
    /\ resolver[c].at = "read" /\ resolver[c].decision = "expired" =>
         answers[a] = "none" /\ OutOfCall(a)
    /\ resolver[c].at = "written" => approval[a] \in Asks!Decisions \/ OutOfCall(a)

AskersPaused == \E t \in Askers : task[t] = "approval_required"

\* Sessions belong to the scheduler that runs; how far an execution is shows in the
\* status of the run; and a pause has a task that asked for it.
ExecutionInv ==
    /\ \A t \in Askers : session[t] # "none" => task[t] = "running" /\ exec = "scheduling"
    /\ exec \in {"queued", "preparing"} => run = "queued"
    /\ exec \in {"scheduling", "pausing", "ending"} => run = "running"
    /\ exec = "preparing" => ~pause
    /\ pause /\ exec = "scheduling" => AskersPaused
    /\ exec = "pausing" => AskersPaused
    /\ exec \in {"none", "closing"} /\ Asks!Paused => AskersPaused

AskInv ==
    /\ Asks!TypeOK /\ AskedInOrder /\ (\A c \in Resolvers : HandlerInv(c))
    /\ Asks!AnswersAreDecisions /\ ExecutionInv

LEMMA SameCardinality ==
    ASSUME NEW S PROVE Asks!Cardinality(S) = Cardinality(S)
  BY DEF Asks!Cardinality, Cardinality

LEMMA AskLimits == MaxRequests \in Nat /\ MaxCrashes \in Nat /\ MaxRefusals \in Nat
  BY PartsAssumption

LEMMA AskInit == Asks!Init => AskInv
  <1> SUFFICES ASSUME Asks!Init PROVE AskInv
    OBVIOUS
  <1> USE DEF Asks!Init
  <1>1. Asks!TypeOK
    <2>1. Asks!Idle \in [at : {"idle", "read", "written", "status", "resume"},
                          of : Asks!Approvals \cup {None},
                          decision : Asks!Decisions \cup {"expired", "none"}]
      BY DEF Asks!Idle
    <2>2. /\ crashes \in 0..MaxCrashes /\ refusals \in 0..MaxRefusals
          /\ run \in Asks!Resumable \cup {"queued", "running", "completed"}
      BY AskLimits
    <2> HIDE DEF Asks!Idle
    <2> QED BY <2>1, <2>2 DEF Asks!TypeOK
  <1>2. \A t \in Askers : Asks!Asked(t) = {} /\ AskedCount(t) = 0
    BY FS_EmptySet DEF Asks!Asked, AskedCount
  <1>3. AskedInOrder
    <2> SUFFICES ASSUME NEW t \in Askers
                 PROVE  /\ IsFiniteSet(Asks!Asked(t)) /\ ~Asks!InCall(t)
                        /\ \A n \in 1..MaxRequests : approval[<<t, n>>] # "absent"
                                                       <=> n <= AskedCount(t)
      BY DEF AskedInOrder
    <2>1. IsFiniteSet(Asks!Asked(t))
      BY <1>2, FS_EmptySet
    <2>2. \A n \in 1..MaxRequests : <<t, n>> \in Asks!Approvals
      BY DEF Asks!Approvals
    <2> QED BY <1>2, <2>1, <2>2, AskLimits DEF Asks!InCall
  <1>4. \A c \in Resolvers : HandlerInv(c)
    BY DEF HandlerInv, Asks!Idle
  <1>5. Asks!AnswersAreDecisions
    BY DEF Asks!AnswersAreDecisions
  <1>6. ExecutionInv
    BY DEF ExecutionInv, Asks!Paused
  <1> QED BY <1>1, <1>3, <1>4, <1>5, <1>6 DEF AskInv

\* While no approval is inserted the tasks have asked for the same approvals.
LEMMA SameAsked ==
    ASSUME AskInv, \A a \in Asks!Approvals : approval'[a] # "absent" <=> approval[a] # "absent"
    PROVE  \A t \in Askers : /\ Asks!Asked(t)' = Asks!Asked(t)
                             /\ AskedCount(t)' = AskedCount(t)
                             /\ Asks!Latest(t)' = Asks!Latest(t)
  BY DEF Asks!Asked, AskedCount, Asks!Latest

\* A request asks for the next approval of its task.
LEMMA RequestAsksNext ==
    ASSUME AskInv, NEW t \in Askers, Asks!Request(t)
    PROVE  LET a == <<t, AskedCount(t) + 1>> IN
           /\ a \in Asks!Approvals /\ approval[a] = "absent" /\ AskedCount(t) \in Nat
           /\ approval' = [approval EXCEPT ![a] = "pending"]
           /\ Asks!Asked(t)' = Asks!Asked(t) \cup {a}
           /\ IsFiniteSet(Asks!Asked(t))' /\ AskedCount(t)' = AskedCount(t) + 1
           /\ Asks!Latest(t)' = a
           /\ \A u \in Askers \ {t} : Asks!Asked(u)' = Asks!Asked(u)
  <1> DEFINE a == <<t, AskedCount(t) + 1>>
  <1>1. IsFiniteSet(Asks!Asked(t)) /\ AskedCount(t) \in Nat
    BY FS_CardinalityType DEF AskInv, AskedInOrder, AskedCount
  <1>2. a \in Asks!Approvals /\ AskedCount(t) + 1 \in 1..MaxRequests
    BY <1>1, AskLimits, SameCardinality DEF Asks!Request, Asks!Approvals, AskedCount
  <1>3. approval[a] = "absent"
    BY <1>1, <1>2 DEF AskInv, AskedInOrder
  <1>4. approval' = [approval EXCEPT ![a] = "pending"]
    BY SameCardinality DEF Asks!Request, AskedCount
  <1>5. /\ approval'[a] = "pending"
        /\ \A b \in Asks!Approvals : b # a => approval'[b] = approval[b]
    BY <1>2, <1>4 DEF AskInv, Asks!TypeOK
  <1>6. Asks!Asked(t)' = Asks!Asked(t) \cup {a}
    <2>1. a[1] = t
      OBVIOUS
    <2> HIDE DEF a
    <2> QED BY <1>2, <1>5, <2>1 DEF Asks!Asked
  <1>7. IsFiniteSet(Asks!Asked(t))' /\ AskedCount(t)' = AskedCount(t) + 1
    <2>1. a \notin Asks!Asked(t)
      BY <1>3 DEF Asks!Asked
    <2> HIDE DEF a
    <2>2. /\ IsFiniteSet(Asks!Asked(t) \cup {a})
          /\ Cardinality(Asks!Asked(t) \cup {a}) = AskedCount(t) + 1
      BY <1>1, <2>1, FS_AddElement DEF AskedCount
    <2> QED BY <1>6, <2>2 DEF AskedCount
  <1>8. Asks!Latest(t)' = a
    BY <1>7, SameCardinality DEF Asks!Latest, AskedCount
  <1>9. \A u \in Askers \ {t} : Asks!Asked(u)' = Asks!Asked(u)
    <2>1. a[1] = t
      OBVIOUS
    <2> HIDE DEF a
    <2> QED BY <1>5, <2>1 DEF Asks!Asked
  <1> QED BY <1>1, <1>2, <1>3, <1>4, <1>6, <1>7, <1>8, <1>9

\* The steps that change neither approvals nor sessions nor handlers.
OnlyExecution ==
    \/ Asks!ExecutionStep \/ Asks!CancelPaused \/ Asks!Completed

LEMMA SessionTypes ==
    ASSUME AskInv, NEW t \in Askers, Asks!SessionStep(t)
    PROVE  Asks!TypeOK'
  <1> USE DEF AskInv, Asks!TypeOK
  <1>1. CASE Asks!Request(t)
    BY <1>1, RequestAsksNext DEF Asks!Request
  <1>2. CASE Asks!Answer(t)
    <2>1. answers' \in [Asks!Approvals -> Asks!Decisions \cup {"none"}]
      BY <1>2 DEF Asks!Answer, Asks!Answered, Asks!Decisions
    <2> QED BY <1>2, <2>1 DEF Asks!Answer
  <1>3. CASE Asks!StartTask(t) \/ Asks!Register(t) \/ Asks!TimeOut(t)
    BY <1>3 DEF Asks!StartTask, Asks!Register, Asks!TimeOut
  <1>4. CASE Asks!Finish(t) \/ Asks!PauseTask(t)
    BY <1>4 DEF Asks!Finish, Asks!PauseTask
  <1> QED BY <1>1, <1>2, <1>3, <1>4 DEF Asks!SessionStep

LEMMA ExecutionTypes ==
    ASSUME AskInv, OnlyExecution \/ Asks!Stop \/ Asks!Crash
    PROVE  Asks!TypeOK'
  <1> USE DEF AskInv, Asks!TypeOK, Asks!Resumable
  <1>1. CASE Asks!IdleReturn \/ Asks!StorePaused \/ Asks!StoreEnded \/ Asks!Close \/ Asks!Begin
    BY <1>1 DEF Asks!IdleReturn, Asks!StorePaused, Asks!StoreEnded, Asks!Close, Asks!Begin
  <1>2. CASE Asks!PrepareResume
    BY <1>2 DEF Asks!PrepareResume
  <1>3. CASE Asks!PrepareRefused
    BY <1>3 DEF Asks!PrepareRefused
  <1>4. CASE Asks!CancelPaused \/ Asks!Completed
    BY <1>4 DEF Asks!CancelPaused, Asks!Completed, Asks!vars
  <1>5. CASE Asks!Stop
    BY <1>5 DEF Asks!Stop, Asks!Abandoned
  <1>6. CASE Asks!Crash
    <2>1. Asks!Idle \in [at : {"idle", "read", "written", "status", "resume"},
                          of : Asks!Approvals \cup {None},
                          decision : Asks!Decisions \cup {"expired", "none"}]
      BY DEF Asks!Idle
    <2>2. crashes' \in 0..MaxCrashes
      BY <1>6, AskLimits DEF Asks!Crash
    <2> QED BY <1>6, <2>1, <2>2 DEF Asks!Crash
  <1> QED BY <1>1, <1>2, <1>3, <1>4, <1>5, <1>6 DEF OnlyExecution, Asks!ExecutionStep

LEMMA HandlerTypes ==
    ASSUME AskInv, NEW c \in Resolvers, Asks!UserRequest(c) \/ Asks!ResolverStep(c)
    PROVE  Asks!TypeOK'
  <1> DEFINE Handlers == [at : {"idle", "read", "written", "status", "resume"},
                          of : Asks!Approvals \cup {None},
                          decision : Asks!Decisions \cup {"expired", "none"}]
  <1> USE DEF AskInv, Asks!TypeOK
  <1>1. /\ Asks!Idle \in Handlers /\ [Asks!Idle EXCEPT !.at = "resume"] \in Handlers
        /\ resolver[c] \in Handlers /\ resolver \in [Resolvers -> Handlers]
    BY DEF Asks!Idle
  <1>2. ASSUME NEW a \in Asks!Approvals, Asks!ReadApproval(c, a) PROVE Asks!TypeOK'
    <2>1. resolver' \in [Resolvers -> Handlers]
      BY <1>1, <1>2 DEF Asks!ReadApproval
    <2> QED BY <1>2, <2>1 DEF Asks!ReadApproval
  <1>3. CASE Asks!WriteDecision(c)
    <2>1. [resolver[c] EXCEPT !.at = "written"] \in Handlers
      BY <1>1
    <2>2. resolver' \in [Resolvers -> Handlers]
      BY <1>1, <1>3, <2>1 DEF Asks!WriteDecision
    <2>3. resolver[c].decision \in Asks!Decisions \cup {"expired"}
      BY <1>1, <1>3 DEF Asks!WriteDecision, HandlerInv
    <2>4. approval' \in [Asks!Approvals -> Asks!Decisions \cup {"absent", "pending", "expired"}]
      BY <1>3, <2>3 DEF Asks!WriteDecision
    <2> QED BY <1>3, <2>2, <2>4 DEF Asks!WriteDecision
  <1>4. CASE Asks!Notify(c)
    <2>1. [resolver[c] EXCEPT !.at = "status"] \in Handlers
      BY <1>1
    <2>2. resolver' \in [Resolvers -> Handlers]
      BY <1>1, <1>4, <2>1 DEF Asks!Notify
    <2>3. session' \in
            [Askers -> {"none", "working", "requested", "waiting", "woken", "pending"}]
      BY <1>4 DEF Asks!Notify
    <2> QED BY <1>4, <2>2, <2>3 DEF Asks!Notify
  <1>5. CASE Asks!ReadRunStatus(c) \/ Asks!AskResume(c)
    <2>1. resolver' \in [Resolvers -> Handlers]
      BY <1>1, <1>5 DEF Asks!ReadRunStatus, Asks!AskResume
    <2> QED BY <1>5, <2>1 DEF Asks!ReadRunStatus, Asks!AskResume
  <1>6. CASE Asks!Resume(c)
    <2>1. resolver' \in [Resolvers -> Handlers]
      BY <1>1, <1>6 DEF Asks!Resume
    <2>2. /\ run' \in Asks!Resumable \cup {"queued", "running", "completed"}
          /\ exec' \in {"none", "queued", "preparing", "scheduling", "pausing", "ending", "closing"}
      BY <1>6 DEF Asks!Resume
    <2> QED BY <1>6, <2>1, <2>2 DEF Asks!Resume
  <1>7. CASE Asks!Refused(c)
    <2>1. resolver' \in [Resolvers -> Handlers]
      BY <1>1, <1>7 DEF Asks!Refused
    <2>2. refusals' \in 0..MaxRefusals
      BY <1>7, AskLimits DEF Asks!Refused
    <2> QED BY <1>7, <2>1, <2>2 DEF Asks!Refused
  <1> QED BY <1>2, <1>3, <1>4, <1>5, <1>6, <1>7 DEF Asks!UserRequest, Asks!ResolverStep

LEMMA AskTypes ==
    ASSUME AskInv, Asks!Next
    PROVE  Asks!TypeOK'
  BY SessionTypes, ExecutionTypes, HandlerTypes DEF Asks!Next, OnlyExecution

\* The statuses of a run, its execution and its sessions go together.
LEMMA ExecutionKept ==
    ASSUME AskInv, Asks!Next
    PROVE  ExecutionInv'
  <1> USE DEF AskInv, ExecutionInv, AskersPaused, Asks!Paused
  <1>1. ASSUME NEW t \in Askers, Asks!SessionStep(t) PROVE ExecutionInv'
    <2>1. CASE Asks!Request(t) \/ Asks!Register(t) \/ Asks!TimeOut(t) \/ Asks!Answer(t)
      BY <2>1 DEF Asks!Request, Asks!Register, Asks!TimeOut, Asks!Answer, Asks!TypeOK
    <2>2. CASE Asks!StartTask(t)
      BY <2>2 DEF Asks!StartTask, Asks!TypeOK
    <2>3. CASE Asks!Finish(t)
      BY <2>3 DEF Asks!Finish, Asks!TypeOK
    <2>4. CASE Asks!PauseTask(t)
      BY <2>4 DEF Asks!PauseTask, Asks!TypeOK
    <2> QED BY <1>1, <2>1, <2>2, <2>3, <2>4 DEF Asks!SessionStep
  <1>2. CASE Asks!IdleReturn \/ Asks!StorePaused \/ Asks!StoreEnded \/ Asks!Close \/ Asks!Begin
    BY <1>2
    DEF Asks!IdleReturn, Asks!StorePaused, Asks!StoreEnded, Asks!Close, Asks!Begin,
        Asks!NothingRuns
  <1>3. CASE Asks!PrepareResume
    BY <1>3 DEF Asks!PrepareResume
  <1>4. CASE Asks!PrepareRefused
    BY <1>4 DEF Asks!PrepareRefused
  <1>5. CASE Asks!Stop
    BY <1>5 DEF Asks!Stop, Asks!Abandoned
  <1>6. CASE Asks!Crash
    BY <1>6 DEF Asks!Crash, Asks!TypeOK
  <1>7. CASE Asks!CancelPaused \/ Asks!Completed
    BY <1>7 DEF Asks!CancelPaused, Asks!Completed, Asks!vars
  <1>8. ASSUME NEW c \in Resolvers, Asks!UserRequest(c) \/ Asks!WriteDecision(c)
                                    \/ Asks!ReadRunStatus(c) \/ Asks!Refused(c)
        PROVE  ExecutionInv'
    BY <1>8 DEF Asks!UserRequest, Asks!ReadApproval, Asks!AskResume, Asks!WriteDecision,
       Asks!ReadRunStatus, Asks!Refused
  <1>9. ASSUME NEW c \in Resolvers, Asks!Notify(c) PROVE ExecutionInv'
    <2>1. \A t \in Askers : session'[t] # "none" => session[t] # "none"
      BY <1>9 DEF Asks!Notify, Asks!WaitsFor, Asks!TypeOK
    <2> QED BY <1>9, <2>1 DEF Asks!Notify
  <1>10. ASSUME NEW c \in Resolvers, Asks!Resume(c) PROVE ExecutionInv'
    BY <1>10 DEF Asks!Resume
  <1> QED
    BY <1>1, <1>2, <1>3, <1>4, <1>5, <1>6, <1>7, <1>8, <1>9, <1>10
    DEF Asks!Next, Asks!ExecutionStep, Asks!ResolverStep

\* A step but a request leaves asked what was asked and nothing else.
LEMMA AskedStays ==
    ASSUME AskInv, Asks!Next, \A t \in Askers : ~Asks!Request(t)
    PROVE  \A a \in Asks!Approvals : approval'[a] # "absent" <=> approval[a] # "absent"
  <1>1. ASSUME NEW c \in Resolvers, Asks!WriteDecision(c)
        PROVE  \A a \in Asks!Approvals : approval'[a] # "absent" <=> approval[a] # "absent"
    <2>1. resolver[c].decision # "absent"
      BY <1>1 DEF AskInv, HandlerInv, Asks!WriteDecision, Asks!TypeOK, Asks!Decisions
    <2> QED BY <1>1, <2>1 DEF AskInv, HandlerInv, Asks!WriteDecision, Asks!TypeOK
  <1>2. CASE UNCHANGED approval
    BY <1>2
  <1> QED
    BY <1>1, <1>2
    DEF Asks!Next, Asks!SessionStep, Asks!StartTask, Asks!Register, Asks!TimeOut, Asks!Answer,
        Asks!Finish, Asks!PauseTask, Asks!ExecutionStep, Asks!IdleReturn, Asks!StorePaused,
        Asks!StoreEnded, Asks!Close, Asks!Begin, Asks!PrepareResume, Asks!PrepareRefused,
        Asks!Stop, Asks!CancelPaused, Asks!Crash, Asks!Completed, Asks!vars, Asks!UserRequest,
        Asks!AskResume, Asks!ReadApproval, Asks!ResolverStep, Asks!Notify, Asks!ReadRunStatus,
        Asks!Resume, Asks!Refused

\* Only a request puts a session into a call.
LEMMA CallsBegin ==
    ASSUME AskInv, Asks!Next, NEW t \in Askers, Asks!InCall(t)'
    PROVE  Asks!InCall(t) \/ Asks!Request(t)
  <1> USE DEF AskInv, Asks!TypeOK, Asks!InCall
  <1>1. ASSUME NEW u \in Askers, Asks!SessionStep(u)
        PROVE  Asks!InCall(t) \/ Asks!Request(t)
    BY <1>1
    DEF Asks!SessionStep, Asks!StartTask, Asks!Request, Asks!Register, Asks!TimeOut,
        Asks!Answer, Asks!Finish, Asks!PauseTask
  <1>2. ASSUME NEW c \in Resolvers, Asks!Notify(c) PROVE Asks!InCall(t)
    BY <1>2 DEF Asks!Notify, Asks!WaitsFor
  <1>3. CASE UNCHANGED session
    BY <1>3
  <1>4. ~Asks!Stop /\ ~Asks!Crash
    BY DEF Asks!Stop, Asks!Crash
  <1> QED
    BY <1>1, <1>2, <1>3, <1>4
    DEF Asks!Next, Asks!ExecutionStep, Asks!IdleReturn, Asks!StorePaused,
        Asks!StoreEnded, Asks!Close, Asks!Begin, Asks!PrepareResume, Asks!PrepareRefused,
        Asks!CancelPaused, Asks!Completed, Asks!vars, Asks!UserRequest,
        Asks!AskResume, Asks!ReadApproval, Asks!ResolverStep, Asks!WriteDecision,
        Asks!ReadRunStatus, Asks!Resume, Asks!Refused

LEMMA AskedKept ==
    ASSUME AskInv, Asks!Next
    PROVE  AskedInOrder'
  <1> SUFFICES ASSUME NEW t \in Askers
               PROVE  /\ IsFiniteSet(Asks!Asked(t))'
                      /\ \A n \in 1..MaxRequests :
                           approval'[<<t, n>>] # "absent" <=> n <= AskedCount(t)'
                      /\ Asks!InCall(t)' => AskedCount(t)' \in 1..MaxRequests
    BY DEF AskedInOrder
  <1>1. /\ IsFiniteSet(Asks!Asked(t)) /\ AskedCount(t) \in Nat
        /\ \A n \in 1..MaxRequests : approval[<<t, n>>] # "absent" <=> n <= AskedCount(t)
        /\ Asks!InCall(t) => AskedCount(t) \in 1..MaxRequests
    BY FS_CardinalityType DEF AskInv, AskedInOrder, AskedCount
  <1>2. \A n \in 1..MaxRequests : <<t, n>> \in Asks!Approvals
    BY DEF Asks!Approvals
  <1>3. CASE Asks!Request(t)
    <2> DEFINE a == <<t, AskedCount(t) + 1>>
    <2>1. /\ a \in Asks!Approvals /\ approval' = [approval EXCEPT ![a] = "pending"]
          /\ IsFiniteSet(Asks!Asked(t))' /\ AskedCount(t)' = AskedCount(t) + 1
      BY <1>3, RequestAsksNext
    <2>2. AskedCount(t) + 1 \in 1..MaxRequests
      BY <2>1 DEF Asks!Approvals
    <2>3. \A n \in 1..MaxRequests : approval'[<<t, n>>] # "absent" <=> n <= AskedCount(t) + 1
      <3> SUFFICES ASSUME NEW n \in 1..MaxRequests
                   PROVE  approval'[<<t, n>>] # "absent" <=> n <= AskedCount(t) + 1
        OBVIOUS
      <3>1. approval'[<<t, n>>] = IF n = AskedCount(t) + 1 THEN "pending" ELSE approval[<<t, n>>]
        BY <1>2, <2>1 DEF AskInv, Asks!TypeOK
      <3> QED BY <1>1, <3>1
    <2> QED BY <2>1, <2>2, <2>3
  <1>4. ASSUME NEW u \in Askers \ {t}, Asks!Request(u)
        PROVE  /\ Asks!Asked(t)' = Asks!Asked(t) /\ AskedCount(t)' = AskedCount(t)
               /\ \A n \in 1..MaxRequests : approval'[<<t, n>>] = approval[<<t, n>>]
    <2>1. Asks!Asked(t)' = Asks!Asked(t)
      BY <1>4, RequestAsksNext
    <2>2. /\ <<u, AskedCount(u) + 1>> \in Asks!Approvals
          /\ approval' = [approval EXCEPT ![<<u, AskedCount(u) + 1>>] = "pending"]
      BY <1>4, RequestAsksNext
    <2>3. \A n \in 1..MaxRequests : approval'[<<t, n>>] = approval[<<t, n>>]
      BY <1>2, <2>2 DEF AskInv, Asks!TypeOK
    <2> QED BY <2>1, <2>3 DEF AskedCount
  <1>5. CASE \A u \in Askers : ~Asks!Request(u)
    <2>1. \A a \in Asks!Approvals : approval'[a] # "absent" <=> approval[a] # "absent"
      BY <1>5, AskedStays
    <2>2. Asks!Asked(t)' = Asks!Asked(t) /\ AskedCount(t)' = AskedCount(t)
      BY <2>1, SameAsked
    <2>3. \A n \in 1..MaxRequests :
            approval'[<<t, n>>] # "absent" <=> approval[<<t, n>>] # "absent"
      BY <1>2, <2>1
    <2>4. Asks!InCall(t)' => Asks!InCall(t)
      BY <1>5, CallsBegin
    <2> QED BY <1>1, <2>2, <2>3, <2>4
  <1>6. CASE \E u \in Askers \ {t} : Asks!Request(u)
    <2>1. Asks!InCall(t)' => Asks!InCall(t)
      BY <1>6 DEF Asks!Request, Asks!InCall, AskInv, Asks!TypeOK
    <2> QED BY <1>1, <1>4, <1>6, <2>1
  <1> QED BY <1>3, <1>5, <1>6

\* An approval that no session is in a call for stays so: a new call is for another.
LEMMA OutStays ==
    ASSUME AskInv, Asks!Next, NEW a \in Asks!Approvals, approval[a] # "absent", OutOfCall(a)
    PROVE  OutOfCall(a)' /\ approval'[a] # "absent"
  <1> DEFINE t == a[1]
  <1>1. t \in Askers
    BY DEF Asks!Approvals
  <1>2. CASE Asks!Request(t)
    <2>1. Asks!Latest(t)' # a
      BY <1>1, <1>2, RequestAsksNext
    <2>2. approval'[a] # "absent"
      BY <1>1, <1>2, RequestAsksNext DEF AskInv, Asks!TypeOK
    <2> QED BY <2>1, <2>2 DEF OutOfCall
  <1>3. CASE ~Asks!Request(t)
    <2>1. Asks!InCall(t)' => Asks!InCall(t)
      BY <1>1, <1>3, CallsBegin
    <2>2. Asks!Latest(t)' = Asks!Latest(t) /\ approval'[a] # "absent"
      <3>1. CASE \A u \in Askers : ~Asks!Request(u)
        BY <1>1, <3>1, AskedStays, SameAsked
      <3>2. ASSUME NEW u \in Askers \ {t}, Asks!Request(u)
            PROVE  Asks!Latest(t)' = Asks!Latest(t) /\ approval'[a] # "absent"
        <4>1. Asks!Asked(t)' = Asks!Asked(t)
          BY <1>1, <3>2, RequestAsksNext
        <4>2. approval'[a] # "absent"
          BY <3>2, RequestAsksNext DEF AskInv, Asks!TypeOK
        <4> QED BY <4>1, <4>2 DEF Asks!Latest
      <3> QED BY <1>3, <3>1, <3>2
    <2> QED BY <2>1, <2>2 DEF OutOfCall
  <1> QED BY <1>2, <1>3

\* A decision stays one, but for an approval that a handler lets expire.
LEMMA DecisionStays ==
    ASSUME AskInv, Asks!Next, NEW a \in Asks!Approvals, approval[a] \in Asks!Decisions
    PROVE  approval'[a] \in Asks!Decisions \/ (answers[a] = "none" /\ OutOfCall(a))
  <1>1. ASSUME NEW c \in Resolvers, Asks!WriteDecision(c)
        PROVE  approval'[a] \in Asks!Decisions \/ (answers[a] = "none" /\ OutOfCall(a))
    <2>1. CASE resolver[c].of = a
      <3>1. resolver[c].decision \in Asks!Decisions \cup {"expired"}
        BY <1>1 DEF AskInv, HandlerInv, Asks!WriteDecision, Asks!TypeOK
      <3>2. resolver[c].decision = "expired" => answers[a] = "none" /\ OutOfCall(a)
        BY <1>1, <2>1 DEF AskInv, HandlerInv, Asks!WriteDecision
      <3>3. approval'[a] = resolver[c].decision
        BY <1>1, <2>1 DEF AskInv, Asks!WriteDecision, Asks!TypeOK
      <3> QED BY <3>1, <3>2, <3>3
    <2>2. CASE resolver[c].of # a
      BY <1>1, <2>2 DEF AskInv, Asks!WriteDecision, Asks!TypeOK
    <2> QED BY <2>1, <2>2
  <1>2. ASSUME NEW t \in Askers, Asks!Request(t) PROVE approval'[a] = approval[a]
    <2>1. a # <<t, AskedCount(t) + 1>>
      BY <1>2, RequestAsksNext DEF Asks!Decisions
    <2> QED BY <1>2, <2>1, RequestAsksNext DEF AskInv, Asks!TypeOK
  <1>3. CASE UNCHANGED approval
    BY <1>3
  <1> QED
    BY <1>1, <1>2, <1>3
    DEF Asks!Next, Asks!SessionStep, Asks!StartTask, Asks!Register, Asks!TimeOut, Asks!Answer,
        Asks!Finish, Asks!PauseTask, Asks!ExecutionStep, Asks!IdleReturn, Asks!StorePaused,
        Asks!StoreEnded, Asks!Close, Asks!Begin, Asks!PrepareResume, Asks!PrepareRefused,
        Asks!Stop, Asks!CancelPaused, Asks!Crash, Asks!Completed, Asks!vars, Asks!UserRequest,
        Asks!AskResume, Asks!ReadApproval, Asks!ResolverStep, Asks!Notify, Asks!ReadRunStatus,
        Asks!Resume, Asks!Refused

\* Only the session that is woken for an approval is told something about it.
LEMMA ToldInCall ==
    ASSUME AskInv, Asks!Next, NEW a \in Asks!Approvals, answers'[a] # answers[a]
    PROVE  ~OutOfCall(a) /\ approval[a] \in Asks!Decisions /\ approval' = approval
  <1>1. ASSUME NEW t \in Askers, Asks!Answer(t)
        PROVE  ~OutOfCall(a) /\ approval[a] \in Asks!Decisions /\ approval' = approval
    <2>1. a = Asks!Latest(t) /\ session[t] = "woken"
      BY <1>1 DEF AskInv, Asks!TypeOK, Asks!Answer
    <2>2. a[1] = t
      BY <2>1 DEF Asks!Latest
    <2> QED
      BY <1>1, <2>1, <2>2
      DEF OutOfCall, Asks!InCall, AskInv, Asks!AnswersAreDecisions, Asks!Answer
  <1>2. answers' # answers
    OBVIOUS
  <1> QED
    BY <1>1, <1>2
    DEF Asks!Next, Asks!SessionStep, Asks!StartTask, Asks!Request, Asks!Register, Asks!TimeOut,
        Asks!Finish, Asks!PauseTask, Asks!ExecutionStep, Asks!IdleReturn, Asks!StorePaused,
        Asks!StoreEnded, Asks!Close, Asks!Begin, Asks!PrepareResume, Asks!PrepareRefused,
        Asks!Stop, Asks!CancelPaused, Asks!Crash, Asks!Completed, Asks!vars, Asks!UserRequest,
        Asks!AskResume, Asks!ReadApproval, Asks!ResolverStep, Asks!WriteDecision, Asks!Notify,
        Asks!ReadRunStatus, Asks!Resume, Asks!Refused

\* A handler is idle, on its way to resume, or as it was, unless it has just read or
\* written an approval.
LEMMA HandlerMoves ==
    ASSUME AskInv, Asks!Next, NEW c \in Resolvers
    PROVE  \/ resolver'[c] = resolver[c]
           \/ resolver'[c].at \in {"idle", "status", "resume"}
           \/ \E a \in Asks!Approvals : Asks!ReadApproval(c, a)
           \/ Asks!WriteDecision(c)
  <1> USE DEF AskInv, Asks!TypeOK, Asks!Idle
  <1>1. ASSUME NEW d \in Resolvers \ {c}, Asks!UserRequest(d) \/ Asks!ResolverStep(d)
        PROVE  resolver'[c] = resolver[c]
    BY <1>1
    DEF Asks!UserRequest, Asks!AskResume, Asks!ReadApproval, Asks!ResolverStep, Asks!Notify,
        Asks!WriteDecision, Asks!ReadRunStatus, Asks!Resume, Asks!Refused
  <1>2. CASE Asks!AskResume(c) \/ Asks!ReadRunStatus(c) \/ Asks!Resume(c) \/ Asks!Refused(c)
    BY <1>2 DEF Asks!AskResume, Asks!ReadRunStatus, Asks!Resume, Asks!Refused
  <1>3. CASE Asks!Notify(c)
    BY <1>3 DEF Asks!Notify
  <1>4. CASE Asks!Crash
    BY <1>4 DEF Asks!Crash
  <1>5. CASE UNCHANGED resolver
    BY <1>5
  <1> QED
    BY <1>1, <1>2, <1>3, <1>4, <1>5
    DEF Asks!Next, Asks!SessionStep, Asks!StartTask, Asks!Request, Asks!Register, Asks!TimeOut,
        Asks!Answer, Asks!Finish, Asks!PauseTask, Asks!ExecutionStep, Asks!IdleReturn,
        Asks!StorePaused, Asks!StoreEnded, Asks!Close, Asks!Begin, Asks!PrepareResume,
        Asks!PrepareRefused, Asks!Stop, Asks!CancelPaused, Asks!Completed, Asks!vars,
        Asks!UserRequest, Asks!ResolverStep

LEMMA HandlersKept ==
    ASSUME AskInv, Asks!Next, NEW c \in Resolvers
    PROVE  HandlerInv(c)'
  <1> DEFINE of == resolver[c].of
  <1>1. CASE resolver'[c] = resolver[c]
    <2> SUFFICES ASSUME resolver[c].at \in {"read", "written"}
                 PROVE  HandlerInv(c)'
      BY <1>1 DEF HandlerInv
    <2>1. /\ of \in Asks!Approvals /\ approval[of] # "absent"
          /\ resolver[c].decision # "none"
      BY DEF AskInv, HandlerInv
    <2> PICK a \in Asks!Approvals : a = of
      BY <2>1
    <2>2. approval'[a] # "absent"
      <3>1. CASE \A u \in Askers : ~Asks!Request(u)
        BY <2>1, <3>1, AskedStays
      <3>2. ASSUME NEW u \in Askers, Asks!Request(u) PROVE approval'[a] # "absent"
        BY <2>1, <3>2, RequestAsksNext DEF AskInv, Asks!TypeOK
      <3> QED BY <3>1, <3>2
    <2>3. CASE resolver[c].at = "read" /\ resolver[c].decision = "expired"
      <3>1. answers[a] = "none" /\ OutOfCall(a)
        BY <2>3 DEF AskInv, HandlerInv
      <3>2. OutOfCall(a)'
        BY <2>1, <3>1, OutStays
      <3>3. answers'[a] = "none"
        BY <2>1, <3>1, ToldInCall
      <3> QED BY <1>1, <2>1, <2>2, <2>3, <3>2, <3>3 DEF HandlerInv, OutOfCall
    <2>4. CASE resolver[c].at = "read" /\ resolver[c].decision # "expired"
      BY <1>1, <2>1, <2>2, <2>4 DEF HandlerInv
    <2>5. CASE resolver[c].at = "written"
      <3>1. approval[a] \in Asks!Decisions \/ OutOfCall(a)
        BY <2>5 DEF AskInv, HandlerInv
      <3>2. approval'[a] \in Asks!Decisions \/ OutOfCall(a)'
        BY <2>1, <3>1, OutStays, DecisionStays
      <3> QED BY <1>1, <2>1, <2>2, <2>5, <3>2 DEF HandlerInv, OutOfCall
    <2> QED BY <2>3, <2>4, <2>5
  <1>2. CASE resolver'[c].at \in {"idle", "status", "resume"}
    BY <1>2 DEF HandlerInv
  <1>3. ASSUME NEW b \in Asks!Approvals, Asks!ReadApproval(c, b) PROVE HandlerInv(c)'
    <2>1. PICK d \in Asks!Decisions \cup {"expired"} :
            /\ d = "expired" => ~(Asks!InCall(b[1]) /\ Asks!Latest(b[1]) = b)
            /\ resolver' = [resolver EXCEPT ![c] = [at |-> "read", of |-> b, decision |-> d]]
      BY <1>3 DEF Asks!ReadApproval
    <2>2. resolver'[c] = [at |-> "read", of |-> b, decision |-> d]
      BY <2>1 DEF AskInv, Asks!TypeOK
    <2>3. answers[b] = "none" /\ approval[b] = "pending"
      BY <1>3 DEF Asks!ReadApproval, AskInv, Asks!AnswersAreDecisions, Asks!Decisions
    <2>4. d = "expired" => OutOfCall(b)'
      BY <1>3, <2>1 DEF OutOfCall, Asks!ReadApproval, Asks!InCall, Asks!Latest, Asks!Asked
    <2>5. UNCHANGED <<answers, approval>>
      BY <1>3 DEF Asks!ReadApproval
    <2>6. d # "none"
      BY DEF Asks!Decisions
    <2> QED BY <2>2, <2>3, <2>4, <2>5, <2>6 DEF HandlerInv, OutOfCall
  <1>4. CASE Asks!WriteDecision(c)
    <2>1. /\ of \in Asks!Approvals /\ resolver[c].decision # "none" /\ resolver[c].at = "read"
          /\ resolver[c].decision \in Asks!Decisions \cup {"expired"}
      BY <1>4 DEF AskInv, HandlerInv, Asks!WriteDecision, Asks!TypeOK
    <2>2. CASE resolver[c].decision = "expired"
      BY <1>4, <2>2 DEF Asks!WriteDecision, HandlerInv, Asks!Idle, AskInv, Asks!TypeOK
    <2>3. CASE resolver[c].decision # "expired"
      <3>1. resolver'[c] = [resolver[c] EXCEPT !.at = "written"]
        BY <1>4, <2>3 DEF Asks!WriteDecision, AskInv, Asks!TypeOK
      <3>2. /\ resolver'[c].at = "written" /\ resolver'[c].of = of
            /\ resolver'[c].decision = resolver[c].decision
        BY <3>1 DEF AskInv, Asks!TypeOK
      <3>3. approval'[of] = resolver[c].decision
        BY <1>4, <2>1 DEF Asks!WriteDecision, AskInv, Asks!TypeOK
      <3>4. approval'[of] \in Asks!Decisions /\ approval'[of] # "absent"
        BY <2>1, <2>3, <3>3 DEF Asks!Decisions
      <3> QED BY <2>1, <3>2, <3>4 DEF HandlerInv
    <2> QED BY <2>2, <2>3
  <1> QED BY <1>1, <1>2, <1>3, <1>4, HandlerMoves

\* A session is woken by a handler that has written a decision it waits for.
LEMMA Woken ==
    ASSUME AskInv, Asks!Next, NEW t \in Askers, session'[t] = "woken", session[t] # "woken"
    PROVE  approval' = approval /\ approval[Asks!Latest(t)] \in Asks!Decisions
  <1> USE DEF AskInv, Asks!TypeOK
  <1>1. ASSUME NEW u \in Askers, Asks!SessionStep(u) PROVE FALSE
    BY <1>1
    DEF Asks!SessionStep, Asks!StartTask, Asks!Request, Asks!Register, Asks!TimeOut,
        Asks!Answer, Asks!Finish, Asks!PauseTask
  <1>2. ASSUME NEW c \in Resolvers, Asks!Notify(c)
        PROVE  approval' = approval /\ approval[Asks!Latest(t)] \in Asks!Decisions
    <2> DEFINE a == resolver[c].of
    <2>1. Asks!WaitsFor(t, a) /\ a[1] = t /\ resolver[c].at = "written"
      BY <1>2 DEF Asks!Notify, Asks!WaitsFor
    <2>2. ~OutOfCall(a) /\ Asks!Latest(t) = a
      BY <2>1 DEF Asks!WaitsFor, OutOfCall, Asks!InCall
    <2>3. approval[a] \in Asks!Decisions
      BY <2>1, <2>2 DEF HandlerInv
    <2> QED BY <1>2, <2>2, <2>3 DEF Asks!Notify
  <1>3. session' # session /\ ~Asks!Stop /\ ~Asks!Crash
    BY DEF Asks!Stop, Asks!Crash
  <1> QED
    BY <1>1, <1>2, <1>3
    DEF Asks!Next, Asks!ExecutionStep, Asks!IdleReturn, Asks!StorePaused,
        Asks!StoreEnded, Asks!Close, Asks!Begin, Asks!PrepareResume, Asks!PrepareRefused,
        Asks!CancelPaused, Asks!Completed, Asks!vars, Asks!UserRequest,
        Asks!AskResume, Asks!ReadApproval, Asks!ResolverStep, Asks!WriteDecision,
        Asks!ReadRunStatus, Asks!Resume, Asks!Refused

LEMMA LatestIsApproval ==
    ASSUME AskInv, NEW t \in Askers, Asks!InCall(t)
    PROVE  /\ Asks!Latest(t) \in Asks!Approvals /\ Asks!Latest(t)[1] = t
           /\ ~OutOfCall(Asks!Latest(t))
  <1>1. Asks!Latest(t) = <<t, AskedCount(t)>> /\ AskedCount(t) \in 1..MaxRequests
    BY SameCardinality DEF AskInv, AskedInOrder, AskedCount, Asks!Latest
  <1> QED BY <1>1 DEF Asks!Approvals, OutOfCall

LEMMA AnswersKept ==
    ASSUME AskInv, Asks!Next
    PROVE  Asks!AnswersAreDecisions'
  <1>1. ASSUME NEW t \in Askers, session'[t] = "woken"
        PROVE  approval'[Asks!Latest(t)'] \in Asks!Decisions
    <2>1. \A u \in Askers : ~Asks!Request(u) \/ Asks!Latest(t)' = Asks!Latest(t)
      <3> SUFFICES ASSUME NEW u \in Askers, Asks!Request(u)
                   PROVE  Asks!Latest(t)' = Asks!Latest(t)
        OBVIOUS
      <3>1. t # u
        BY <1>1 DEF Asks!Request, AskInv, Asks!TypeOK
      <3> QED BY <3>1, RequestAsksNext DEF Asks!Latest
    <2>2. Asks!Latest(t)' = Asks!Latest(t)
      BY <2>1, AskedStays, SameAsked
    <2>3. CASE session[t] = "woken"
      <3>1. Asks!InCall(t) /\ approval[Asks!Latest(t)] \in Asks!Decisions
        BY <2>3 DEF AskInv, Asks!AnswersAreDecisions, Asks!InCall
      <3> QED BY <2>2, <3>1, LatestIsApproval, DecisionStays
    <2>4. CASE session[t] # "woken"
      BY <1>1, <2>2, <2>4, Woken
    <2> QED BY <2>3, <2>4
  <1>2. ASSUME NEW a \in Asks!Approvals, answers'[a] # "none"
        PROVE  approval'[a] \in Asks!Decisions
    <2>1. CASE answers'[a] = answers[a]
      BY <1>2, <2>1, DecisionStays DEF AskInv, Asks!AnswersAreDecisions
    <2>2. CASE answers'[a] # answers[a]
      BY <2>2, ToldInCall
    <2> QED BY <2>1, <2>2
  <1> QED BY <1>1, <1>2 DEF Asks!AnswersAreDecisions

LEMMA AskKeeps ==
    ASSUME AskInv, [Asks!Next]_(Asks!vars)
    PROVE  AskInv'
  <1>1. CASE Asks!Next
    BY <1>1, AskTypes, AskedKept, HandlersKept, AnswersKept, ExecutionKept DEF AskInv
  <1>2. CASE UNCHANGED Asks!vars
    <2> USE <1>2 DEF Asks!vars, AskInv
    <2>1. Asks!TypeOK' /\ ExecutionInv'
      BY DEF Asks!TypeOK, ExecutionInv, Asks!Paused, AskersPaused
    <2>2. AskedInOrder'
      BY DEF AskedInOrder, Asks!Asked, AskedCount, Asks!InCall
    <2>3. (\A c \in Resolvers : HandlerInv(c))'
      BY DEF HandlerInv, OutOfCall, Asks!InCall, Asks!Latest, Asks!Asked
    <2>4. Asks!AnswersAreDecisions'
      BY DEF Asks!AnswersAreDecisions, Asks!Latest, Asks!Asked
    <2> QED BY <2>1, <2>2, <2>3, <2>4
  <1> QED BY <1>1, <1>2

LEMMA AskRuns == ExchangesSpec => []AskInv
  <1>1. ExchangesInit => AskInv
    BY AskInit DEF ExchangesInit
  <1>2. AskInv /\ [ExchangesNext]_allVars => AskInv'
    BY StepOfEachPart, AskKeeps
  <1> QED BY <1>1, <1>2, PTL DEF ExchangesSpec

\* A session that is woken reads a decision, what it was told stays decided, and a
\* run rests paused only for a task, for any tasks, approvals and handlers
\* (runtime/tools.py, request_approval; orchestrator.py, resolve_approval).
THEOREM ApprovalsStand == ExchangesSpec => []ApprovalsHold
  <1>1. AskInv => ApprovalsHold
    BY DEF AskInv, ExecutionInv, AskersPaused, ApprovalsHold, Asks!PausedForATask
  <1> QED BY <1>1, AskRuns, PTL

\* A task that paused goes on only by being requeued with no approval undecided.
LEMMA PausedTaskGoesOn ==
    ASSUME AskInv, Asks!Next, NEW t \in Askers,
           task[t] = "approval_required", task'[t] # "approval_required"
    PROVE  Asks!Pending(t) = {}
  <1> USE DEF AskInv, Asks!TypeOK
  <1>1. ASSUME NEW u \in Askers, Asks!SessionStep(u) PROVE FALSE
    BY <1>1
    DEF Asks!SessionStep, Asks!StartTask, Asks!Request, Asks!Register, Asks!TimeOut,
        Asks!Answer, Asks!Finish, Asks!PauseTask, ExecutionInv
  <1>2. CASE Asks!PrepareResume
    BY <1>2 DEF Asks!PrepareResume, Asks!Requeued
  <1>3. CASE Asks!PrepareRefused
    <2>1. PICK before \in SUBSET Asks!Requeued :
            task' = [u \in Askers |-> IF u \in before THEN "ready" ELSE task[u]]
      BY <1>3 DEF Asks!PrepareRefused
    <2>2. t \in Asks!Requeued
      BY <2>1
    <2> QED BY <2>2 DEF Asks!Requeued
  <1>4. CASE Asks!Stop
    BY <1>4 DEF Asks!Stop, Asks!Abandoned
  <1>5. task' # task
    OBVIOUS
  <1> QED
    BY <1>1, <1>2, <1>3, <1>4, <1>5
    DEF Asks!Next, Asks!ExecutionStep, Asks!IdleReturn, Asks!StorePaused, Asks!StoreEnded,
        Asks!Close, Asks!Begin, Asks!CancelPaused, Asks!Crash, Asks!Completed, Asks!vars,
        Asks!UserRequest, Asks!AskResume, Asks!ReadApproval, Asks!ResolverStep,
        Asks!WriteDecision, Asks!Notify, Asks!ReadRunStatus, Asks!Resume, Asks!Refused

\* However a run is resumed, a task that paused goes on only when none of its
\* approvals is undecided (orchestrator.py, resolve_approval and _prepare_resume).
THEOREM PausedTasksAwait == ExchangesSpec => PausedTaskAwaitsDecision
  <1>1. AskInv /\ [ExchangesNext]_allVars =>
          [\A t \in Askers : task[t] = "approval_required" /\ task'[t] # "approval_required"
                               => Asks!Pending(t) = {}]_(Asks!vars)
    BY StepOfEachPart, PausedTaskGoesOn
  <1> QED
    BY <1>1, AskRuns, PTL
    DEF ExchangesSpec, PausedTaskAwaitsDecision, Asks!PausedTaskAwaitsDecision

\* The handler that is done has woken a session, left a run that is not at rest and
\* paused, crashed or ended with an error.
LEMMA HandlerLeavesNoPause ==
    ASSUME AskInv, Asks!Next, NEW c \in Resolvers,
           resolver[c].at \in {"written", "status", "resume"}, resolver'[c] = Asks!Idle
    PROVE  \/ session' # session
           \/ ~(exec = "none" /\ Asks!Paused)'
           \/ crashes' # crashes \/ refusals' # refusals
  <1> USE DEF AskInv, Asks!TypeOK
  <1>1. Asks!Idle.at = "idle" /\ [Asks!Idle EXCEPT !.at = "resume"].at = "resume"
    BY DEF Asks!Idle
  <1>2. resolver'[c] # resolver[c]
    BY <1>1
  <1>3. ASSUME NEW d \in Resolvers \ {c}, Asks!UserRequest(d) \/ Asks!ResolverStep(d)
        PROVE  FALSE
    BY <1>2, <1>3
    DEF Asks!UserRequest, Asks!AskResume, Asks!ReadApproval, Asks!ResolverStep, Asks!Notify,
        Asks!WriteDecision, Asks!ReadRunStatus, Asks!Resume, Asks!Refused
  <1>4. CASE Asks!UserRequest(c) \/ Asks!WriteDecision(c)
    BY <1>4 DEF Asks!UserRequest, Asks!AskResume, Asks!ReadApproval, Asks!WriteDecision
  <1>5. CASE Asks!Notify(c)
    <2> DEFINE a == resolver[c].of
    <2>1. CASE Asks!WaitsFor(a[1], a)
      <3>1. a[1] \in Askers
        BY <1>5 DEF HandlerInv, Asks!Approvals, Asks!Notify
      <3>2. session[a[1]] = "waiting" /\ session' = [session EXCEPT ![a[1]] = "woken"]
        BY <1>5, <2>1 DEF Asks!Notify, Asks!WaitsFor
      <3> HIDE DEF a
      <3> QED BY <3>1, <3>2
    <2>2. CASE ~Asks!WaitsFor(a[1], a)
      <3>1. resolver'[c].at = "status"
        BY <1>5, <2>2 DEF Asks!Notify
      <3> QED BY <1>1, <3>1
    <2> QED BY <2>1, <2>2
  <1>6. CASE Asks!ReadRunStatus(c)
    <2>1. CASE Asks!Paused
      <3>1. resolver'[c] = [Asks!Idle EXCEPT !.at = "resume"]
        BY <1>6, <2>1 DEF Asks!ReadRunStatus
      <3> QED BY <1>1, <3>1
    <2>2. CASE ~Asks!Paused
      BY <1>6, <2>2 DEF Asks!ReadRunStatus, Asks!Paused
    <2> QED BY <2>1, <2>2
  <1>7. CASE Asks!Resume(c)
    BY <1>7 DEF Asks!Resume, Asks!Paused
  <1>8. CASE Asks!Crash
    <2>1. crashes \in Nat
      BY AskLimits
    <2> QED BY <1>8, <2>1 DEF Asks!Crash
  <1>9. CASE Asks!Refused(c)
    <2>1. refusals \in Nat
      BY AskLimits
    <2> QED BY <1>9, <2>1 DEF Asks!Refused
  <1> QED
    BY <1>2, <1>3, <1>4, <1>5, <1>6, <1>7, <1>8, <1>9
    DEF Asks!Next, Asks!SessionStep, Asks!StartTask, Asks!Request, Asks!Register, Asks!TimeOut,
        Asks!Answer, Asks!Finish, Asks!PauseTask, Asks!ExecutionStep, Asks!IdleReturn,
        Asks!StorePaused, Asks!StoreEnded, Asks!Close, Asks!Begin, Asks!PrepareResume,
        Asks!PrepareRefused, Asks!Stop, Asks!CancelPaused, Asks!Completed, Asks!vars,
        Asks!ResolverStep

\* A handler that has written a decision does not leave a run behind that is at rest
\* and paused, unless a crash or an error ends it: an event that is not stored, a full
\* queue, a service that shuts down (orchestrator.py, resolve_approval and submit).
THEOREM DecisionsResume == ExchangesSpec => DecisionResumes
  <1>1. AskInv /\ [ExchangesNext]_allVars =>
          [\A c \in Resolvers :
             resolver[c].at \in {"written", "status", "resume"} /\ resolver'[c] = Asks!Idle
                 => \/ session' # session
                    \/ ~(exec = "none" /\ Asks!Paused)'
                    \/ crashes' # crashes \/ refusals' # refusals]_(Asks!vars)
    BY StepOfEachPart, HandlerLeavesNoPause
  <1> QED
    BY <1>1, AskRuns, PTL DEF ExchangesSpec, DecisionResumes, Asks!DecisionResumes

-----------------------------------------------------------------------------
(* Messages                                                                *)

Asking == [state : {"pending", "answered"}, task : Tasks,
           from : Agents \cup {Master}, to : Agents]

\* A question is free or was asked; replies and calls are to questions that were.
QuestionsKnown ==
    /\ question \in [Questions -> {NoQuestion} \cup Asking]
    /\ \A q \in replying : question[q] # NoQuestion
    /\ \A x \in sending : x.by.kind = "reply" => question[x.by.to] # NoQuestion

\* One call of send_message at a time; since it has looked, no question was asked or
\* answered and no round came back.
CallsKnow ==
    /\ \A x, y \in sending : x = y
    /\ \A x \in sending :
         /\ x.by \in Senders /\ x.to \in Agents /\ x.task \in Tasks
         /\ x.purpose \in Purposes
         /\ x.pending = PendingQuestions(x.task)
         /\ x.future \in Nat /\ FutureReserve(x.task) <= x.future
         /\ x.by.kind = "coordination" =>
              phase = "coordination" /\ (reserves => Dispatch(x))

\* With the reservation contract the coordinator comes first and tells every owner
\* once; nothing else is sent until it is done.
CoordinatorFirst ==
    reserves /\ phase = "coordination" =>
      /\ rounds = [t \in Tasks |-> 0] /\ replying = {}
      /\ \A q \in Questions : question[q] = NoQuestion
      /\ \A x \in sending : x.by.kind = "coordination"
      /\ \A t \in Tasks : /\ counted[t] <= 1 /\ told[t] = {} /\ status[t] = "queued"
                          /\ counted[t] = 1 => Owner[t] \in dispatched

\* A call that has looked still finds room for what it saw.
CallsFit ==
    reserves =>
      \A x \in sending :
        x.by.kind # "coordination" =>
          /\ counted[x.task] + x.future + Cardinality(x.pending) <= MaxPeerMessages
          /\ OwnSession(x) /\ x.task \notin resent =>
               counted[x.task] + x.future + Cardinality(x.pending) + Cardinality(Needed(x.task))
                 <= MaxPeerMessages

MessagesInv ==
    /\ TypeOK /\ QuestionsKnown /\ CallsKnow /\ CoordinatorFirst
    /\ ReserveFitsUntilResume /\ HandoffsFit /\ CallsFit

LEMMA MessageLimits ==
    /\ MaxPeerMessages \in Nat /\ MaxRevisionRounds \in Nat
    /\ MaxQuestions \in Nat /\ MaxResumes \in Nat
  BY LimitsAssumption

LEMMA ProductGrows ==
    ASSUME NEW n \in Nat, NEW a \in Nat, NEW b \in Nat
    PROVE  /\ n * a \in Nat
           /\ a <= b => n * a <= n * b
           /\ a < b => n * a + n <= n * b
  OBVIOUS

LEMMA OwnersFinite ==
    ASSUME NEW S \in SUBSET Tasks
    PROVE  OwnersOf(S) \subseteq Agents /\ IsFiniteSet(OwnersOf(S))
  <1>1. OwnersOf(S) \subseteq Agents
    BY PlanAssumption DEF OwnersOf
  <1> QED BY <1>1, PlanAssumption, FS_Subset

LEMMA TargetsFinite ==
    ASSUME NEW t \in Tasks
    PROVE  IsFiniteSet(Targets(t)) /\ Cardinality(Targets(t)) \in Nat
  <1>1. DependsOn[t] \in SUBSET Tasks /\ Dependents(t) \in SUBSET Tasks
    BY PlanAssumption DEF Dependents
  <1>2. Targets(t) \subseteq Agents
    BY <1>1, OwnersFinite DEF Targets
  <1> QED BY <1>2, PlanAssumption, FS_Subset, FS_CardinalityType

LEMMA TasksFinite ==
    ASSUME NEW S \in SUBSET Tasks
    PROVE  IsFiniteSet(S) /\ Cardinality(S) \in Nat
  BY PlanAssumption, FS_Subset, FS_CardinalityType

\* The producers a reviewer judges are owned by others.
LEMMA JudgedAreTold ==
    ASSUME NEW t \in Tasks, IsReviewer(t)
    PROVE  OwnersOf(Producers(t)) \subseteq Targets(t)
  <1>1. Producers(t) \subseteq DependsOn[t] /\ \A d \in Producers(t) : Owner[d] # Owner[t]
    BY DEF Producers, IsReviewer
  <1>2. Targets(t) = OwnersOf(DependsOn[t]) \ {Owner[t]}
    BY DEF Targets
  <1> QED BY <1>1, <1>2 DEF OwnersOf

\* The agents a session still has to tell are among those it owes a handoff.
LEMMA NeededFits ==
    ASSUME NEW t \in Tasks
    PROVE  /\ Needed(t) \subseteq Targets(t) /\ IsFiniteSet(Needed(t))
           /\ Cardinality(Needed(t)) \in Nat
           /\ Cardinality(Needed(t)) <= Cardinality(Targets(t))
  <1>1. OwnersOf(PendingReviews(t)) \subseteq Targets(t)
    BY JudgedAreTold DEF PendingReviews, OwnersOf
  <1>2. Needed(t) \subseteq Targets(t)
    BY <1>1 DEF Needed
  <1> QED BY <1>2, TargetsFinite, FS_Subset, FS_CardinalityType

LEMMA NeededFitsNext ==
    ASSUME NEW t \in Tasks
    PROVE  /\ Needed(t)' \subseteq Targets(t)
           /\ Cardinality(Needed(t)') \in Nat
           /\ Cardinality(Needed(t)') <= Cardinality(Targets(t))
           /\ Cardinality(Needed(t))' = Cardinality(Needed(t)')
  <1>1. OwnersOf(PendingReviews(t)') \subseteq Targets(t)
    BY JudgedAreTold DEF PendingReviews, OwnersOf
  <1>2. Needed(t)' \subseteq Targets(t)
    BY <1>1 DEF Needed, OwnersOf
  <1> QED BY <1>2, TargetsFinite, FS_Subset, FS_CardinalityType

LEMMA RevisionsFinite ==
    ASSUME NEW t \in Tasks
    PROVE  /\ IsFiniteSet(RevisionsLeft(t)) /\ Cardinality(RevisionsLeft(t)) \in Nat
           /\ IsFiniteSet(Producers(t) \X (1..MaxRevisionRounds))
           /\ Cardinality(Producers(t) \X (1..MaxRevisionRounds))
                = Cardinality(Producers(t)) * MaxRevisionRounds
  <1>1. IsFiniteSet(Producers(t))
    BY PlanAssumption, TasksFinite DEF Producers
  <1>2. /\ IsFiniteSet(1..MaxRevisionRounds)
        /\ Cardinality(1..MaxRevisionRounds) = MaxRevisionRounds
    BY MessageLimits, FS_Interval
  <1>3. /\ IsFiniteSet(Producers(t) \X (1..MaxRevisionRounds))
        /\ Cardinality(Producers(t) \X (1..MaxRevisionRounds))
             = Cardinality(Producers(t)) * MaxRevisionRounds
    BY <1>1, <1>2, FS_Product
  <1>4. RevisionsLeft(t) \subseteq Producers(t) \X (1..MaxRevisionRounds)
    BY DEF RevisionsLeft
  <1> QED BY <1>3, <1>4, FS_Subset, FS_CardinalityType

LEMMA PendingFinite ==
    ASSUME NEW t
    PROVE  IsFiniteSet(PendingQuestions(t)) /\ Cardinality(PendingQuestions(t)) \in Nat
  <1>1. IsFiniteSet(Questions)
    BY MessageLimits, FS_Interval DEF Questions
  <1>2. PendingQuestions(t) \subseteq Questions
    BY DEF PendingQuestions
  <1> QED BY <1>1, <1>2, FS_Subset, FS_CardinalityType

RoundsTyped == rounds \in [Tasks -> 0..MaxRevisionRounds]

LEMMA FutureIsNatural ==
    ASSUME NEW t \in Tasks, RoundsTyped
    PROVE  FutureReserve(t) \in Nat /\ RoundsLeft(t) \in Nat
  <1>1. RoundsLeft(t) \in Nat
    BY MessageLimits DEF RoundsLeft, RoundsTyped
  <1> QED BY <1>1, TargetsFinite, RevisionsFinite, ProductGrows DEF FutureReserve

\* The rounds that are used never come back.
LEMMA FutureShrinks ==
    ASSUME NEW t \in Tasks, RoundsTyped, RoundsTyped', \A d \in Tasks : rounds[d] <= rounds'[d]
    PROVE  FutureReserve(t)' \in Nat /\ FutureReserve(t)' <= FutureReserve(t)
  <1>1. RoundsLeft(t) \in Nat /\ RoundsLeft(t)' \in Nat /\ RoundsLeft(t)' <= RoundsLeft(t)
    BY MessageLimits DEF RoundsLeft, RoundsTyped
  <1>2. /\ IsFiniteSet(RevisionsLeft(t)) /\ Cardinality(RevisionsLeft(t)) \in Nat
        /\ Cardinality(RevisionsLeft(t)') \in Nat
        /\ Cardinality(RevisionsLeft(t)') <= Cardinality(RevisionsLeft(t))
    <2>1. RevisionsLeft(t)' \subseteq RevisionsLeft(t)
      <3> SUFFICES ASSUME NEW r \in Producers(t) \X (1..MaxRevisionRounds),
                          r[2] > rounds'[r[1]]
                   PROVE  r[2] > rounds[r[1]]
        BY DEF RevisionsLeft
      <3>1. r[1] \in Tasks /\ r[2] \in Nat
        BY PlanAssumption, MessageLimits DEF Producers
      <3>2. rounds[r[1]] \in Nat /\ rounds'[r[1]] \in Nat /\ rounds[r[1]] <= rounds'[r[1]]
        BY <3>1 DEF RoundsTyped
      <3> QED BY <3>1, <3>2
    <2> QED BY <2>1, RevisionsFinite, FS_Subset, FS_CardinalityType
  <1>3. Cardinality(RevisionsLeft(t))' = Cardinality(RevisionsLeft(t)')
    OBVIOUS
  <1>4. Cardinality(Targets(t)) \in Nat
    BY TargetsFinite
  <1> QED BY <1>1, <1>2, <1>3, <1>4, ProductGrows DEF FutureReserve

\* A revision gives its producer and its reviewer room for the handoffs of one more
\* session each.
LEMMA RevisionMakesRoom ==
    ASSUME NEW t \in Tasks, IsReviewer(t), RoundsTyped, RoundsTyped',
           \A d \in Tasks : rounds[d] <= rounds'[d],
           NEW d \in DependsOn[t], rounds'[d] = rounds[d] + 1
    PROVE  \A u \in {t, d} :
             FutureReserve(u)' + Cardinality(Targets(u)) <= FutureReserve(u)
  <1> USE MessageLimits
  <1>1. d \in Tasks /\ d \in Producers(t) /\ ~IsReviewer(d) /\ Reviewed(d)
    BY PlanAssumption DEF Producers, Reviewed, Dependents
  <1>2. RoundsLeft(d) \in Nat /\ RoundsLeft(d)' \in Nat /\ RoundsLeft(d)' < RoundsLeft(d)
    BY <1>1 DEF RoundsLeft, RoundsTyped
  <1>3. FutureReserve(d)' + Cardinality(Targets(d)) <= FutureReserve(d)
    BY <1>1, <1>2, TargetsFinite, ProductGrows DEF FutureReserve
  <1>4. /\ Cardinality(RevisionsLeft(t)) \in Nat /\ Cardinality(RevisionsLeft(t)') \in Nat
        /\ Cardinality(RevisionsLeft(t)') < Cardinality(RevisionsLeft(t))
    <2> DEFINE r == <<d, rounds[d] + 1>>
    <2>1. r \in RevisionsLeft(t)
      <3>1. rounds[d] + 1 \in 1..MaxRevisionRounds
        BY <1>1 DEF RoundsTyped
      <3> QED BY <1>1, <3>1 DEF RevisionsLeft, RoundsTyped
    <2>2. RevisionsLeft(t)' \subseteq RevisionsLeft(t) \ {r}
      <3> SUFFICES ASSUME NEW p \in Producers(t) \X (1..MaxRevisionRounds),
                          p[2] > rounds'[p[1]]
                   PROVE  p[2] > rounds[p[1]] /\ p # r
        BY DEF RevisionsLeft
      <3>1. p[1] \in Tasks /\ p[2] \in Nat
        BY PlanAssumption DEF Producers
      <3>2. /\ rounds[p[1]] \in Nat /\ rounds'[p[1]] \in Nat
            /\ rounds[p[1]] <= rounds'[p[1]]
        BY <3>1 DEF RoundsTyped
      <3>3. p = r => p[1] = d /\ p[2] = rounds[d] + 1
        OBVIOUS
      <3> QED BY <1>1, <3>1, <3>2, <3>3
    <2>3. IsFiniteSet(RevisionsLeft(t)) /\ Cardinality(RevisionsLeft(t)) \in Nat
      BY RevisionsFinite
    <2> HIDE DEF r
    <2>4. /\ IsFiniteSet(RevisionsLeft(t) \ {r})
          /\ Cardinality(RevisionsLeft(t) \ {r}) = Cardinality(RevisionsLeft(t)) - 1
      BY <2>1, <2>3, FS_RemoveElement
    <2>5. /\ IsFiniteSet(RevisionsLeft(t)')
          /\ Cardinality(RevisionsLeft(t)') <= Cardinality(RevisionsLeft(t) \ {r})
      BY <2>2, <2>4, FS_Subset
    <2>6. Cardinality(RevisionsLeft(t)') \in Nat
      BY <2>5, FS_CardinalityType
    <2> QED BY <2>3, <2>4, <2>5, <2>6
  <1>5. Cardinality(RevisionsLeft(t))' = Cardinality(RevisionsLeft(t)')
    OBVIOUS
  <1>6. FutureReserve(t)' + Cardinality(Targets(t)) <= FutureReserve(t)
    BY <1>4, <1>5, TargetsFinite, ProductGrows DEF FutureReserve
  <1> QED BY <1>3, <1>6

\* While no round is used, what is held for later sessions was budgeted by the plan.
LEMMA BudgetHolds ==
    ASSUME NEW t \in Tasks, rounds = [d \in Tasks |-> 0]
    PROVE  1 + FutureReserve(t) + Cardinality(Targets(t)) <= MaxPeerMessages
  <1> USE MessageLimits
  <1>1. RoundsTyped
    BY DEF RoundsTyped
  <1>2. RevisionsLeft(t) = Producers(t) \X (1..MaxRevisionRounds)
    <2> SUFFICES ASSUME NEW r \in Producers(t) \X (1..MaxRevisionRounds)
                 PROVE  r[2] > rounds[r[1]]
      BY DEF RevisionsLeft
    <2>1. r[1] \in Tasks /\ r[2] \in 1..MaxRevisionRounds
      BY PlanAssumption DEF Producers
    <2> QED BY <2>1
  <1>3. FutureReserve(t) = Cardinality(Targets(t)) * PlannedRounds(t) /\ PlannedRounds(t) \in Nat
    <2>1. CASE IsReviewer(t)
      <3>1. Cardinality(Producers(t)) \in Nat
        BY PlanAssumption, TasksFinite DEF Producers
      <3>2. Cardinality(RevisionsLeft(t)) = PlannedRounds(t)
        BY <1>2, <2>1, <3>1, RevisionsFinite DEF PlannedRounds
      <3>3. PlannedRounds(t) \in Nat
        BY <2>1, <3>1 DEF PlannedRounds
      <3> QED BY <2>1, <3>2, <3>3 DEF FutureReserve
    <2>2. CASE ~IsReviewer(t)
      BY <2>2 DEF FutureReserve, PlannedRounds, RoundsLeft
    <2> QED BY <2>1, <2>2
  <1>4. 1 + Cardinality(Targets(t)) * (1 + PlannedRounds(t)) <= MaxPeerMessages
    BY BudgetAssumption
  <1>5. Cardinality(Targets(t)) \in Nat
    BY TargetsFinite
  <1>6. Cardinality(Targets(t)) * (1 + PlannedRounds(t))
          = Cardinality(Targets(t)) + Cardinality(Targets(t)) * PlannedRounds(t)
    BY <1>3, <1>5
  <1> QED BY <1>1, <1>3, <1>4, <1>5, <1>6, FutureIsNatural

LEMMA MessagesInit == Init => MessagesInv
  <1> SUFFICES ASSUME Init PROVE MessagesInv
    OBVIOUS
  <1> USE MessageLimits DEF Init
  <1>1. \A t \in Tasks : PendingQuestions(t) = {} /\ Cardinality(PendingQuestions(t)) = 0
    BY FS_EmptySet DEF PendingQuestions, NoQuestion
  <1>2. TypeOK
    BY DEF TypeOK, Statuses
  <1>3. QuestionsKnown
    BY DEF QuestionsKnown
  <1>4. CallsKnow /\ CoordinatorFirst /\ CallsFit
    BY DEF CallsKnow, CoordinatorFirst, CallsFit
  <1>5. ASSUME NEW t \in Tasks
        PROVE  /\ FutureReserve(t) \in Nat
               /\ counted[t] + FutureReserve(t) + Cardinality(PendingQuestions(t))
                    + Cardinality(Needed(t)) <= MaxPeerMessages
    <2>1. FutureReserve(t) \in Nat
      BY FutureIsNatural DEF RoundsTyped
    <2> QED BY <1>1, <2>1, BudgetHolds, NeededFits, TargetsFinite
  <1>6. ReserveFitsUntilResume
    BY <1>1, <1>5, NeededFits DEF ReserveFitsUntilResume, ReserveFits
  <1>7. HandoffsFit
    BY <1>5 DEF HandoffsFit
  <1> QED BY <1>2, <1>3, <1>4, <1>6, <1>7 DEF MessagesInv

\* A call looks at what fits at that moment.
LEMMA BeginSendKeeps ==
    ASSUME MessagesInv, NEW by \in Senders, NEW to \in Agents, NEW t \in Tasks,
           NEW purpose \in Purposes, NEW re, BeginSend(by, to, t, purpose, re)
    PROVE  MessagesInv'
  <1>0. PICK x : x = [by |-> by, to |-> to, task |-> t, purpose |-> purpose, re |-> re,
                      future |-> FutureReserve(t), pending |-> PendingQuestions(t)]
    OBVIOUS
  <1>1. /\ sending = {} /\ Live(by) /\ sending' = {x}
        /\ by.kind = "coordination" => Dispatch(x)
        /\ UNCHANGED <<taskVars, runVars, mailVars>>
    BY <1>0 DEF BeginSend, LockFree
  <1>2. /\ x.by = by /\ x.to = to /\ x.task = t /\ x.purpose = purpose
        /\ x.future = FutureReserve(t) /\ x.pending = PendingQuestions(t)
    BY <1>0
  <1>3. RoundsTyped /\ FutureReserve(t) \in Nat
    BY FutureIsNatural DEF MessagesInv, TypeOK, RoundsTyped
  <1> USE <1>1 DEF taskVars, runVars, mailVars
  <1>4. TypeOK'
    BY DEF MessagesInv, TypeOK
  <1>5. \A u \in Tasks : /\ FutureReserve(u)' = FutureReserve(u)
                         /\ PendingQuestions(u)' = PendingQuestions(u)
                         /\ Needed(u)' = Needed(u)
    BY DEF FutureReserve, RevisionsLeft, RoundsLeft, PendingQuestions, Needed, PendingReviews
  <1>6. QuestionsKnown'
    BY <1>2 DEF MessagesInv, QuestionsKnown, Live
  <1>7. CallsKnow'
    <2>1. by.kind = "coordination" => phase = "coordination"
      BY DEF Live
    <2>2. by.kind = "coordination" => Dispatch(x)'
      BY DEF Dispatch
    <2> QED BY <1>2, <1>3, <1>5, <2>1, <2>2 DEF CallsKnow
  <1>8. CoordinatorFirst'
    <2>1. reserves /\ phase = "coordination" => by.kind = "coordination"
      <3>1. by.kind \in {"task", "reply", "coordination"}
        BY DEF Senders
      <3> QED BY <3>1 DEF Live, MessagesInv, CoordinatorFirst
    <2> QED BY <1>2, <2>1 DEF MessagesInv, CoordinatorFirst
  <1>9. ReserveFitsUntilResume' /\ HandoffsFit'
    <2>1. ReserveFitsUntilResume'
      BY <1>5 DEF MessagesInv, ReserveFitsUntilResume, ReserveFits
    <2>2. HandoffsFit'
      BY <1>5 DEF MessagesInv, HandoffsFit
    <2> QED BY <2>1, <2>2
  <1>10. CallsFit'
    <2> SUFFICES ASSUME reserves
                 PROVE  /\ counted[t] + FutureReserve(t) + Cardinality(PendingQuestions(t))
                             <= MaxPeerMessages
                        /\ OwnSession(x) /\ t \notin resent =>
                             counted[t] + FutureReserve(t) + Cardinality(PendingQuestions(t))
                               + Cardinality(Needed(t)) <= MaxPeerMessages
      BY <1>2, <1>5 DEF CallsFit, OwnSession
    <2>1. OwnSession(x) => status[t] = "running"
      BY <1>2 DEF OwnSession, Live
    <2> QED BY <2>1 DEF MessagesInv, ReserveFitsUntilResume, ReserveFits, HandoffsFit
  <1> QED BY <1>4, <1>6, <1>7, <1>8, <1>9, <1>10 DEF MessagesInv

\* What is owed stays the same when neither sessions nor rounds nor questions change.
LEMMA SameOwed ==
    ASSUME UNCHANGED <<rounds, told, reviewed, question>>
    PROVE  \A u \in Tasks : /\ FutureReserve(u)' = FutureReserve(u)
                            /\ PendingQuestions(u)' = PendingQuestions(u)
                            /\ Needed(u)' = Needed(u)
  BY DEF FutureReserve, RevisionsLeft, RoundsLeft, PendingQuestions, Needed, PendingReviews

\* The steps that end a call, the coordinator or a reply session, or resume the run.
LEMMA EndsKeep ==
    ASSUME MessagesInv,
           \/ \E x \in sending : Refuse(x)
           \/ EndCoordination \/ Resume \/ UNCHANGED vars
           \/ \E q \in Questions : EndReply(q)
    PROVE  MessagesInv'
  <1>1. /\ UNCHANGED <<status, rounds, told, reviewed, counted, question, dispatched>>
        /\ resent \subseteq resent' /\ resent' \subseteq Tasks
    BY DEF Refuse, EndCoordination, Resume, EndReply, taskVars, mailVars, vars, MessagesInv, TypeOK
  <1>2. sending' \subseteq sending /\ replying' \subseteq replying
    BY DEF Refuse, EndCoordination, Resume, EndReply, mailVars, vars
  <1>3. \/ phase' = phase /\ reserves' = reserves /\ resumes' = resumes
        \/ sending = {} /\ phase' = "working" /\ reserves' = reserves /\ resumes' = resumes
        \/ phase' = "coordination" /\ phase = "stopped" /\ ~reserves' /\ reserves' = FALSE
             /\ resumes < MaxResumes /\ resumes' = resumes + 1
    BY DEF Refuse, EndCoordination, Resume, EndReply, runVars, vars
  <1> USE <1>1, <1>2
  <1>4. TypeOK'
    <2>1. phase' \in {"coordination", "working", "stopped"} /\ reserves' \in BOOLEAN
      BY <1>3 DEF MessagesInv, TypeOK
    <2>2. resumes' \in 0..MaxResumes
      BY <1>3, MessageLimits DEF MessagesInv, TypeOK
    <2> QED BY <2>1, <2>2 DEF MessagesInv, TypeOK
  <1>5. QuestionsKnown'
    BY DEF MessagesInv, QuestionsKnown
  <1>6. CallsKnow'
    <2>1. ASSUME NEW x \in sending', x.by.kind = "coordination" PROVE phase' = "coordination"
      BY <1>3, <2>1 DEF MessagesInv, CallsKnow
    <2>2. reserves' => reserves
      BY <1>3
    <2> QED BY <2>1, <2>2, SameOwed DEF MessagesInv, CallsKnow, Dispatch
  <1>7. CoordinatorFirst'
    <2>1. reserves' /\ phase' = "coordination" => reserves /\ phase = "coordination"
      BY <1>3
    <2> QED BY <2>1 DEF MessagesInv, CoordinatorFirst
  <1>8. CallsFit'
    BY <1>3, SameOwed DEF MessagesInv, CallsKnow, CallsFit, OwnSession
  <1>9. ReserveFitsUntilResume'
    BY <1>3, SameOwed DEF MessagesInv, ReserveFitsUntilResume, ReserveFits
  <1>10. HandoffsFit'
    BY <1>3, SameOwed DEF MessagesInv, HandoffsFit
  <1> QED BY <1>4, <1>5, <1>6, <1>7, <1>8, <1>9, <1>10 DEF MessagesInv

\* A step of the sessions: a session that goes on owes no more than before, unless it
\* delivers handoffs a second time over or its room comes from a round that is used.
LEMMA SessionStepKeeps ==
    ASSUME MessagesInv, TypeOK',
           UNCHANGED <<reserves, counted, question>>,
           \/ phase = "working" /\ UNCHANGED <<phase, sending, replying>>
           \/ phase' = "stopped" /\ sending' = {} /\ replying' = {},
           \A d \in Tasks : rounds[d] <= rounds'[d],
           \A u \in Tasks :
             status'[u] \in {"queued", "running"} /\ u \notin resent' =>
               \/ /\ status[u] \in {"queued", "running"} /\ u \notin resent
                  /\ Needed(u)' \subseteq Needed(u)
               \/ FutureReserve(u)' + Cardinality(Targets(u)) <= FutureReserve(u),
           \A x \in sending' :
             OwnSession(x) /\ x.task \notin resent' =>
               x.task \notin resent /\ Needed(x.task)' \subseteq Needed(x.task)
    PROVE  MessagesInv'
  <1>1. RoundsTyped /\ RoundsTyped'
    BY DEF MessagesInv, TypeOK, RoundsTyped
  <1>2. ASSUME NEW u \in Tasks
        PROVE  /\ FutureReserve(u) \in Nat /\ FutureReserve(u)' \in Nat
               /\ FutureReserve(u)' <= FutureReserve(u)
               /\ PendingQuestions(u)' = PendingQuestions(u)
               /\ Cardinality(PendingQuestions(u)) \in Nat
               /\ counted[u] \in Nat
    <2>1. PendingQuestions(u)' = PendingQuestions(u)
      BY DEF PendingQuestions
    <2>2. counted[u] \in Nat
      BY MessageLimits DEF MessagesInv, TypeOK
    <2> QED BY <1>1, <2>1, <2>2, FutureIsNatural, FutureShrinks, PendingFinite
  <1>3. ASSUME NEW u \in Tasks, Needed(u)' \subseteq Needed(u)
        PROVE  Cardinality(Needed(u)') <= Cardinality(Needed(u))
    BY <1>3, NeededFits, FS_Subset
  <1>4. sending' \subseteq sending /\ replying' \subseteq replying
    OBVIOUS
  <1>5. QuestionsKnown'
    BY <1>4 DEF MessagesInv, QuestionsKnown
  <1>6. CallsKnow'
    <2>1. \A x \in sending' : x \in sending /\ x.task \in Tasks /\ phase = "working"
      BY <1>4 DEF MessagesInv, CallsKnow
    <2>2. \A x \in sending' : x.by.kind # "coordination"
      BY <2>1 DEF MessagesInv, CallsKnow
    <2>3. \A x \in sending' : x.future \in Nat /\ FutureReserve(x.task)' <= x.future
      BY <1>2, <2>1 DEF MessagesInv, CallsKnow
    <2> QED BY <1>2, <2>1, <2>2, <2>3 DEF MessagesInv, CallsKnow
  <1>7. CoordinatorFirst'
    BY DEF CoordinatorFirst
  <1>8. CallsFit'
    <2> SUFFICES ASSUME reserves, NEW x \in sending', x.by.kind # "coordination"
                 PROVE  /\ counted[x.task] + x.future + Cardinality(x.pending)
                             <= MaxPeerMessages
                        /\ OwnSession(x) /\ x.task \notin resent' =>
                             counted[x.task] + x.future + Cardinality(x.pending)
                               + Cardinality(Needed(x.task)') <= MaxPeerMessages
      BY DEF CallsFit, OwnSession
    <2>1. x \in sending /\ x.task \in Tasks /\ x.future \in Nat
      BY <1>4 DEF MessagesInv, CallsKnow
    <2>2. x.pending = PendingQuestions(x.task)
      BY <2>1 DEF MessagesInv, CallsKnow
    <2>3. counted[x.task] + x.future + Cardinality(x.pending) <= MaxPeerMessages
      BY <2>1 DEF MessagesInv, CallsFit
    <2>4. ASSUME OwnSession(x), x.task \notin resent'
          PROVE  counted[x.task] + x.future + Cardinality(x.pending)
                   + Cardinality(Needed(x.task)') <= MaxPeerMessages
      <3>1. x.task \notin resent /\ Needed(x.task)' \subseteq Needed(x.task)
        BY <2>4
      <3>2. counted[x.task] + x.future + Cardinality(x.pending)
              + Cardinality(Needed(x.task)) <= MaxPeerMessages
        BY <2>1, <2>4, <3>1 DEF MessagesInv, CallsFit
      <3> QED BY <1>2, <1>3, <2>1, <2>2, <3>1, <3>2, NeededFits, NeededFitsNext, MessageLimits
    <2> QED BY <2>3, <2>4
  <1>9. ReserveFitsUntilResume'
    BY <1>2, MessageLimits DEF MessagesInv, ReserveFitsUntilResume, ReserveFits
  <1>10. HandoffsFit'
    <2> SUFFICES ASSUME NEW u \in Tasks, u \notin resent', reserves,
                        status'[u] \in {"queued", "running"}
                 PROVE  counted[u] + FutureReserve(u)' + Cardinality(PendingQuestions(u))
                          + Cardinality(Needed(u)') <= MaxPeerMessages
      BY <1>2, NeededFitsNext DEF HandoffsFit
    <2>1. CASE /\ status[u] \in {"queued", "running"} /\ u \notin resent
               /\ Needed(u)' \subseteq Needed(u)
      <3>1. counted[u] + FutureReserve(u) + Cardinality(PendingQuestions(u))
              + Cardinality(Needed(u)) <= MaxPeerMessages
        BY <2>1 DEF MessagesInv, HandoffsFit
      <3> QED BY <1>2, <1>3, <2>1, <3>1, NeededFits, NeededFitsNext, MessageLimits
    <2>2. CASE FutureReserve(u)' + Cardinality(Targets(u)) <= FutureReserve(u)
      <3>1. counted[u] + FutureReserve(u) + Cardinality(PendingQuestions(u)) <= MaxPeerMessages
        BY DEF MessagesInv, ReserveFitsUntilResume, ReserveFits
      <3> QED BY <1>2, <2>2, <3>1, NeededFitsNext, TargetsFinite, MessageLimits
    <2> QED BY <2>1, <2>2
  <1> QED BY <1>5, <1>6, <1>7, <1>8, <1>9, <1>10 DEF MessagesInv

\* A session that ends has no call under way.
LEMMA CallerIsCalling ==
    ASSUME MessagesInv, NEW t \in Tasks, ~Calling(t), NEW x \in sending, OwnSession(x)
    PROVE  x.task # t
  <1>1. x.by \in Senders /\ x.by.kind = "task" /\ x.by.task = x.task
    BY DEF MessagesInv, CallsKnow, OwnSession
  <1>2. x.by = [kind |-> "task", task |-> x.task]
    BY <1>1 DEF Senders
  <1> QED BY <1>2 DEF Calling

\* What a session owes depends on what it has told and reviewed only.
LEMMA SameNeeded ==
    ASSUME NEW u \in Tasks, told'[u] = told[u], reviewed'[u] = reviewed[u]
    PROVE  Needed(u)' = Needed(u)
  BY DEF Needed, PendingReviews

LEMMA StartKeeps ==
    ASSUME MessagesInv, NEW t \in Tasks, Start(t) \/ Publish(t) \/ Retry(t)
    PROVE  MessagesInv'
  <1> USE DEF Start, Publish, Retry, InSession, runVars, mailVars
  <1>1. TypeOK'
    BY DEF MessagesInv, TypeOK, Statuses
  <1>2. UNCHANGED <<reserves, counted, question, phase, sending, replying, rounds>>
        /\ phase = "working"
    OBVIOUS
  <1>3. \A d \in Tasks : rounds[d] <= rounds'[d]
    BY <1>2, MessageLimits DEF MessagesInv, TypeOK
  <1>4. ASSUME NEW u \in Tasks, u \notin resent'
        PROVE  u \notin resent /\ Needed(u)' \subseteq Needed(u)
    <2>1. u \notin resent /\ told'[u] = told[u] /\ reviewed'[u] = reviewed[u]
      BY <1>4 DEF MessagesInv, TypeOK
    <2> QED BY <2>1, SameNeeded
  <1>5. ASSUME NEW u \in Tasks, status'[u] \in {"queued", "running"}, u \notin resent'
        PROVE  status[u] \in {"queued", "running"}
    BY <1>5 DEF MessagesInv, TypeOK
  <1>6. \A x \in sending : x.task \in Tasks
    BY DEF MessagesInv, CallsKnow
  <1> QED BY <1>1, <1>2, <1>3, <1>4, <1>5, <1>6, SessionStepKeeps

LEMMA SubmitReviewKeeps ==
    ASSUME MessagesInv, NEW t \in Tasks, NEW d \in Tasks, SubmitReview(t, d)
    PROVE  MessagesInv'
  <1> USE DEF SubmitReview, InSession, runVars, mailVars
  <1>1. TypeOK'
    BY DEF MessagesInv, TypeOK
  <1>2. UNCHANGED <<reserves, counted, question, phase, sending, replying, rounds, status>>
        /\ phase = "working"
    OBVIOUS
  <1>3. \A e \in Tasks : rounds[e] <= rounds'[e]
    BY <1>2, MessageLimits DEF MessagesInv, TypeOK
  <1>4. ASSUME NEW u \in Tasks, u \notin resent'
        PROVE  u \notin resent /\ Needed(u)' \subseteq Needed(u)
    <2>1. u \notin resent
      BY <1>4
    <2>2. CASE u # t
      BY <2>1, <2>2, SameNeeded DEF MessagesInv, TypeOK
    <2>3. CASE u = t
      <3>1. /\ reviewed'[t] = reviewed[t] \cup {d} /\ told'[t] = told[t] \ {Owner[d]}
            /\ d \in Producers(t)
        BY PlanAssumption DEF MessagesInv, TypeOK
      <3>2. PendingReviews(t)' \subseteq PendingReviews(t)
        BY <3>1 DEF PendingReviews
      <3>3. Owner[d] \in told[t] => Owner[d] \in OwnersOf(PendingReviews(t))
        <4>1. Owner[d] \in told[t] => d \notin reviewed[t]
          BY <1>4, <2>3
        <4> QED BY <3>1, <4>1 DEF PendingReviews, OwnersOf
      <3>4. Needed(t)' = (Targets(t) \ told'[t]) \cup OwnersOf(PendingReviews(t)')
        BY DEF Needed, OwnersOf
      <3>5. OwnersOf(PendingReviews(t)') \subseteq OwnersOf(PendingReviews(t))
        BY <3>2 DEF OwnersOf
      <3> QED BY <2>1, <2>3, <3>1, <3>3, <3>4, <3>5 DEF Needed
    <2> QED BY <2>2, <2>3
  <1>5. \A x \in sending : x.task \in Tasks
    BY DEF MessagesInv, CallsKnow
  <1> QED BY <1>1, <1>2, <1>3, <1>4, <1>5, SessionStepKeeps

LEMMA EndKeeps ==
    ASSUME MessagesInv, NEW t \in Tasks, FinishProducer(t) \/ Fail(t)
    PROVE  MessagesInv'
  <1> USE DEF FinishProducer, Fail, Ended, InSession, runVars, mailVars
  <1>1. TypeOK'
    BY DEF MessagesInv, TypeOK, Statuses
  <1>2. UNCHANGED <<reserves, counted, question, phase, sending, replying, rounds, resent>>
        /\ phase = "working" /\ ~Calling(t)
    OBVIOUS
  <1>3. \A e \in Tasks : rounds[e] <= rounds'[e]
    BY <1>2, MessageLimits DEF MessagesInv, TypeOK
  <1>4. status'[t] \notin {"queued", "running"}
    BY DEF MessagesInv, TypeOK
  <1>5. ASSUME NEW u \in Tasks, u # t
        PROVE  status'[u] = status[u] /\ Needed(u)' = Needed(u)
    <2>1. status'[u] = status[u] /\ told'[u] = told[u] /\ reviewed'[u] = reviewed[u]
      BY <1>5 DEF MessagesInv, TypeOK
    <2> QED BY <2>1, SameNeeded
  <1>6. \A x \in sending : OwnSession(x) => x.task \in Tasks /\ x.task # t
    BY <1>2, CallerIsCalling DEF MessagesInv, CallsKnow
  <1> QED BY <1>1, <1>2, <1>3, <1>4, <1>5, <1>6, SessionStepKeeps

LEMMA FinishReviewKeeps ==
    ASSUME MessagesInv, NEW t \in Tasks, NEW failing \in SUBSET DependsOn[t],
           FinishReview(t, failing)
    PROVE  MessagesInv'
  <1> DEFINE revised == {d \in failing : RoundsLeft(d) > 0}
  <1> USE DEF FinishReview, Ended, InSession, runVars, mailVars
  <1>1. /\ UNCHANGED <<reserves, counted, question, phase, sending, replying, resent>>
        /\ phase = "working" /\ ~Calling(t) /\ IsReviewer(t)
        /\ revised \subseteq DependsOn[t] /\ revised \subseteq Tasks
    BY PlanAssumption
  <1>2. rounds' = [d \in Tasks |-> IF d \in revised THEN rounds[d] + 1 ELSE rounds[d]]
    OBVIOUS
  <1>3. status' = [d \in Tasks |->
                    IF d = t THEN IF revised = {} THEN "accepted" ELSE "queued"
                    ELSE IF d \in revised THEN "queued"
                    ELSE IF d \in failing THEN "partial"
                    ELSE IF d \in DependsOn[t] THEN "accepted"
                    ELSE status[d]]
    OBVIOUS
  <1>4. \A d \in Tasks : rounds[d] \in 0..MaxRevisionRounds
    BY DEF MessagesInv, TypeOK
  <1>5. ASSUME NEW d \in revised
        PROVE  rounds'[d] = rounds[d] + 1 /\ rounds'[d] \in 0..MaxRevisionRounds
    BY <1>1, <1>2, <1>4, MessageLimits DEF RoundsLeft
  <1> HIDE DEF revised
  <1>6. \A d \in Tasks : rounds[d] <= rounds'[d] /\ rounds'[d] \in 0..MaxRevisionRounds
    BY <1>1, <1>2, <1>4, <1>5, MessageLimits
  <1>7. TypeOK'
    <2>1. rounds' \in [Tasks -> 0..MaxRevisionRounds]
      BY <1>2, <1>6
    <2>2. status' \in [Tasks -> Statuses]
      BY <1>3 DEF MessagesInv, TypeOK, Statuses
    <2>3. told' \in [Tasks -> SUBSET Agents] /\ reviewed' \in [Tasks -> SUBSET Tasks]
      BY DEF MessagesInv, TypeOK
    <2> QED BY <2>1, <2>2, <2>3 DEF MessagesInv, TypeOK
  <1>8. ASSUME NEW u \in Tasks, u # t
        PROVE  Needed(u)' = Needed(u)
    <2>1. told'[u] = told[u] /\ reviewed'[u] = reviewed[u]
      BY <1>8 DEF MessagesInv, TypeOK
    <2> QED BY <2>1, SameNeeded
  <1>9. \A x \in sending : OwnSession(x) => x.task \in Tasks /\ x.task # t
    BY <1>1, CallerIsCalling DEF MessagesInv, CallsKnow
  <1>10. ASSUME NEW u \in Tasks, status'[u] \in {"queued", "running"}, u \notin resent
         PROVE  \/ /\ status[u] \in {"queued", "running"}
                   /\ Needed(u)' \subseteq Needed(u)
                \/ FutureReserve(u)' + Cardinality(Targets(u)) <= FutureReserve(u)
    <2>1. RoundsTyped /\ RoundsTyped'
      BY <1>7 DEF MessagesInv, TypeOK, RoundsTyped
    <2>2. \A d \in revised : \A v \in {t, d} :
            FutureReserve(v)' + Cardinality(Targets(v)) <= FutureReserve(v)
      BY <1>1, <1>5, <1>6, <2>1, RevisionMakesRoom
    <2>3. CASE u = t
      <3>1. revised # {}
        BY <1>3, <1>10, <2>3
      <3> QED BY <2>2, <2>3, <3>1
    <2>4. CASE u # t /\ u \in revised
      BY <2>2, <2>4
    <2>5. CASE u # t /\ u \notin revised
      BY <1>3, <1>8, <1>10, <2>5
    <2> QED BY <2>3, <2>4, <2>5
  <1> HIDE DEF FinishReview
  <1> QED BY <1>1, <1>6, <1>7, <1>8, <1>9, <1>10, SessionStepKeeps

\* The sessions that are gone told what they told before the run was stopped.
LEMMA StopKeeps ==
    ASSUME MessagesInv, Stop
    PROVE  MessagesInv'
  <1> USE DEF Stop
  <1>1. TypeOK'
    BY DEF MessagesInv, TypeOK, Statuses
  <1>2. \A e \in Tasks : rounds[e] <= rounds'[e]
    BY MessageLimits DEF MessagesInv, TypeOK
  <1>3. ASSUME NEW u \in Tasks, u \notin resent', status'[u] \in {"queued", "running"}
        PROVE  /\ status[u] \in {"queued", "running"} /\ u \notin resent
               /\ Needed(u)' \subseteq Needed(u)
    <2>1. told[u] = {} /\ u \notin resent /\ status[u] \in {"queued", "running"}
      BY <1>3
    <2>2. Targets(u) \subseteq Needed(u)
      BY <2>1 DEF Needed
    <2> QED BY <2>1, <2>2, NeededFitsNext
  <1> QED BY <1>1, <1>2, <1>3, SessionStepKeeps

\* At most one place is the next for a question.
LEMMA OneNextQuestion ==
    ASSUME NEW q \in NextQuestion, NEW p \in NextQuestion
    PROVE  q = p
  <1>1. q \in Nat /\ p \in Nat /\ q \in Questions /\ p \in Questions
    BY MessageLimits DEF NextQuestion, Questions
  <1>2. ~(q < p) /\ ~(p < q)
    BY <1>1 DEF NextQuestion
  <1> QED BY <1>1, <1>2

\* A message fills a place with its question or takes one away with its answer.
LEMMA QuestionsMove ==
    ASSUME MessagesInv, NEW x \in sending, Deliver(x), NEW q \in Questions
    PROVE  question'[q] = IF x.purpose = "question" /\ q \in NextQuestion THEN Asked(x, q)
                          ELSE IF Answers(x, q) THEN [question[q] EXCEPT !.state = "answered"]
                          ELSE question[q]
  BY DEF Deliver

\* The questions a message leaves pending, and those it was to answer.
LEMMA PendingMoves ==
    ASSUME MessagesInv, NEW x \in sending, Deliver(x)
    PROVE  /\ \A u \in Tasks : u # x.task => PendingQuestions(u)' = PendingQuestions(u)
           /\ x.purpose # "question" =>
                /\ PendingQuestions(x.task)' \subseteq PendingQuestions(x.task)
                /\ ReservedAnswer(x) =>
                     PendingQuestions(x.task)' \subseteq PendingQuestions(x.task) \ {x.re}
           /\ \A q \in NextQuestion :
                PendingQuestions(x.task)' \subseteq PendingQuestions(x.task) \cup {q}
  <1> USE QuestionsMove
  <1>1. \A q \in Questions : Asked(x, q).task = x.task
    BY DEF Asked
  <1>2. \A q \in Questions : Answers(x, q) =>
          /\ question[q].task = x.task
          /\ question[q] \in Asking
          /\ [question[q] EXCEPT !.state = "answered"].state = "answered"
          /\ x.purpose # "question"
    BY DEF Answers, Asking, NoQuestion, MessagesInv, QuestionsKnown
  <1>3. \A q \in NextQuestion : question[q].state = "none" /\ q \in Questions
    BY DEF NextQuestion
  <1>4. ASSUME NEW u \in Tasks, u # x.task
        PROVE  PendingQuestions(u)' = PendingQuestions(u)
    <2>1. ASSUME NEW q \in Questions
          PROVE  (question'[q].state = "pending" /\ question'[q].task = u)
                   <=> (question[q].state = "pending" /\ question[q].task = u)
      BY <1>1, <1>2, <1>3, <1>4
    <2> QED BY <2>1 DEF PendingQuestions
  <1>5. ASSUME x.purpose # "question"
        PROVE  PendingQuestions(x.task)' \subseteq PendingQuestions(x.task)
    BY <1>2, <1>5 DEF PendingQuestions
  <1>6. ASSUME x.purpose # "question", ReservedAnswer(x)
        PROVE  x.re \notin PendingQuestions(x.task)'
    <2>1. x.re \in PendingQuestions(x.task)
      BY <1>6 DEF ReservedAnswer, MessagesInv, CallsKnow
    <2>2. Answers(x, x.re) /\ x.re \in Questions
      BY <1>6, <2>1 DEF ReservedAnswer, Answers, PendingQuestions
    <2> QED BY <1>2, <1>6, <2>2 DEF PendingQuestions
  <1>7. ASSUME NEW q \in NextQuestion, x.purpose = "question"
        PROVE  PendingQuestions(x.task)' \subseteq PendingQuestions(x.task) \cup {q}
    BY <1>2, <1>7, OneNextQuestion DEF PendingQuestions
  <1> QED BY <1>4, <1>5, <1>6, <1>7

\* How many they are.
LEMMA PendingCount ==
    ASSUME MessagesInv, NEW x \in sending, Deliver(x)
    PROVE  /\ Cardinality(PendingQuestions(x.task)') \in Nat
           /\ Cardinality(PendingQuestions(x.task)')
                <= Cardinality(PendingQuestions(x.task))
                     + (IF x.purpose = "question" THEN 1 ELSE 0)
                     - (IF ReservedAnswer(x) THEN 1 ELSE 0)
  <1> DEFINE P == PendingQuestions(x.task)
             Q == PendingQuestions(x.task)'
  <1>1. IsFiniteSet(P) /\ Cardinality(P) \in Nat
    BY PendingFinite
  <1>2. Q \subseteq Questions /\ IsFiniteSet(Questions)
    <2>1. IsFiniteSet(Questions)
      BY MessageLimits, FS_Interval DEF Questions
    <2> QED BY <2>1 DEF PendingQuestions
  <1>3. Cardinality(Q) \in Nat
    BY <1>2, FS_Subset, FS_CardinalityType
  <1>4. CASE x.purpose = "question"
    <2>1. PICK q : q \in NextQuestion
      BY <1>4 DEF Deliver
    <2>2. Q \subseteq P \cup {q}
      BY <2>1, PendingMoves
    <2>3. ~ReservedAnswer(x)
      BY <1>4 DEF ReservedAnswer
    <2> HIDE DEF P, Q
    <2>4. /\ IsFiniteSet(P \cup {q}) /\ Cardinality(P \cup {q}) \in Nat
          /\ Cardinality(P \cup {q}) <= Cardinality(P) + 1
      BY <1>1, FS_AddElement, FS_CardinalityType
    <2>5. Cardinality(Q) <= Cardinality(P \cup {q})
      BY <2>2, <2>4, FS_Subset
    <2>6. Cardinality(Q) <= Cardinality(P) + 1
      BY <1>1, <1>3, <2>4, <2>5
    <2> QED BY <1>1, <1>3, <1>4, <2>3, <2>6 DEF P, Q
  <1>5. CASE x.purpose # "question" /\ ReservedAnswer(x)
    <2>1. x.re \in P
      BY <1>5 DEF ReservedAnswer, MessagesInv, CallsKnow
    <2>2. Q \subseteq P \ {x.re}
      BY <1>5, PendingMoves
    <2> HIDE DEF P, Q
    <2>3. IsFiniteSet(P \ {x.re}) /\ Cardinality(P \ {x.re}) = Cardinality(P) - 1
      BY <1>1, <2>1, FS_RemoveElement
    <2>4. Cardinality(Q) <= Cardinality(P \ {x.re})
      BY <2>2, <2>3, FS_Subset
    <2>5. Cardinality(Q) <= Cardinality(P) - 1
      BY <2>3, <2>4
    <2> QED BY <1>1, <1>3, <1>5, <2>5 DEF P, Q
  <1>6. CASE x.purpose # "question" /\ ~ReservedAnswer(x)
    <2>1. Q \subseteq P
      BY <1>6, PendingMoves
    <2> HIDE DEF P, Q
    <2>2. Cardinality(Q) <= Cardinality(P)
      BY <1>1, <2>1, FS_Subset
    <2> QED BY <1>1, <1>3, <1>6, <2>2 DEF P, Q
  <1> QED BY <1>4, <1>5, <1>6

\* Telling an agent leaves no more to tell, and one less if nothing awaits a verdict.
LEMMA NeededMoves ==
    ASSUME MessagesInv, NEW x \in sending, Deliver(x)
    PROVE  /\ \A u \in Tasks : Needed(u)' \subseteq Needed(u)
           /\ OwnSession(x) /\ Owed(x) /\ PendingReviews(x.task) = {} =>
                Needed(x.task)' \subseteq Needed(x.task) \ {x.to}
  <1> USE DEF Deliver
  <1>1. x.task \in Tasks
    BY DEF MessagesInv, CallsKnow
  <1>2. \A u \in Tasks : told[u] \subseteq told'[u] /\ reviewed'[u] = reviewed[u]
    BY <1>1 DEF MessagesInv, TypeOK
  <1>3. ASSUME NEW u \in Tasks PROVE Needed(u)' \subseteq Needed(u)
    <2>1. PendingReviews(u)' = PendingReviews(u)
      BY <1>2 DEF PendingReviews
    <2> QED BY <1>2, <2>1 DEF Needed, OwnersOf
  <1>4. ASSUME OwnSession(x), Owed(x), PendingReviews(x.task) = {}
        PROVE  x.to \notin Needed(x.task)'
    <2>1. x.to \in told'[x.task]
      BY <1>1, <1>4 DEF Owed, MessagesInv, TypeOK
    <2>2. OwnersOf(PendingReviews(x.task)') = {}
      BY <1>2, <1>1, <1>4 DEF PendingReviews, OwnersOf
    <2>3. Needed(x.task)' = (Targets(x.task) \ told'[x.task])
                              \cup OwnersOf(PendingReviews(x.task)')
      BY DEF Needed, OwnersOf
    <2> HIDE DEF Deliver
    <2> QED BY <2>1, <2>2, <2>3
  <1> HIDE DEF Deliver
  <1> QED BY <1>1, <1>3, <1>4

LEMMA DeliverTypes ==
    ASSUME MessagesInv, NEW x \in sending, Deliver(x)
    PROVE  TypeOK' /\ QuestionsKnown'
  <1>1. x.task \in Tasks /\ x.to \in Agents /\ x.by \in Senders
    BY DEF MessagesInv, CallsKnow
  <1>2. sending' = {}
    BY DEF Deliver, MessagesInv, CallsKnow
  <1>3. counted' \in [Tasks -> 0..MaxPeerMessages]
    BY <1>1, MessageLimits DEF Deliver, Admitted, WithinLimit, MessagesInv, TypeOK
  <1>4. replying' \subseteq replying \cup (IF x.purpose = "question" THEN NextQuestion ELSE {})
    BY DEF Deliver
  <1>5. TypeOK'
    <2>1. told' \in [Tasks -> SUBSET Agents]
      BY <1>1 DEF Deliver, MessagesInv, TypeOK
    <2>2. dispatched' \subseteq Agents
      BY <1>1 DEF Deliver, MessagesInv, TypeOK
    <2>3. replying' \subseteq Questions
      BY <1>4 DEF NextQuestion, MessagesInv, TypeOK
    <2> QED BY <1>3, <2>1, <2>2, <2>3 DEF Deliver, runVars, MessagesInv, TypeOK
  <1>6. From(x.by) \in Agents \cup {Master}
    <2>1. x.by.kind \in {"task", "reply", "coordination"}
      BY <1>1 DEF Senders
    <2>2. CASE x.by.kind = "task"
      <3>1. x.by.task \in Tasks
        BY <1>1, <2>2 DEF Senders
      <3> QED BY <2>2, <3>1, PlanAssumption DEF From
    <2>3. CASE x.by.kind = "reply"
      <3>1. x.by.to \in Questions
        BY <1>1, <2>3 DEF Senders
      <3>2. question[x.by.to] \in Asking
        BY <2>3, <3>1 DEF MessagesInv, QuestionsKnown
      <3> QED BY <2>3, <3>2 DEF From, Asking
    <2>4. CASE x.by.kind = "coordination"
      BY <2>4 DEF From
    <2> QED BY <2>1, <2>2, <2>3, <2>4
  <1>7. \A q \in Questions : Asked(x, q) \in Asking
    BY <1>1, <1>6 DEF Asked, Asking
  <1>8. \A q \in Questions : Answers(x, q) =>
          [question[q] EXCEPT !.state = "answered"] \in Asking
    BY DEF Answers, Asking, NoQuestion, MessagesInv, QuestionsKnown
  <1>9. NoQuestion \notin Asking
    BY DEF NoQuestion, Asking
  <1>10. question' \in [Questions -> {NoQuestion} \cup Asking]
    <2>1. \A q \in Questions : question[q] \in {NoQuestion} \cup Asking
      BY DEF MessagesInv, QuestionsKnown
    <2>2. \A q \in Questions : question'[q] \in {NoQuestion} \cup Asking
      BY <1>7, <1>8, <2>1, QuestionsMove
    <2>3. question' = [q \in Questions |-> question'[q]]
      BY DEF Deliver
    <2> QED BY <2>2, <2>3
  <1>11. ASSUME NEW q \in replying' PROVE question'[q] # NoQuestion
    <2>1. q \in Questions
      BY <1>5 DEF TypeOK
    <2>2. CASE q \in replying
      <3>1. question[q] # NoQuestion
        BY <2>2 DEF MessagesInv, QuestionsKnown
      <3> QED BY <1>7, <1>8, <1>9, <2>1, <3>1, QuestionsMove
    <2>3. CASE q \notin replying
      <3>1. x.purpose = "question" /\ q \in NextQuestion
        BY <1>4, <2>3
      <3> QED BY <1>7, <1>9, <2>1, <3>1, QuestionsMove
    <2> QED BY <2>2, <2>3
  <1> QED BY <1>2, <1>5, <1>10, <1>11 DEF QuestionsKnown

\* A message that is admitted leaves room for what is held and owed.
LEMMA DeliverFits ==
    ASSUME MessagesInv, NEW x \in sending, Deliver(x), reserves
    PROVE  ReserveFitsUntilResume' /\ HandoffsFit'
  <1> DEFINE t == x.task
             P == Cardinality(PendingQuestions(t))
             Q == Cardinality(PendingQuestions(t)')
             N == Cardinality(Needed(t))
             M == Cardinality(Needed(t)')
             F == FutureReserve(t)
             c == counted[t]
  <1>1. t \in Tasks /\ x.future \in Nat /\ F <= x.future /\ x.pending = PendingQuestions(t)
    BY DEF MessagesInv, CallsKnow
  <1>2. UNCHANGED <<status, rounds, reviewed, resent, reserves>>
    BY DEF Deliver, runVars
  <1>3. \A u \in Tasks : FutureReserve(u)' = FutureReserve(u)
    BY <1>2 DEF FutureReserve, RevisionsLeft, RoundsLeft
  <1>4. \A u \in Tasks : u # t =>
          PendingQuestions(u)' = PendingQuestions(u) /\ counted'[u] = counted[u]
    BY <1>1, PendingMoves DEF Deliver, MessagesInv, TypeOK
  <1>5. counted'[t] = c + 1
    BY <1>1 DEF Deliver, MessagesInv, TypeOK
  <1>6. c \in Nat /\ F \in Nat /\ P \in Nat /\ N \in Nat /\ M \in Nat /\ Q \in Nat
    <2>1. c \in Nat
      BY <1>1, MessageLimits DEF MessagesInv, TypeOK
    <2>2. F \in Nat
      BY <1>1, FutureIsNatural DEF RoundsTyped, MessagesInv, TypeOK
    <2> QED BY <1>1, <2>1, <2>2, PendingFinite, PendingCount, NeededFits, NeededFitsNext
  <1>7. M <= N
    BY <1>1, NeededMoves, NeededFits, FS_Subset
  <1>8. Q <= P + (IF x.purpose = "question" THEN 1 ELSE 0) - (IF ReservedAnswer(x) THEN 1 ELSE 0)
    BY PendingCount
  <1>9. N <= Cardinality(Targets(t)) /\ Cardinality(Targets(t)) \in Nat
    BY <1>1, NeededFits, TargetsFinite
  <1>10. ~(x.purpose = "question" /\ ReservedAnswer(x))
    BY DEF ReservedAnswer
  <1>11. /\ c + 1 + F + Q <= MaxPeerMessages
         /\ t \notin resent /\ status[t] \in {"queued", "running"} =>
              c + 1 + F + Q + M <= MaxPeerMessages
    <2>1. CASE x.by.kind = "coordination"
      <3>1. phase = "coordination" /\ Dispatch(x) /\ x.purpose = "handoff" /\ ~ReservedAnswer(x)
        BY <2>1 DEF MessagesInv, CallsKnow, Dispatch, ReservedAnswer
      <3>2. rounds = [d \in Tasks |-> 0] /\ c = 0
        BY <1>1, <1>6, <3>1 DEF MessagesInv, CoordinatorFirst, Dispatch, TypeOK
      <3>3. P = 0
        <4>1. \A q \in Questions : question[q].state # "pending"
          BY <3>1 DEF MessagesInv, CoordinatorFirst, NoQuestion
        <4>2. PendingQuestions(t) = {}
          BY <4>1 DEF PendingQuestions
        <4> QED BY <4>2, FS_EmptySet
      <3>4. Q = 0
        <4> HIDE DEF P, Q
        <4> QED BY <1>6, <1>8, <3>1, <3>3
      <3>5. 1 + F + Cardinality(Targets(t)) <= MaxPeerMessages
        BY <1>1, <3>2, BudgetHolds
      <3> HIDE DEF P, Q, N, M, F, c, t
      <3> QED BY <1>6, <1>7, <1>9, <3>2, <3>4, <3>5, MessageLimits
    <2>2. CASE x.by.kind # "coordination"
      <3> DEFINE need == IF OwnSession(x) THEN N ELSE Cardinality(Targets(t))
                 held == P - (IF ReservedAnswer(x) THEN 1 ELSE 0)
                 slot == IF x.purpose = "question" THEN 1 ELSE 0
      <3>1. ReserveAllows(x)
        BY <2>2 DEF Deliver, Admitted
      <3>2. MaxPeerMessages - c > x.future + held
        BY <1>1, <3>1 DEF ReserveAllows, HeldForAnswers, Remaining
      <3>3. \/ MaxPeerMessages - c > x.future + held + need + slot
            \/ /\ ReservedAnswer(x) \/ (OwnSession(x) /\ Owed(x))
               /\ OwnSession(x) => PendingReviews(t) = {}
        BY <1>1, <3>1 DEF ReserveAllows, HeldForAnswers, Remaining
      <3>4. need \in Nat /\ N <= need
        BY <1>6, <1>9
      <3>5. t \notin resent /\ status[t] \in {"queued", "running"} =>
              c + F + P + N <= MaxPeerMessages
        BY <1>1 DEF MessagesInv, HandoffsFit
      <3>6. OwnSession(x) /\ Owed(x) /\ PendingReviews(t) = {} => M <= N - 1
        <4> SUFFICES ASSUME OwnSession(x), Owed(x), PendingReviews(t) = {}
                     PROVE  M <= N - 1
          OBVIOUS
        <4>1. x.to \in Needed(t) /\ IsFiniteSet(Needed(t))
          BY <1>1, NeededFits DEF Owed
        <4>2. /\ IsFiniteSet(Needed(t) \ {x.to})
              /\ Cardinality(Needed(t) \ {x.to}) = Cardinality(Needed(t)) - 1
          BY <4>1, FS_RemoveElement
        <4>3. Needed(t)' \subseteq Needed(t) \ {x.to}
          BY NeededMoves
        <4>4. Cardinality(Needed(t)') <= Cardinality(Needed(t) \ {x.to})
          BY <4>2, <4>3, FS_Subset
        <4> QED BY <4>2, <4>4
      <3>7. OwnSession(x) /\ Owed(x) => x.purpose # "question"
        BY DEF Owed
      <3> HIDE DEF P, Q, N, M, F, c, t, need
      <3>8. c + 1 + F + Q <= MaxPeerMessages
        BY <1>1, <1>6, <1>8, <1>10, <3>2, <3>3, <3>4, <3>7, MessageLimits
      <3>9. CASE MaxPeerMessages - c > x.future + held + need + slot
        BY <1>1, <1>6, <1>7, <1>8, <3>4, <3>8, <3>9, MessageLimits
      <3>10. CASE ReservedAnswer(x)
        BY <1>1, <1>6, <1>7, <1>8, <1>10, <3>5, <3>8, <3>10, MessageLimits
      <3>11. CASE OwnSession(x) /\ Owed(x) /\ PendingReviews(t) = {} /\ ~ReservedAnswer(x)
        BY <1>1, <1>6, <1>8, <3>5, <3>6, <3>7, <3>8, <3>11, MessageLimits
      <3> QED BY <3>3, <3>9, <3>10, <3>11
    <2> QED BY <2>1, <2>2
  <1>12. ReserveFitsUntilResume'
    <2> SUFFICES ASSUME NEW u \in Tasks
                 PROVE  counted'[u] + FutureReserve(u)' + Cardinality(PendingQuestions(u)')
                          <= MaxPeerMessages
      BY DEF ReserveFitsUntilResume, ReserveFits
    <2>1. CASE u = t
      BY <1>1, <1>3, <1>5, <1>11, <2>1
    <2>2. CASE u # t
      BY <1>3, <1>4, <2>2 DEF MessagesInv, ReserveFitsUntilResume, ReserveFits
    <2> QED BY <2>1, <2>2
  <1>13. HandoffsFit'
    <2> SUFFICES ASSUME NEW u \in Tasks, u \notin resent, status[u] \in {"queued", "running"}
                 PROVE  counted'[u] + FutureReserve(u)' + Cardinality(PendingQuestions(u)')
                          + Cardinality(Needed(u)') <= MaxPeerMessages
      BY <1>2 DEF HandoffsFit
    <2>1. CASE u = t
      BY <1>1, <1>3, <1>5, <1>11, <2>1
    <2>2. CASE u # t
      <3>1. Needed(u)' = Needed(u)
        <4>1. told'[u] = told[u] /\ reviewed'[u] = reviewed[u]
          BY <1>1, <2>2 DEF Deliver, MessagesInv, TypeOK
        <4> QED BY <4>1, SameNeeded
      <3> QED BY <1>3, <1>4, <2>2, <3>1 DEF MessagesInv, HandoffsFit
    <2> QED BY <2>1, <2>2
  <1> QED BY <1>12, <1>13

LEMMA DeliverKeeps ==
    ASSUME MessagesInv, NEW x \in sending, Deliver(x)
    PROVE  MessagesInv'
  <1>1. TypeOK' /\ QuestionsKnown'
    BY DeliverTypes
  <1>2. sending' = {}
    BY DEF Deliver, MessagesInv, CallsKnow
  <1>3. CallsKnow' /\ CallsFit'
    BY <1>2 DEF CallsKnow, CallsFit
  <1>4. ReserveFitsUntilResume' /\ HandoffsFit'
    <2>1. reserves' = reserves
      BY DEF Deliver, runVars
    <2>2. CASE ~reserves
      BY <2>1, <2>2 DEF ReserveFitsUntilResume, HandoffsFit
    <2> QED BY <2>2, DeliverFits
  <1>5. CoordinatorFirst'
    <2> SUFFICES ASSUME reserves, phase = "coordination"
                 PROVE  /\ UNCHANGED <<rounds, status, told, question, replying>>
                        /\ rounds = [t \in Tasks |-> 0] /\ replying = {}
                        /\ \A q \in Questions : question[q] = NoQuestion
                        /\ \A t \in Tasks : /\ counted'[t] <= 1 /\ told[t] = {}
                                            /\ status[t] = "queued"
                                            /\ counted'[t] = 1 => Owner[t] \in dispatched'
      BY <1>2 DEF CoordinatorFirst, Deliver, runVars
    <2>1. /\ x.by.kind = "coordination" /\ Dispatch(x) /\ ~OwnSession(x)
          /\ x.purpose = "handoff" /\ x.task \in Tasks
      BY DEF MessagesInv, CallsKnow, CoordinatorFirst, Dispatch, OwnSession
    <2>2. question' = question
      <3>1. \A q \in Questions : ~Answers(x, q)
        BY <2>1 DEF Answers
      <3>2. \A q \in Questions : question'[q] = question[q]
        BY <2>1, <3>1, QuestionsMove
      <3> QED BY <3>2 DEF Deliver, MessagesInv, QuestionsKnown
    <2>3. UNCHANGED <<rounds, status, told, replying>>
      BY <2>1 DEF Deliver
    <2>4. ASSUME NEW t \in Tasks
          PROVE  counted'[t] <= 1 /\ (counted'[t] = 1 => Owner[t] \in dispatched')
      <3>1. dispatched \subseteq dispatched' /\ Owner[x.task] \in dispatched'
        BY <2>1 DEF Deliver, Dispatch
      <3>2. CASE t = x.task
        <4>1. counted[t] \in Nat /\ counted[t] <= 1 /\ counted[t] # 1
          BY <2>1, <3>2, MessageLimits DEF MessagesInv, CoordinatorFirst, Dispatch, TypeOK
        <4>2. counted'[t] = counted[t] + 1
          BY <3>2 DEF Deliver, MessagesInv, TypeOK
        <4> QED BY <3>1, <3>2, <4>1, <4>2
      <3>3. CASE t # x.task
        BY <3>1, <3>3 DEF Deliver, MessagesInv, CoordinatorFirst, TypeOK
      <3> QED BY <3>2, <3>3
    <2> QED BY <2>2, <2>3, <2>4 DEF MessagesInv, CoordinatorFirst
  <1> QED BY <1>1, <1>3, <1>4, <1>5 DEF MessagesInv

\* Every step keeps the room: sends, sessions, reviews, stops and resumes.
LEMMA MessagesKeeps ==
    ASSUME MessagesInv, [Next]_vars
    PROVE  MessagesInv'
  <1>1. CASE Send
    <2>1. ASSUME NEW by \in Senders, NEW to \in Agents, NEW t \in Tasks,
                 NEW purpose \in Purposes, NEW re, BeginSend(by, to, t, purpose, re)
          PROVE  MessagesInv'
      BY <2>1, BeginSendKeeps
    <2>2. Discussed \subseteq Tasks
      BY PlanAssumption
    <2> QED BY <1>1, <2>1, <2>2, EndsKeep, DeliverKeeps DEF Send
  <1>2. CASE EndCoordination \/ Resume \/ UNCHANGED vars \/ \E q \in Questions : EndReply(q)
    BY <1>2, EndsKeep
  <1>3. ASSUME NEW t \in Tasks,
               \/ Start(t) \/ Publish(t) \/ Retry(t) \/ FinishProducer(t) \/ Fail(t)
               \/ \E d \in Tasks : SubmitReview(t, d)
               \/ \E failing \in SUBSET DependsOn[t] : FinishReview(t, failing)
        PROVE  MessagesInv'
    BY <1>3, StartKeeps, EndKeeps, SubmitReviewKeeps, FinishReviewKeeps
  <1>4. CASE Stop
    BY <1>4, StopKeeps
  <1> QED BY <1>1, <1>2, <1>3, <1>4 DEF Next, Over

LEMMA MessagesRun == ExchangesSpec => []MessagesInv
  <1>1. ExchangesInit => MessagesInv
    BY MessagesInit DEF ExchangesInit
  <1>2. MessagesInv /\ [ExchangesNext]_allVars => MessagesInv'
    BY StepOfEachPart, MessagesKeeps
  <1> QED BY <1>1, <1>2, PTL DEF ExchangesSpec

\* Until the run is resumed, what is stored, owed to later sessions and held for
\* answers fits the limit of every task, for any plan whose budget was admitted
\* (runtime/tools.py, send_message).
THEOREM ReservesFit == ExchangesSpec => []ReserveFitsUntilResume
  <1>1. MessagesInv => ReserveFitsUntilResume
    BY DEF MessagesInv
  <1> QED BY <1>1, MessagesRun, PTL

\* A session that delivers no handoff twice over can always deliver the rest, and a
\* task that is queued can still be started, for any such plan (runtime/tools.py,
\* send_message; scheduler.py, _run_task).
THEOREM HandoffsStillFit == ExchangesSpec => []HandoffsFit
  <1>1. MessagesInv => HandoffsFit
    BY DEF MessagesInv
  <1> QED BY <1>1, MessagesRun, PTL

\* The answer a question holds a message for finds room under every rule of the check.
LEMMA AnswerAdmitted ==
    ASSUME MessagesInv, NEW x \in sending, reserves, ReservedAnswer(x),
           x.by.kind = "reply" \/ (OwnSession(x) /\ x.task \notin resent)
    PROVE  Admitted(x)
  <1> DEFINE t == x.task
             P == Cardinality(x.pending)
             N == Cardinality(Needed(t))
             c == counted[t]
  <1>1. /\ t \in Tasks /\ x.future \in Nat /\ x.pending = PendingQuestions(t)
        /\ x.by.kind # "coordination"
    BY DEF MessagesInv, CallsKnow, OwnSession
  <1>2. c \in Nat /\ P \in Nat /\ N \in Nat /\ P >= 1
    <2>1. c \in Nat
      BY <1>1, MessageLimits DEF MessagesInv, TypeOK
    <2>2. IsFiniteSet(x.pending) /\ P \in Nat
      BY <1>1, PendingFinite
    <2>3. x.pending # {}
      BY DEF ReservedAnswer
    <2>4. P # 0
      BY <2>2, <2>3, FS_EmptySet
    <2>5. N \in Nat
      BY <1>1, NeededFits
    <2> HIDE DEF P, N, c
    <2> QED BY <2>1, <2>2, <2>4, <2>5
  <1>3. /\ c + x.future + P <= MaxPeerMessages
        /\ OwnSession(x) => c + x.future + P + N <= MaxPeerMessages
    BY <1>1 DEF MessagesInv, CallsFit, OwnSession
  <1>4. Remaining(t) = MaxPeerMessages - c
    BY DEF Remaining
  <1>5. HeldForAnswers(x) = P - 1
    BY DEF HeldForAnswers
  <1>6. c < MaxPeerMessages
    <2> HIDE DEF P, N, c
    <2> QED BY <1>1, <1>2, <1>3, MessageLimits
  <1>7. ReserveAllows(x)
    <2>1. Remaining(t) > x.future + HeldForAnswers(x)
      <3> HIDE DEF P, N, c
      <3> QED BY <1>1, <1>2, <1>3, <1>4, <1>5, MessageLimits
    <2>2. CASE OwnSession(x) /\ PendingReviews(t) # {}
      <3>1. Remaining(t) > x.future + HeldForAnswers(x) + N + 0
        <4> HIDE DEF P, N, c
        <4> QED BY <1>1, <1>2, <1>3, <1>4, <1>5, <2>2, MessageLimits
      <3>2. x.purpose # "question"
        BY DEF ReservedAnswer
      <3> QED BY <2>1, <2>2, <3>1, <3>2 DEF ReserveAllows
    <2>3. CASE ~(OwnSession(x) /\ PendingReviews(t) # {})
      BY <2>1, <2>3 DEF ReserveAllows
    <2> QED BY <2>2, <2>3
  <1>8. OthersAllow(x)
    BY DEF OthersAllow, OwnSession
  <1>9. ReviewerAllows(x)
    <2>1. OwnSession(x) => Remaining(t) > N
      <3> HIDE DEF P, N, c
      <3> QED BY <1>1, <1>2, <1>3, <1>4, MessageLimits
    <2>2. OwnSession(x) => Remaining(t) \notin 1..N
      <3> HIDE DEF P, N, c
      <3> QED BY <1>2, <1>4, <2>1, MessageLimits
    <2> QED BY <2>2 DEF ReviewerAllows
  <1> QED BY <1>6, <1>7, <1>8, <1>9 DEF Admitted, WithinLimit

\* The answer a question holds a message for is never refused to a reply session, nor
\* to a session of the task that delivers no handoff twice over (runtime/tools.py,
\* send_message).
THEOREM AnswersStayAdmitted == ExchangesSpec => []AnswersAreAdmitted
  <1>1. MessagesInv => AnswersAreAdmitted
    BY AnswerAdmitted DEF AnswersAreAdmitted
  <1> QED BY <1>1, MessagesRun, PTL

-----------------------------------------------------------------------------
(* Types                                                                   *)

\* The types of the sessions and the commands are part of their invariants.
LEMMA CliTyped == ExchangesSpec => []Cli!TypeOK
  <1>1. CliInv => Cli!TypeOK
    BY DEF CliInv
  <1> QED BY <1>1, CliRuns, PTL

LEMMA CommandTyped == ExchangesSpec => []Command!TypeOK
  <1>1. CommandsInv => Command!TypeOK
    BY DEF CommandsInv
  <1> QED BY <1>1, CommandsRun, PTL

LEMMA MailTyped == ExchangesSpec => []Mail!TypeOK
  <1>1. ExchangesInit => Mail!TypeOK
    BY MailInit DEF ExchangesInit
  <1>2. Mail!TypeOK /\ [ExchangesNext]_allVars => Mail!TypeOK'
    BY StepOfEachPart, MailTypes
  <1> QED BY <1>1, <1>2, PTL DEF ExchangesSpec

LEMMA PartStays == ExchangesSpec => [](part \in Parts)
  <1>1. ExchangesInit => part \in Parts
    BY DEF ExchangesInit
  <1>2. part \in Parts /\ [ExchangesNext]_allVars => (part \in Parts)'
    BY StepOfEachPart
  <1> QED BY <1>1, <1>2, PTL DEF ExchangesSpec

\* Every variable of every part keeps its type, whatever the parts are given
\* (runtime/*.py and api/app.py, the modules that the parts model).
THEOREM EverythingIsTyped == ExchangesSpec => []TypesOK
  <1>1. ASSUME part \in Parts, MessagesInv, AskInv, StreamInv, Mail!TypeOK, Cli!TypeOK,
               Command!TypeOK
        PROVE  TypesOK
    <2>1. TypeOK /\ Asks!TypeOK /\ Stream!TypeOK
      BY <1>1 DEF MessagesInv, AskInv, StreamInv
    <2>2. CASE part = "messages"
      BY <1>1, <2>1, <2>2 DEF TypesOK
    <2>3. CASE part = "mail"
      BY <1>1, <2>3 DEF TypesOK
    <2>4. CASE part = "approvals"
      BY <1>1, <2>1, <2>4 DEF TypesOK
    <2>5. CASE part = "stream"
      BY <1>1, <2>1, <2>5 DEF TypesOK
    <2>6. CASE part = "cli"
      BY <1>1, <2>6 DEF TypesOK
    <2>7. CASE part = "commands"
      BY <1>1, <2>7 DEF TypesOK
    <2> QED BY <1>1, <2>2, <2>3, <2>4, <2>5, <2>6, <2>7 DEF Parts
  <1> QED
    BY <1>1, PartStays, MessagesRun, AskRuns, StreamRuns, MailTyped, CliTyped, CommandTyped, PTL
================================================================================
