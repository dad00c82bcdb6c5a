------------------------------- MODULE Mailbox -------------------------------
(***************************************************************************)
(* The mailbox of one agent: MessageBus (runtime/mailbox.py), whose send   *)
(* inserts a message and then wakes the readers, and the read_messages     *)
(* tool, which lists, may wait, lists again and marks what it listed.  A   *)
(* session's first prompt reads the same way without waiting, and a prompt *)
(* rebuilt after a failed delivery lists what was read before as well.     *)
(* An agent may have several sessions at once (a task and a reply); they   *)
(* are cancelled at any await, and storing an event may fail.  A reader    *)
(* marks its messages before they are on their way to the model: what it   *)
(* holds between the two dies with it.                                     *)
(***************************************************************************)
EXTENDS Naturals, FiniteSets

CONSTANTS
    Mails,      \* the messages sent to the agent
    Readers     \* its sessions

VARIABLES
    sent,       \* where the send of each message is
    unread,     \* messages with read_at NULL
    reader,     \* where the call of each session is
    batch,      \* what it listed and has not returned
    awake,      \* the waiting readers that were notified
    returned,   \* (history) what any session was given
    dropped     \* (history) what was marked for a session that was never given it

vars == <<sent, unread, reader, batch, awake, returned, dropped>>

Places == {"turn", "listing", "empty", "waiting", "rereading", "marking", "noting", "over"}

TypeOK ==
    /\ sent \in [Mails -> {"new", "stored", "sent"}]
    /\ unread \subseteq Mails /\ returned \subseteq Mails /\ dropped \subseteq Mails
    /\ reader \in [Readers -> Places]
    /\ batch \in [Readers -> SUBSET Mails] /\ awake \subseteq Readers

Init ==
    /\ sent = [m \in Mails |-> "new"] /\ unread = {} /\ returned = {} /\ dropped = {}
    /\ reader = [r \in Readers |-> "turn"] /\ batch = [r \in Readers |-> {}] /\ awake = {}

Go(r, place) == reader' = [reader EXCEPT ![r] = place]

Store(m) ==
    /\ sent[m] = "new" /\ sent' = [sent EXCEPT ![m] = "stored"]
    /\ unread' = unread \cup {m}
    /\ UNCHANGED <<reader, batch, awake, returned, dropped>>

\* cond.notify_all wakes those that wait now.
Wake(m) ==
    /\ sent[m] = "stored" /\ sent' = [sent EXCEPT ![m] = "sent"]
    /\ awake' = awake \cup {r \in Readers : reader[r] = "waiting"}
    /\ UNCHANGED <<unread, reader, batch, returned, dropped>>

Read(r) ==
    /\ reader[r] = "turn" /\ Go(r, "listing")
    /\ UNCHANGED <<sent, unread, batch, awake, returned, dropped>>

\* Nothing listed: return, or wait if wait_seconds > 0.
List(r) ==
    /\ reader[r] = "listing"
    /\ batch' = [batch EXCEPT ![r] = unread]
    /\ IF unread # {} THEN Go(r, "marking") ELSE Go(r, "turn") \/ Go(r, "empty")
    /\ UNCHANGED <<sent, unread, awake, returned, dropped>>

\* Listed before: a message that came meanwhile wakes nobody.
Wait(r) ==
    /\ reader[r] = "empty" /\ Go(r, "waiting")
    /\ UNCHANGED <<sent, unread, batch, awake, returned, dropped>>

Woken(r) ==
    /\ reader[r] = "waiting" /\ r \in awake
    /\ Go(r, "listing") /\ awake' = awake \ {r}
    /\ UNCHANGED <<sent, unread, batch, returned, dropped>>

TimeOut(r) ==
    /\ reader[r] = "waiting" /\ Go(r, "turn") /\ awake' = awake \ {r}
    /\ UNCHANGED <<sent, unread, batch, returned, dropped>>

\* A rebuilt prompt lists all the agent's messages.
Reread(r) ==
    /\ reader[r] = "turn" /\ Go(r, "rereading")
    /\ UNCHANGED <<sent, unread, batch, awake, returned, dropped>>

ListAll(r) ==
    /\ reader[r] = "rereading"
    /\ batch' = [batch EXCEPT ![r] = {m \in Mails : sent[m] # "new"}]
    /\ IF batch'[r] # {} THEN Go(r, "marking") ELSE Go(r, "turn")
    /\ UNCHANGED <<sent, unread, awake, returned, dropped>>

\* (mutant of Marked) Whatever is unread now is marked.
MarkedAll(r) == unread
Marked(r) == batch[r]

\* The messages are marked; the event that says so is still to be stored.
Mark(r) ==
    /\ reader[r] = "marking" /\ Go(r, "noting")
    /\ unread' = unread \ Marked(r)
    /\ UNCHANGED <<sent, batch, awake, returned, dropped>>

\* The messages reach the session's next turn.
Return(r) ==
    /\ reader[r] = "noting" /\ Go(r, "turn")
    /\ returned' = returned \cup batch[r]
    /\ batch' = [batch EXCEPT ![r] = {}]
    /\ UNCHANGED <<sent, unread, awake, dropped>>

\* The event is not stored: the tool reports an error instead of the messages,
\* and a prompt is not built.
NoteFails(r) ==
    /\ reader[r] = "noting" /\ (Go(r, "turn") \/ Go(r, "over"))
    /\ dropped' = dropped \cup batch[r]
    /\ batch' = [batch EXCEPT ![r] = {}]
    /\ UNCHANGED <<sent, unread, awake, returned>>

\* Cancelled while it waits for the UPDATE: the statement is the database
\* thread's, and may run all the same.
MarkAnyway(r) ==
    /\ reader[r] = "marking"
    /\ unread' = unread \ Marked(r) /\ dropped' = dropped \cup batch[r]

Cancelled(r) ==
    /\ reader[r] # "over" /\ Go(r, "over")
    /\ batch' = [batch EXCEPT ![r] = {}] /\ awake' = awake \ {r}
    /\ \/ MarkAnyway(r)
       \/ /\ dropped' = IF reader[r] = "noting" THEN dropped \cup batch[r] ELSE dropped
          /\ UNCHANGED unread
    /\ UNCHANGED <<sent, returned>>

Next ==
    \/ \E m \in Mails : Store(m) \/ Wake(m)
    \/ \E r \in Readers :
        \/ Read(r) \/ List(r) \/ Wait(r) \/ Woken(r) \/ TimeOut(r)
        \/ Reread(r) \/ ListAll(r)
        \/ Mark(r) \/ Return(r) \/ NoteFails(r) \/ Cancelled(r)

Spec == Init /\ [][Next]_vars
-----------------------------------------------------------------------------
(* Properties *)

\* A stored message is unread, was given to a session, or is held by the session
\* that marked it; the one exception is a session that is cancelled, or cannot
\* store its event, after its UPDATE and before the messages reach the model.  No
\* message is lost to a time-out, to a wake-up, or to two sessions reading at once.
NoMailLost ==
    \A m \in Mails : sent[m] # "new" =>
        \/ m \in unread \cup returned \cup dropped
        \/ \E r \in Readers : reader[r] = "noting" /\ m \in batch[r]
=============================================================================
