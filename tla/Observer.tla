------------------------------- MODULE Observer -------------------------------
(***************************************************************************)
(* The audit collector (operations/observer.py): a process of its own that *)
(* copies the audit log of a server page by page, from a server that goes  *)
(* on recording, fails to answer, and may be replaced by a restored        *)
(* snapshot whose ids start again where the snapshot ended.                *)
(***************************************************************************)
EXTENDS Naturals, Sequences, SequencesExt

CONSTANTS
    PageSize,       \* records per request (1000)
    MaxPages,       \* requests per cycle (5)
    MaxRecords,     \* bound: records of a log
    MaxRestores     \* bound: times the server is replaced by a snapshot

Streams == 0..MaxRestores

VARIABLES
    log,        \* the server's audit_log: for each id, the server that wrote it
    stream,     \* its audit_stream_id
    snapshot,   \* the log of the last backup
    restores,
    truth,      \* (history) the log each stream identity stood for, at its longest
    place,      \* of the collector: "idle", "paging" or "storing"
    seen,       \* the stream of the cycle
    cursor,     \* after which id the cycle reads on
    batch,      \* the records of the cycle
    pages,      \* requests of the cycle
    kept,       \* audit_records, per stream: for each id the record
    cursors     \* cursors, per stream

serverVars == <<log, stream, snapshot, restores, truth>>
cycleVars  == <<place, seen, cursor, batch, pages>>
storeVars  == <<kept, cursors>>
vars == <<serverVars, cycleVars, storeVars>>

Logs == BoundedSeq(Streams, MaxRecords)

TypeOK ==
    /\ log \in Logs /\ snapshot \in Logs
    /\ stream \in Streams /\ seen \in Streams /\ restores \in Streams
    /\ place \in {"idle", "paging", "storing"}
    /\ cursor \in 0..MaxRecords /\ pages \in 0..MaxPages
    /\ batch \in Logs
    /\ \A s \in Streams : truth[s] \in Logs /\ kept[s] \in Logs /\ cursors[s] \in 0..MaxRecords

Init ==
    /\ log = <<>> /\ snapshot = <<>> /\ stream = 0 /\ restores = 0
    /\ truth = [s \in Streams |-> <<>>]
    /\ place = "idle" /\ seen = 0 /\ cursor = 0 /\ batch = <<>> /\ pages = 0
    /\ kept = [s \in Streams |-> <<>>]
    /\ cursors = [s \in Streams |-> 0]

-----------------------------------------------------------------------------
(* The server                                                              *)

\* Every request leaves a record, the collector's among them.
Record ==
    /\ Len(log) < MaxRecords
    /\ log' = Append(log, restores)
    /\ truth' = [truth EXCEPT ![stream] = log']
    /\ UNCHANGED <<stream, snapshot, restores, cycleVars, storeVars>>

Backup ==
    /\ snapshot' = log
    /\ UNCHANGED <<log, stream, restores, truth, cycleVars, storeVars>>

\* (mutant of RestoredStream) A restored database keeps its stream identity.
RestoredStreamKept(s) == stream

\* A restored database gets a stream identity of its own.
RestoredStream(s) == s

Restore ==
    /\ restores < MaxRestores
    /\ restores' = restores + 1
    /\ log' = snapshot
    /\ stream' = RestoredStream(restores')
    /\ truth' = [truth EXCEPT ![stream'] = log']
    /\ UNCHANGED <<snapshot, cycleVars, storeVars>>

-----------------------------------------------------------------------------
(* Observer.collect                                                        *)

\* The server names its stream; the cycle starts after what is stored of it.
Begin ==
    /\ place = "idle"
    /\ place' = "paging"
    /\ seen' = stream
    /\ cursor' = cursors[stream]
    /\ batch' = <<>> /\ pages' = 0
    /\ UNCHANGED <<serverVars, storeVars>>

\* (mutant of SameSource) The stream of a page is not compared.
SameSourceAssumed == TRUE

\* X-Agentteam-Audit-Stream of the page against the stream the cycle began with.
SameSource == stream = seen

PageEnd == IF cursor + PageSize < Len(log) THEN cursor + PageSize ELSE Len(log)

\* One page; a short page or the last allowed one ends the reading.
Page ==
    /\ place = "paging" /\ SameSource
    /\ batch' = batch \o SubSeq(log, cursor + 1, PageEnd)
    /\ cursor' = IF PageEnd > cursor THEN PageEnd ELSE cursor
    /\ pages' = pages + 1
    /\ place' = IF PageEnd < cursor + PageSize \/ pages' = MaxPages THEN "storing" ELSE "paging"
    /\ UNCHANGED <<seen, serverVars, storeVars>>

EndCycle == place' = "idle" /\ seen' = 0 /\ cursor' = 0 /\ batch' = <<>> /\ pages' = 0

\* Another source answers, or nobody does: the cycle keeps nothing.  The
\* collector itself dies the same way, before it has stored anything.
Abandon ==
    /\ place # "idle"
    /\ EndCycle
    /\ UNCHANGED <<serverVars, storeVars>>

\* (mutant of AfterBatch) The cursor moves by a full page.
AfterFullPages == cursors[seen] + PageSize * pages

\* The id of the last record, where there is one.
AfterBatch == cursors[seen] + Len(batch)

\* Records and cursor are one transaction; INSERT OR IGNORE keeps what is there.
Store ==
    /\ place = "storing"
    /\ kept' = [kept EXCEPT ![seen] =
            @ \o SubSeq(batch, Len(@) - cursors[seen] + 1, Len(batch))]
    /\ cursors' = [cursors EXCEPT ![seen] = AfterBatch]
    /\ EndCycle
    /\ UNCHANGED serverVars

Next ==
    \/ Record \/ Backup \/ Restore
    \/ Begin \/ Page \/ Abandon \/ Store

Spec == Init /\ [][Next]_vars

-----------------------------------------------------------------------------
(* Properties                                                              *)

\* What the collector keeps of a stream is the log of that stream up to its
\* cursor, without a gap and without a record of another server in it, however
\* cycles fail and whenever the server is replaced (observer.py, collect;
\* backup.py, restore).
CopiesAreTheLog ==
    \A s \in Streams :
        /\ Len(kept[s]) = cursors[s]
        /\ IsPrefix(kept[s], truth[s])

=============================================================================
