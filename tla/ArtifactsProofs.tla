--------------------------- MODULE ArtifactsProofs ---------------------------
(***************************************************************************)
(* A published revision has its file, and what a finished task published   *)
(* stands: for any tasks, paths, contents and bounds, whatever sessions,   *)
(* cancellations and crashes do in the middle of a publication.            *)
(***************************************************************************)
EXTENDS Artifacts, TLAPS

Published == [task : Tasks, content : UNION {Contents[p] : p \in Paths}]
Data == UNION {Contents[p] : p \in Paths}
CallShapes ==
    {Idle} \cup [at : {"checked"}, path : Paths, data : Data]
           \cup [at : {"written"}, path : Paths, data : Data, rev : Nat]
           \cup [at : {"outputs", "drafts"}, ends : BOOLEAN]

Shapes ==
    /\ draft \in [Tasks -> [Paths -> Data \cup {NoDraft}]]
    /\ rows \in [Paths -> Seq(Published)]
    /\ stored \in [Paths -> Seq(Data)]
    /\ call \in [Tasks -> CallShapes]
    /\ session \in [Tasks -> {"none", "live", "finished"}]

\* A session inside publish holds the write lock from the file to the row, so the
\* number it took is still the next one.
Publishing(t) ==
    /\ call[t].at \in {"checked", "written"} =>
         \A u \in Tasks \ {t} : call[t].path \notin Declared[u]
    /\ call[t].at = "written" =>
         /\ lock = t
         /\ call[t].rev = Len(rows[call[t].path]) + 1
         /\ call[t].rev \in DOMAIN stored[call[t].path]
         /\ stored[call[t].path][call[t].rev] = call[t].data

\* What finish_task has looked at so far stays as it was found.
Ending(t) ==
    /\ call[t] # Idle => session[t] = "live"
    /\ call[t].at \in {"outputs", "drafts"} \/ session[t] = "finished" =>
         \A p \in Declared[t] : Mine(t, p)
    /\ call[t].at = "drafts" \/ session[t] = "finished" =>
         \A p \in Declared[t] : Unchanged(t, p)
    /\ session[t] = "finished" =>
         \A p \in Declared[t] : p \in Required => Last(rows[p]).content \in Conforming

StoreInv ==
    /\ Shapes
    /\ RowsHaveTheirFiles
    /\ \A t \in Tasks : Publishing(t) /\ Ending(t)

\* What the constants are: a plan gives each task paths, and nobody is no task.
PlanGiven == Declared \in [Tasks -> SUBSET Paths] /\ Nobody \notin Tasks

-----------------------------------------------------------------------------
LEMMA InitHolds == PlanGiven /\ Init => StoreInv
  <1> SUFFICES ASSUME PlanGiven, Init PROVE StoreInv
    OBVIOUS
  <1>1. Shapes
    <2>1. draft \in [Tasks -> [Paths -> Data \cup {NoDraft}]]
      BY DEF Init
    <2>3. call \in [Tasks -> {Idle}] /\ session \in [Tasks -> {"none"}]
      BY DEF Init
    <2>4. <<>> \in Seq(Published) /\ <<>> \in Seq(Data)
      OBVIOUS
    <2>5. rows \in [Paths -> Seq(Published)] /\ stored \in [Paths -> Seq(Data)]
      BY <2>4 DEF Init
    <2>6. call \in [Tasks -> CallShapes]
      BY <2>3 DEF CallShapes
    <2> QED BY <2>1, <2>3, <2>5, <2>6 DEF Shapes
  <1>2. RowsHaveTheirFiles
    BY DEF Init, RowsHaveTheirFiles
  <1>3. \A t \in Tasks : Publishing(t) /\ Ending(t)
    BY DEF Init, Publishing, Ending, Idle
  <1> QED BY <1>1, <1>2, <1>3 DEF StoreInv

\* A session whose paths a step leaves alone keeps its part.
LEMMA OthersKeep ==
    ASSUME PlanGiven, StoreInv, NEW t \in Tasks,
           call'[t] = call[t], session'[t] = session[t], draft'[t] = draft[t],
           call[t].at = "written" => UNCHANGED <<lock, rows, stored>>,
           \A p \in Declared[t] : rows'[p] = rows[p]
    PROVE  Publishing(t)' /\ Ending(t)'
  <1>1. \A p \in Declared[t] : /\ Mine(t, p)' <=> Mine(t, p)
                               /\ Unchanged(t, p)' <=> Unchanged(t, p)
                               /\ Last(rows'[p]) = Last(rows[p])
    BY DEF Mine, Unchanged, Last
  <1>2. Publishing(t)'
    BY DEF StoreInv, Publishing
  <1>3. Ending(t)'
    BY <1>1 DEF StoreInv, Ending
  <1> QED BY <1>2, <1>3

-----------------------------------------------------------------------------
(* Publication                                                             *)

LEMMA CheckKeeps ==
    ASSUME PlanGiven, StoreInv, NEW t \in Tasks, NEW p \in Paths, PublishCheck(t, p)
    PROVE  StoreInv'
  <1> DEFINE next == [at |-> "checked", path |-> p, data |-> draft[t][p]]
  <1>1. next \in CallShapes /\ next.at = "checked" /\ next.path = p /\ next # Idle
    BY DEF PublishCheck, StoreInv, Shapes, CallShapes, Idle
  <1>2. /\ call' = [call EXCEPT ![t] = next] /\ UNCHANGED <<draft, rows, stored, lock, session>>
        /\ session[t] = "live" /\ \A u \in Tasks \ {t} : p \notin Declared[u]
    BY DEF PublishCheck, Goes, Ready, OwnedByOther
  <1> HIDE DEF next
  <1>3. Shapes'
    BY <1>1, <1>2 DEF StoreInv, Shapes
  <1>4. RowsHaveTheirFiles'
    BY <1>2 DEF StoreInv, RowsHaveTheirFiles
  <1>5. Publishing(t)' /\ Ending(t)'
    BY <1>1, <1>2 DEF StoreInv, Shapes, Publishing, Ending
  <1>6. \A u \in Tasks \ {t} : Publishing(u)' /\ Ending(u)'
    BY <1>2, OthersKeep DEF StoreInv, Shapes
  <1> QED BY <1>3, <1>4, <1>5, <1>6 DEF StoreInv

\* The number is the next one, so the file replaces one without a row or is appended
\* right behind the files of the rows.
LEMMA PlacedBehindTheRows ==
    ASSUME NEW files \in Seq(Data), NEW data \in Data, NEW m \in Nat, m <= Len(files)
    PROVE  /\ Placed(files, m + 1, data) \in Seq(Data)
           /\ m + 1 \in DOMAIN Placed(files, m + 1, data)
           /\ Placed(files, m + 1, data)[m + 1] = data
           /\ \A i \in 1..m : /\ i \in DOMAIN Placed(files, m + 1, data)
                              /\ Placed(files, m + 1, data)[i] = files[i]
  <1>1. CASE m + 1 \in DOMAIN files
    BY <1>1 DEF Placed
  <1>2. CASE m + 1 \notin DOMAIN files
    <2>1. m = Len(files)
      BY <1>2
    <2> QED BY <1>2, <2>1 DEF Placed
  <1> QED BY <1>1, <1>2

LEMMA WriteKeeps ==
    ASSUME PlanGiven, StoreInv, NEW t \in Tasks, PublishWrite(t)
    PROVE  StoreInv'
  <1> DEFINE p == call[t].path
             m == Len(rows[p])
             next == [at |-> "written", path |-> p, data |-> call[t].data, rev |-> m + 1]
             files == Placed(stored[p], m + 1, call[t].data)
  <1>1. p \in Paths /\ call[t].data \in Data /\ call[t].at = "checked"
    BY DEF PublishWrite, StoreInv, Shapes, CallShapes, Idle
  <1>2. m \in Nat /\ m <= Len(stored[p]) /\ stored[p] \in Seq(Data)
    <2>1. m \in Nat /\ stored[p] \in Seq(Data) /\ rows[p] \in Seq(Published)
      BY <1>1 DEF StoreInv, Shapes
    <2>2. m # 0 => m \in DOMAIN stored[p]
      BY <1>1, <2>1 DEF StoreInv, RowsHaveTheirFiles
    <2> QED BY <2>1, <2>2
  <1>3. /\ files \in Seq(Data) /\ m + 1 \in DOMAIN files /\ files[m + 1] = call[t].data
        /\ \A i \in 1..m : i \in DOMAIN files /\ files[i] = stored[p][i]
    <2> DEFINE data == call[t].data
               old == stored[p]
    <2>1. old \in Seq(Data) /\ data \in Data /\ m \in Nat /\ m <= Len(old)
      BY <1>1, <1>2
    <2> HIDE DEF data, old, m
    <2>2. /\ Placed(old, m + 1, data) \in Seq(Data)
          /\ m + 1 \in DOMAIN Placed(old, m + 1, data)
          /\ Placed(old, m + 1, data)[m + 1] = data
          /\ \A i \in 1..m : /\ i \in DOMAIN Placed(old, m + 1, data)
                             /\ Placed(old, m + 1, data)[i] = old[i]
      BY <2>1, PlacedBehindTheRows, Zenon
    <2> QED BY <2>2 DEF data, old, m
  <1>4. /\ next \in CallShapes /\ next.at = "written" /\ next.path = p
        /\ next.data = call[t].data /\ next.rev = m + 1 /\ next # Idle
    BY <1>1, <1>2 DEF CallShapes, Idle
  <1>5. /\ call' = [call EXCEPT ![t] = next] /\ stored' = [stored EXCEPT ![p] = files]
        /\ UNCHANGED <<draft, rows, session>> /\ lock = Nobody /\ lock' = t
    BY DEF PublishWrite, Goes
  <1>6. \A u \in Tasks : call[u].at # "written"
    BY <1>5 DEF StoreInv, Publishing, PlanGiven
  <1>7. \A u \in Tasks \ {t} : p \notin Declared[u]
    BY <1>1 DEF StoreInv, Publishing
  <1>8. session[t] = "live" /\ call'[t] = next
    BY <1>1, <1>5 DEF StoreInv, Shapes, Ending, Idle
  <1>9. stored'[p] = files
    BY <1>1, <1>5 DEF StoreInv, Shapes
  <1> HIDE DEF next, files
  <1>10. Shapes'
    BY <1>1, <1>3, <1>4, <1>5 DEF StoreInv, Shapes
  <1>11. RowsHaveTheirFiles'
    <2>1. ASSUME NEW q \in Paths, NEW n \in DOMAIN rows[q]
          PROVE  n \in DOMAIN stored'[q] /\ stored'[q][n] = rows[q][n].content
      <3>1. n \in DOMAIN stored[q] /\ stored[q][n] = rows[q][n].content
        BY DEF StoreInv, RowsHaveTheirFiles
      <3>2. CASE q = p
        <4>1. n \in 1..m
          BY <3>2 DEF StoreInv, Shapes
        <4> QED BY <1>3, <1>9, <3>1, <3>2, <4>1
      <3>3. CASE q # p
        <4>1. stored'[q] = stored[q]
          BY <1>5, <3>3 DEF StoreInv, Shapes
        <4> QED BY <3>1, <4>1
      <3> QED BY <3>2, <3>3
    <2> QED BY <1>5, <2>1 DEF RowsHaveTheirFiles
  <1>12. Publishing(t)' /\ Ending(t)'
    BY <1>3, <1>4, <1>5, <1>7, <1>8, <1>9 DEF Publishing, Ending
  <1>13. \A u \in Tasks \ {t} : Publishing(u)' /\ Ending(u)'
    BY <1>5, <1>6, OthersKeep DEF StoreInv, Shapes
  <1> QED BY <1>10, <1>11, <1>12, <1>13 DEF StoreInv

\* The row of a written file, if it is the one to be inserted: of t, behind the others.
LEMMA RowIsTheFiles ==
    ASSUME PlanGiven, StoreInv, NEW t \in Tasks, call[t].at = "written",
           rows' = RowsWith(t), stored' = stored
    PROVE  /\ rows' \in [Paths -> Seq(Published)]
           /\ RowsHaveTheirFiles'
           /\ \A u \in Tasks \ {t} : \A q \in Declared[u] : rows'[q] = rows[q]
  <1> DEFINE p == call[t].path
             m == Len(rows[p])
             row == [task |-> t, content |-> call[t].data]
  <1>1. /\ p \in Paths /\ call[t].data \in Data /\ call[t].rev = m + 1
        /\ m + 1 \in DOMAIN stored[p] /\ stored[p][m + 1] = call[t].data
        /\ \A u \in Tasks \ {t} : p \notin Declared[u]
    BY DEF StoreInv, Shapes, CallShapes, Idle, Publishing
  <1>2. rows' = [rows EXCEPT ![p] = Append(@, row)]
    BY <1>1 DEF RowsWith
  <1>3. row \in Published /\ row.content = call[t].data
    BY <1>1 DEF Published, Data
  <1> HIDE DEF row
  <1>4. rows[p] \in Seq(Published) /\ m \in Nat
    BY <1>1 DEF StoreInv, Shapes
  <1>5. rows'[p] = Append(rows[p], row) /\ \A q \in Paths \ {p} : rows'[q] = rows[q]
    BY <1>1, <1>2 DEF StoreInv, Shapes
  <1>6. rows' \in [Paths -> Seq(Published)]
    <2>1. Append(rows[p], row) \in Seq(Published)
      BY <1>3, <1>4
    <2>2. rows \in [Paths -> Seq(Published)]
      BY DEF StoreInv, Shapes
    <2> QED BY <1>2, <2>1, <2>2
  <1>7. ASSUME NEW q \in Paths, NEW n \in DOMAIN rows'[q]
        PROVE  n \in DOMAIN stored[q] /\ stored[q][n] = rows'[q][n].content
    <2>1. CASE q # p
      BY <1>5, <2>1 DEF StoreInv, RowsHaveTheirFiles
    <2>2. CASE q = p /\ n \in 1..m
      <3>1. rows'[q][n] = rows[q][n] /\ n \in DOMAIN rows[q]
        BY <1>3, <1>4, <1>5, <2>2
      <3> QED BY <3>1 DEF StoreInv, RowsHaveTheirFiles
    <2>3. CASE q = p /\ n = m + 1
      <3>1. rows'[q][n] = row
        BY <1>3, <1>4, <1>5, <2>3
      <3> QED BY <1>1, <1>3, <2>3, <3>1
    <2>4. q = p => n \in 1..m \/ n = m + 1
      BY <1>3, <1>4, <1>5
    <2> QED BY <2>1, <2>2, <2>3, <2>4
  <1>8. ASSUME NEW u \in Tasks \ {t}, NEW q \in Declared[u] PROVE rows'[q] = rows[q]
    <2>1. q \in Paths \ {p}
      BY <1>1 DEF PlanGiven
    <2> QED BY <1>5, <2>1
  <1> QED BY <1>6, <1>7, <1>8 DEF RowsHaveTheirFiles

\* A session that is done with its call, with its row inserted or not.
LEMMA InsertKeeps ==
    ASSUME PlanGiven, StoreInv, NEW t \in Tasks, PublishInsert(t) \/ Cancel(t)
    PROVE  StoreInv'
  <1>1. /\ call' = [call EXCEPT ![t] = Idle] /\ stored' = stored /\ draft' = draft
        /\ session' \in {session, [session EXCEPT ![t] = "none"]}
        /\ session'[t] # "finished"
        /\ lock' = IF lock = t THEN Nobody ELSE lock
        /\ rows' = rows \/ (call[t].at = "written" /\ rows' = RowsWith(t))
    <2>1. session[t] = "live"
      BY DEF PublishInsert, Cancel, StoreInv, Ending, Idle
    <2> QED BY <2>1 DEF PublishInsert, Cancel, Goes, Release, StoreInv, Shapes
  <1>2. /\ rows' \in [Paths -> Seq(Published)]
        /\ RowsHaveTheirFiles'
        /\ \A u \in Tasks \ {t} : \A q \in Declared[u] : rows'[q] = rows[q]
    <2>1. CASE rows' = rows
      BY <1>1, <2>1 DEF StoreInv, Shapes, RowsHaveTheirFiles
    <2>2. CASE call[t].at = "written" /\ rows' = RowsWith(t)
      BY <1>1, <2>2, RowIsTheFiles
    <2> QED BY <1>1, <2>1, <2>2
  <1>3. Shapes'
    BY <1>1, <1>2 DEF StoreInv, Shapes, CallShapes
  <1>4. Publishing(t)' /\ Ending(t)'
    BY <1>1 DEF Publishing, Ending, Idle, StoreInv, Shapes
  <1>5. ASSUME NEW u \in Tasks \ {t} PROVE Publishing(u)' /\ Ending(u)'
    <2>1. call'[u] = call[u] /\ session'[u] = session[u] /\ draft'[u] = draft[u]
      BY <1>1 DEF StoreInv, Shapes
    <2>2. call[u].at = "written" => UNCHANGED <<lock, rows, stored>>
      BY <1>1 DEF StoreInv, Publishing
    <2> QED BY <1>2, <2>1, <2>2, OthersKeep
  <1> QED BY <1>2, <1>3, <1>4, <1>5 DEF StoreInv

-----------------------------------------------------------------------------
(* Workspaces, finish_task and the end of sessions                         *)

LEMMA DraftKeeps ==
    ASSUME PlanGiven, StoreInv, NEW t \in Tasks, NEW p \in Paths, NEW c \in Contents[p],
           Write(t, p, c)
    PROVE  StoreInv'
  <1>1. c \in Data
    BY DEF Data
  <1>2. /\ draft' = [draft EXCEPT ![t][p] = c] /\ UNCHANGED <<rows, stored, lock, call, session>>
        /\ call[t] = Idle /\ session[t] = "live"
    BY DEF Write, Ready
  <1>3. Shapes'
    BY <1>1, <1>2 DEF StoreInv, Shapes
  <1>4. Publishing(t)' /\ Ending(t)'
    BY <1>2 DEF Publishing, Ending, Idle
  <1>5. \A u \in Tasks \ {t} : Publishing(u)' /\ Ending(u)'
    BY <1>2, OthersKeep DEF StoreInv, Shapes
  <1> QED BY <1>2, <1>3, <1>4, <1>5 DEF StoreInv, RowsHaveTheirFiles

LEMMA SessionKeeps ==
    ASSUME PlanGiven, StoreInv, NEW t \in Tasks,
           Start(t) \/ FinishOutputs(t) \/ AutoFinish(t) \/ FinishDrafts(t) \/ FinishDelivery(t)
    PROVE  StoreInv'
  <1>1. UNCHANGED <<draft, rows, stored, lock>>
    BY DEF Start, FinishOutputs, AutoFinish, FinishDrafts, FinishDelivery
  <1>2. RowsHaveTheirFiles'
    BY <1>1 DEF StoreInv, RowsHaveTheirFiles
  <1>3. \A u \in Tasks \ {t} : call'[u] = call[u] /\ session'[u] = session[u]
    BY DEF Start, FinishOutputs, AutoFinish, FinishDrafts, FinishDelivery, Goes, Refused,
           StoreInv, Shapes
  <1>4. \A u \in Tasks \ {t} : Publishing(u)' /\ Ending(u)'
    BY <1>1, <1>3, OthersKeep
  <1>5. \A p \in Declared[t] : /\ Mine(t, p)' <=> Mine(t, p)
                               /\ Unchanged(t, p)' <=> Unchanged(t, p)
    BY <1>1 DEF Mine, Unchanged
  <1>6. ASSUME NEW c \in CallShapes, call' = [call EXCEPT ![t] = c],
               NEW s \in {"none", "live", "finished"}, session' = [session EXCEPT ![t] = s],
               c.at \notin {"checked", "written"}, c # Idle => s = "live",
               c.at \in {"outputs", "drafts"} \/ s = "finished" => \A p \in Declared[t] : Mine(t, p),
               c.at = "drafts" \/ s = "finished" => \A p \in Declared[t] : Unchanged(t, p),
               s = "finished" =>
                 \A p \in Declared[t] : p \in Required => Last(rows[p]).content \in Conforming
        PROVE  StoreInv'
    <2>1. Shapes' /\ call'[t] = c /\ session'[t] = s
      BY <1>1, <1>6 DEF StoreInv, Shapes
    <2>2. Publishing(t)' /\ Ending(t)'
      BY <1>1, <1>5, <1>6, <2>1 DEF Publishing, Ending
    <2> QED BY <1>2, <1>4, <2>1, <2>2 DEF StoreInv
  <1>7. Idle \in CallShapes /\ Idle.at = "idle"
    BY DEF CallShapes, Idle
  <1>8. session \in [Tasks -> {"none", "live", "finished"}] /\ call \in [Tasks -> CallShapes]
    BY DEF StoreInv, Shapes
  <1>9. CASE Start(t)
    <2>1. call[t] = Idle /\ call' = [call EXCEPT ![t] = Idle]
      BY <1>8, <1>9 DEF Start, StoreInv, Ending
    <2> QED BY <1>6, <1>7, <1>9, <2>1 DEF Start
  <1>10. CASE FinishOutputs(t) \/ AutoFinish(t)
    <2>1. PICK b \in BOOLEAN : call' = [call EXCEPT ![t] = [at |-> "outputs", ends |-> b]]
      BY <1>10 DEF FinishOutputs, AutoFinish, Goes
    <2>2. session[t] = "live" /\ session' = [session EXCEPT ![t] = "live"]
      BY <1>8, <1>10 DEF FinishOutputs, AutoFinish, Ready
    <2>3. \A p \in Declared[t] : Mine(t, p)
      BY <1>10 DEF FinishOutputs, AutoFinish
    <2>4. [at |-> "outputs", ends |-> b] \in CallShapes
      BY DEF CallShapes
    <2> QED BY <1>6, <2>1, <2>2, <2>3, <2>4
  <1>11. ASSUME Refused(t), session[t] = "live" PROVE StoreInv'
    <2>1. PICK s \in {"none", "live"} : session' = [session EXCEPT ![t] = s]
      BY <1>8, <1>11 DEF Refused
    <2> QED BY <1>6, <1>7, <1>11, <2>1 DEF Refused, Goes
  <1>12. CASE FinishDrafts(t)
    <2>1. /\ call[t].at = "outputs" /\ call[t] # Idle /\ session[t] = "live"
          /\ \A p \in Declared[t] : Mine(t, p)
      BY <1>12 DEF FinishDrafts, StoreInv, Ending, Idle
    <2>2. CASE \A p \in Paths : Mine(t, p) => Unchanged(t, p)
      <3>1. PICK b \in BOOLEAN : call[t] = [at |-> "outputs", ends |-> b]
        BY <1>8, <2>1 DEF CallShapes, Idle
      <3>2. call' = [call EXCEPT ![t] = [at |-> "drafts", ends |-> b]]
        BY <1>12, <2>2, <3>1 DEF FinishDrafts, Goes
      <3>3. [at |-> "drafts", ends |-> b] \in CallShapes
        BY DEF CallShapes
      <3>4. session' = [session EXCEPT ![t] = "live"]
        BY <1>8, <1>12, <2>1, <2>2 DEF FinishDrafts
      <3>5. \A p \in Declared[t] : Unchanged(t, p)
        BY <2>1, <2>2 DEF PlanGiven
      <3> QED BY <1>6, <2>1, <3>2, <3>3, <3>4, <3>5
    <2>3. CASE ~(\A p \in Paths : Mine(t, p) => Unchanged(t, p))
      BY <1>11, <1>12, <2>1, <2>3 DEF FinishDrafts
    <2> QED BY <2>2, <2>3
  <1>13. CASE FinishDelivery(t)
    <2>1. /\ call[t].at = "drafts" /\ session[t] = "live"
          /\ \A p \in Declared[t] : Mine(t, p) /\ Unchanged(t, p)
      BY <1>13 DEF FinishDelivery, StoreInv, Ending, Idle
    <2>2. CASE \A p \in Required : Mine(t, p) => Delivers(p)
      <3>1. ASSUME NEW p \in Declared[t], p \in Required
            PROVE  Last(rows[p]).content \in Conforming
        <4>1. p \in Paths /\ rows[p] # <<>> /\ Delivers(p)
          BY <2>1, <2>2, <3>1 DEF PlanGiven, Mine
        <4>2. Len(rows[p]) \in DOMAIN rows[p]
          BY <4>1 DEF StoreInv, Shapes
        <4> QED BY <4>1, <4>2 DEF StoreInv, RowsHaveTheirFiles, Delivers, Last
      <3> QED BY <1>6, <1>7, <1>13, <2>1, <2>2, <3>1 DEF FinishDelivery, Goes
    <2>3. CASE ~(\A p \in Required : Mine(t, p) => Delivers(p))
      BY <1>11, <1>13, <2>1, <2>3 DEF FinishDelivery
    <2> QED BY <2>2, <2>3
  <1> QED BY <1>9, <1>10, <1>12, <1>13

LEMMA CrashKeeps ==
    ASSUME PlanGiven, StoreInv, Crash
    PROVE  StoreInv'
  <1>1. /\ UNCHANGED <<draft, rows, stored>> /\ call' = [t \in Tasks |-> Idle]
        /\ session' = [t \in Tasks |-> IF session[t] = "live" THEN "none" ELSE session[t]]
    BY DEF Crash
  <1>2. Shapes'
    BY <1>1 DEF StoreInv, Shapes, CallShapes
  <1>3. \A t \in Tasks : Publishing(t)'
    BY <1>1 DEF Publishing, Idle
  <1>4. ASSUME NEW t \in Tasks PROVE Ending(t)'
    <2>1. session'[t] = "finished" => session[t] = "finished"
      BY <1>1 DEF StoreInv, Shapes
    <2>2. \A p \in Declared[t] : (Mine(t, p)' <=> Mine(t, p)) /\ (Unchanged(t, p)' <=> Unchanged(t, p))
      BY <1>1 DEF Mine, Unchanged
    <2> QED BY <1>1, <2>1, <2>2 DEF StoreInv, Ending, Idle
  <1> QED BY <1>1, <1>2, <1>3, <1>4 DEF StoreInv, RowsHaveTheirFiles

LEMMA StepKeeps ==
    ASSUME PlanGiven, StoreInv, [Next]_vars
    PROVE  StoreInv'
  <1>1. CASE UNCHANGED vars \/ Finish
    <2>1. UNCHANGED <<draft, rows, stored, lock, call, session>>
      BY <1>1 DEF vars, Finish
    <2>2. \A t \in Tasks : Publishing(t)' /\ Ending(t)'
      BY <2>1, OthersKeep
    <2> QED BY <2>1, <2>2 DEF StoreInv, Shapes, RowsHaveTheirFiles
  <1> QED BY <1>1, CheckKeeps, WriteKeeps, InsertKeeps, DraftKeeps, SessionKeeps, CrashKeeps DEF Next

\* The inductive invariant holds in every run.
THEOREM StoreInvariant ==
    ASSUME PlanGiven
    PROVE  Spec => []StoreInv
  <1>1. Init => StoreInv
    BY InitHolds
  <1>2. StoreInv /\ [Next]_vars => StoreInv'
    BY StepKeeps
  <1> QED BY <1>1, <1>2, PTL DEF Spec

\* The file of every published revision holds what was published under its number,
\* whatever stops a publication half-way (store/artifact_store.py, publish).
THEOREM PublishedRevisionsHaveTheirFiles ==
    ASSUME PlanGiven
    PROVE  Spec => []RowsHaveTheirFiles
  <1>1. StoreInv => RowsHaveTheirFiles
    BY DEF StoreInv
  <1> QED BY StoreInvariant, <1>1, PTL

\* What a finished task declared is published by it, is what its workspace holds and
\* meets the requester's requirement (runtime/tools.py, finish_task).
THEOREM FinishedOutputsAreKept ==
    ASSUME PlanGiven
    PROVE  Spec => []FinishedOutputsStand
  <1>1. StoreInv => FinishedOutputsStand
    BY DEF StoreInv, Ending, FinishedOutputsStand, Unchanged
  <1> QED BY StoreInvariant, <1>1, PTL

-----------------------------------------------------------------------------
(* Types                                                                   *)

\* The bounds are numbers.
BoundsGiven == {MaxRevisions, MaxSessions, MaxCrashes} \subseteq Nat

\* What a path holds, in a workspace, on its way and in the store, is content of that path.
ContentsOK ==
    /\ \A t \in Tasks, p \in Paths : draft[t][p] \in Contents[p] \cup {NoDraft}
    /\ \A t \in Tasks : call[t].at \in {"checked", "written"} =>
                           call[t].data \in Contents[call[t].path]
    /\ \A p \in Paths : \A i \in DOMAIN rows[p] : rows[p][i].content \in Contents[p]
LimitsOK ==
    /\ \A p \in Paths : Len(stored[p]) <= MaxRevisions
    /\ lock \in Tasks \cup {Nobody}
    /\ sessions \in [Tasks -> 0..MaxSessions]
    /\ outcome \in {"none", "completed", "partial"} /\ crashes \in 0..MaxCrashes

\* A publication is of one path.
LEMMA CallPath ==
    ASSUME StoreInv, NEW t \in Tasks, call[t].at \in {"checked", "written"}
    PROVE  call[t].path \in Paths /\ call[t].data \in Data
  <1>1. call[t] \in CallShapes
    BY DEF StoreInv, Shapes
  <1>2. call[t] # Idle /\ call[t] \notin [at : {"outputs", "drafts"}, ends : BOOLEAN]
    BY DEF Idle
  <1> QED BY <1>1, <1>2 DEF CallShapes

\* What a session publishes is content of its path.
LEMMA RowsContents ==
    ASSUME StoreInv, ContentsOK, NEW t \in Tasks, call[t].at = "written", rows' = RowsWith(t)
    PROVE  \A p \in Paths : \A i \in DOMAIN rows'[p] : rows'[p][i].content \in Contents[p]
  <1>1. PICK q \in Paths : q = call[t].path
    BY CallPath
  <1>2. PICK row : row = [task |-> t, content |-> call[t].data]
    OBVIOUS
  <1>3. row \in Published /\ row.content \in Contents[q]
    BY <1>1, <1>2 DEF ContentsOK, Published
  <1>4. rows \in [Paths -> Seq(Published)]
    BY DEF StoreInv, Shapes
  <1>5. rows' \in {rows, [rows EXCEPT ![q] = Append(rows[q], row)]}
    BY <1>1, <1>2 DEF RowsWith
  <1>6. ASSUME NEW i \in DOMAIN Append(rows[q], row)
        PROVE  Append(rows[q], row)[i].content \in Contents[q]
    <2>1. rows[q] \in Seq(Published)
      BY <1>4
    <2>2. \/ i \in DOMAIN rows[q] /\ Append(rows[q], row)[i] = rows[q][i]
          \/ Append(rows[q], row)[i] = row
      BY <1>3, <2>1
    <2> QED BY <1>3, <2>2 DEF ContentsOK
  <1> QED BY <1>4, <1>5, <1>6 DEF ContentsOK

\* Every step keeps it.
LEMMA ContentsKeep ==
    ASSUME PlanGiven, StoreInv, ContentsOK, [Next]_vars
    PROVE  ContentsOK'
  <1>0. /\ call \in [Tasks -> CallShapes] /\ \A p \in Paths : Contents[p] \subseteq Data
        /\ draft \in [Tasks -> [Paths -> Data \cup {NoDraft}]]
    BY DEF StoreInv, Shapes, Data
  <1>1. ASSUME UNCHANGED <<draft, rows>>, NEW t \in Tasks, NEW c, call' = [call EXCEPT ![t] = c],
               c.at \in {"checked", "written"} => c.data \in Contents[c.path]
        PROVE  ContentsOK'
    BY <1>0, <1>1 DEF ContentsOK
  <1>2. CASE UNCHANGED <<draft, rows, call>>
    BY <1>2 DEF ContentsOK
  <1>3. ASSUME NEW t \in Tasks, NEW p \in Paths, NEW c \in Contents[p], Write(t, p, c)
        PROVE  ContentsOK'
    <2>1. UNCHANGED <<rows, call>> /\ draft' = [draft EXCEPT ![t][p] = c]
      BY <1>3 DEF Write
    <2>2. \A u \in Tasks, q \in Paths :
             draft'[u][q] = draft[u][q] \/ (draft'[u][q] = c /\ q = p)
      BY <1>0, <2>1
    <2>3. \A u \in Tasks, q \in Paths : draft'[u][q] \in Contents[q] \cup {NoDraft}
      BY <2>2 DEF ContentsOK
    <2> QED BY <2>1, <2>3 DEF ContentsOK
  <1>4. ASSUME NEW t \in Tasks, NEW p \in Paths, PublishCheck(t, p) PROVE ContentsOK'
    <2>1. draft[t][p] \in Contents[p]
      BY <1>4 DEF PublishCheck, ContentsOK
    <2>2. call' = [call EXCEPT ![t] = [at |-> "checked", path |-> p, data |-> draft[t][p]]]
      BY <1>4 DEF PublishCheck, Goes
    <2> QED BY <1>1, <1>4, <2>1, <2>2 DEF PublishCheck
  <1>5. ASSUME NEW t \in Tasks, PublishWrite(t) PROVE ContentsOK'
    <2>1. PICK n : call' = [call EXCEPT ![t] = [at |-> "written", path |-> call[t].path,
                                                data |-> call[t].data, rev |-> n]]
      BY <1>5 DEF PublishWrite, Goes
    <2>2. call[t].data \in Contents[call[t].path]
      BY <1>5 DEF PublishWrite, ContentsOK
    <2> QED BY <1>1, <1>5, <2>1, <2>2 DEF PublishWrite
  <1>6. ASSUME NEW t \in Tasks, PublishInsert(t) \/ Cancel(t) PROVE ContentsOK'
    <2>1. draft' = draft /\ call' = [call EXCEPT ![t] = Idle]
      BY <1>6 DEF PublishInsert, Cancel, Goes
    <2>2. rows' = rows \/ (call[t].at = "written" /\ rows' = RowsWith(t))
      BY <1>6 DEF PublishInsert, Cancel
    <2>3. \A p \in Paths : \A i \in DOMAIN rows'[p] : rows'[p][i].content \in Contents[p]
      <3>1. CASE rows' = rows
        BY <3>1 DEF ContentsOK
      <3> QED BY <2>2, <3>1, RowsContents
    <2>4. \A u \in Tasks : call'[u].at \in {"checked", "written"} =>
                             call'[u].data \in Contents[call'[u].path]
      BY <1>0, <2>1 DEF ContentsOK, Idle
    <2> QED BY <2>1, <2>3, <2>4 DEF ContentsOK
  <1>7. ASSUME NEW t \in Tasks, FinishOutputs(t) \/ AutoFinish(t) \/ FinishDrafts(t)
                                \/ FinishDelivery(t)
        PROVE  ContentsOK'
    <2>1. UNCHANGED <<draft, rows>>
      BY <1>7 DEF FinishOutputs, AutoFinish, FinishDrafts, FinishDelivery
    <2>2. PICK c : call' = [call EXCEPT ![t] = c] /\ c.at \notin {"checked", "written"}
      <3>1. CASE FinishOutputs(t) \/ AutoFinish(t)
        <4>1. PICK b \in BOOLEAN : call' = [call EXCEPT ![t] = [at |-> "outputs", ends |-> b]]
          BY <3>1 DEF FinishOutputs, AutoFinish, Goes
        <4>2. [at |-> "outputs", ends |-> b].at = "outputs"
          OBVIOUS
        <4> QED BY <4>1, <4>2
      <3>2. CASE FinishDelivery(t)
        BY <3>2 DEF FinishDelivery, Goes, Refused, Idle
      <3>3. CASE FinishDrafts(t)
        <4>1. call[t] \in [at : {"outputs", "drafts"}, ends : BOOLEAN]
          BY <1>0, <3>3 DEF FinishDrafts, CallShapes, Idle
        <4>2. call' = [call EXCEPT ![t] = Idle]
              \/ call' = [call EXCEPT ![t] = [call[t] EXCEPT !.at = "drafts"]]
          BY <3>3 DEF FinishDrafts, Goes, Refused
        <4>3. [call[t] EXCEPT !.at = "drafts"].at = "drafts" /\ Idle.at = "idle"
          BY <4>1 DEF Idle
        <4> QED BY <4>2, <4>3
      <3> QED BY <1>7, <3>1, <3>2, <3>3
    <2> QED BY <1>1, <2>1, <2>2
  <1>8. CASE Crash
    BY <1>8 DEF Crash, ContentsOK, Idle
  <1>9. CASE Finish \/ UNCHANGED vars \/ \E t \in Tasks : Start(t)
    BY <1>2, <1>9 DEF Finish, vars, Start
  <1> QED BY <1>3, <1>4, <1>5, <1>6, <1>7, <1>8, <1>9 DEF Next

\* A file is added behind the rows only, and every other counter looks at its bound.
LEMMA LimitsKeep ==
    ASSUME PlanGiven, BoundsGiven, StoreInv, LimitsOK, [Next]_vars
    PROVE  LimitsOK'
  <1>1. CASE UNCHANGED <<stored, lock, sessions, outcome, crashes>>
    BY <1>1 DEF LimitsOK
  <1>2. ASSUME NEW t \in Tasks, Start(t) PROVE LimitsOK'
    <2>1. sessions' = [sessions EXCEPT ![t] = sessions[t] + 1] /\ sessions[t] < MaxSessions
      BY <1>2 DEF Start
    <2>2. sessions' \in [Tasks -> 0..MaxSessions]
      BY <2>1 DEF LimitsOK, BoundsGiven
    <2> QED BY <1>2, <2>2 DEF Start, LimitsOK
  <1>3. ASSUME NEW t \in Tasks, PublishWrite(t) PROVE LimitsOK'
    <2>1. PICK p \in Paths : p = call[t].path
      BY <1>3, CallPath DEF PublishWrite
    <2>2. PICK n : n = Len(rows[p]) + 1
      OBVIOUS
    <2>3. n <= MaxRevisions /\ stored' = [stored EXCEPT ![p] = Placed(stored[p], n, call[t].data)]
      BY <1>3, <2>1, <2>2 DEF PublishWrite
    <2>4. /\ rows[p] \in Seq(Published) /\ stored[p] \in Seq(Data) /\ stored \in [Paths -> Seq(Data)]
          /\ call[t].data \in Data
      BY <1>3, <2>1, CallPath DEF PublishWrite, StoreInv, Shapes
    <2>5. \A i \in DOMAIN rows[p] : i \in DOMAIN stored[p]
      BY DEF StoreInv, RowsHaveTheirFiles
    <2>6. Len(Placed(stored[p], n, call[t].data)) <= MaxRevisions
      <3>1. CASE n \in DOMAIN stored[p]
        <4>1. Placed(stored[p], n, call[t].data) = [stored[p] EXCEPT ![n] = call[t].data]
          BY <3>1 DEF Placed
        <4>2. Len([stored[p] EXCEPT ![n] = call[t].data]) = Len(stored[p])
          BY <2>4, <3>1
        <4> QED BY <4>1, <4>2 DEF LimitsOK
      <3>2. CASE n \notin DOMAIN stored[p]
        <4>1. Len(stored[p]) < n
          BY <2>2, <2>4, <3>2
        <4>2. Len(Append(stored[p], call[t].data)) = Len(stored[p]) + 1
          BY <2>4
        <4>3. Placed(stored[p], n, call[t].data) = Append(stored[p], call[t].data)
          BY <3>2 DEF Placed
        <4>4. Len(stored[p]) \in Nat /\ n \in Nat /\ MaxRevisions \in Nat
          BY <2>2, <2>4 DEF BoundsGiven
        <4> QED BY <2>3, <4>1, <4>2, <4>3, <4>4
      <3> QED BY <3>1, <3>2
    <2>7. \A q \in Paths : Len(stored'[q]) <= MaxRevisions
      BY <2>3, <2>4, <2>6 DEF LimitsOK
    <2> QED BY <1>3, <2>7 DEF PublishWrite, LimitsOK
  <1>4. ASSUME NEW t \in Tasks, PublishInsert(t) \/ Cancel(t) PROVE LimitsOK'
    BY <1>4 DEF PublishInsert, Cancel, Release, LimitsOK
  <1>5. CASE Crash
    <2>1. crashes' \in 0..MaxCrashes
      BY <1>5 DEF Crash, LimitsOK, BoundsGiven
    <2> QED BY <1>5, <2>1 DEF Crash, LimitsOK
  <1>6. CASE Finish
    BY <1>6 DEF Finish, LimitsOK
  <1>7. CASE \/ UNCHANGED vars
             \/ \E t \in Tasks : \/ \E p \in Paths : \/ PublishCheck(t, p)
                                                     \/ \E c \in Contents[p] : Write(t, p, c)
                                 \/ FinishOutputs(t) \/ AutoFinish(t)
                                 \/ FinishDrafts(t) \/ FinishDelivery(t)
    BY <1>1, <1>7 DEF vars, PublishCheck, Write, FinishOutputs, AutoFinish, FinishDrafts,
       FinishDelivery
  <1> QED BY <1>2, <1>3, <1>4, <1>5, <1>6, <1>7 DEF Next

\* Workspaces, rows, files and sessions stay within their types.
THEOREM TypeCorrect ==
    ASSUME PlanGiven, BoundsGiven
    PROVE  Spec => []TypeOK
  <1>1. Init => ContentsOK /\ LimitsOK
    <2> SUFFICES ASSUME Init PROVE ContentsOK /\ LimitsOK
      OBVIOUS
    <2>1. \A p \in Paths : rows[p] = <<>> /\ stored[p] = <<>>
      BY DEF Init
    <2>2. \A p \in Paths : Len(stored[p]) = 0 /\ DOMAIN rows[p] = {}
      BY <2>1
    <2> QED BY <2>2 DEF Init, ContentsOK, LimitsOK, Idle, BoundsGiven
  <1>2. StoreInv /\ ContentsOK /\ LimitsOK /\ [Next]_vars => (ContentsOK /\ LimitsOK)'
    BY ContentsKeep, LimitsKeep
  <1>3. ASSUME StoreInv, ContentsOK, LimitsOK PROVE TypeOK
    <2>1. draft \in [Tasks -> [Paths -> (UNION {Contents[p] : p \in Paths}) \cup {NoDraft}]]
      BY <1>3 DEF StoreInv, Shapes, Data
    <2>2. ASSUME NEW p \in Paths, NEW i \in DOMAIN rows[p]
          PROVE  rows[p][i].task \in Tasks /\ rows[p][i].content \in Contents[p]
      <3>1. rows[p] \in Seq(Published)
        BY <1>3 DEF StoreInv, Shapes
      <3>2. rows[p][i] \in Published
        BY <3>1
      <3> QED BY <1>3, <3>2 DEF Published, ContentsOK
    <2>3. \A t \in Tasks : call[t].at \in {"idle", "checked", "written", "outputs", "drafts"}
      BY <1>3 DEF StoreInv, Shapes, CallShapes, Idle
    <2> QED BY <1>3, <2>1, <2>2, <2>3 DEF StoreInv, Shapes, LimitsOK, TypeOK
  <1> QED BY <1>1, <1>2, <1>3, StoreInvariant, PTL DEF Spec
=============================================================================
