---------------------------- MODULE PlansProofs ----------------------------
(***************************************************************************)
(* Every plan that runs ends in review; what its tasks report resolves in  *)
(* its run and in every fork; and a fork keeps nothing downstream of a task*)
(* it was asked to run again: for any number of tasks, rounds, revisions   *)
(* and forks.                                                              *)
(*                                                                         *)
(* The search for cycles and the passes over a plan are recursive functions.  That a recursive*)
(* definition on finitely many levels defines a function is shown here     *)
(* once, by induction on the levels at which a candidate goes wrong.       *)
(***************************************************************************)
EXTENDS AccessProofs

-----------------------------------------------------------------------------
(* Recursive functions and folds                                           *)

\* A finite set of numbers that is not empty has a greatest member.
LEMMA GreatestNumber ==
    ASSUME NEW s \in SUBSET Nat, IsFiniteSet(s), s # {}
    PROVE  \E x \in s : \A y \in s : x >= y
  <1> DEFINE Above(x) == {y \in s : y > x}
             F == {Above(x) : x \in s}
  <1>1. F # {} /\ \A a \in F : IsFiniteSet(a)
    <2>1. \A a \in F : a \in SUBSET s
      OBVIOUS
    <2>2. F # {}
      OBVIOUS
    <2> HIDE DEF F
    <2> QED BY <2>1, <2>2, FS_Subset
  <1>2. \A x \in s : Above(x) \in F
    OBVIOUS
  <1>3. \A a \in F : \E x \in s : a = Above(x)
    OBVIOUS
  <1> HIDE DEF F
  <1>4. PICK a \in F : \A b \in F : b \subseteq a => b = a
    BY <1>1, LeastSet
  <1>5. PICK x \in s : a = Above(x)
    BY <1>3
  <1>6. ASSUME NEW y \in s, y > x PROVE FALSE
    <2>1. \A z \in s : z > y => z > x
      BY <1>6
    <2>2. Above(y) \subseteq Above(x)
      BY <2>1
    <2>3. y \in Above(x) /\ y \notin Above(y)
      BY <1>6
    <2> HIDE DEF Above
    <2> QED BY <1>2, <1>4, <1>5, <2>2, <2>3
  <1> QED BY <1>6

\* A set X of functions on D, and on it a definition T: the value that T gives to an
\* argument depends on arguments of lower levels only.
Extensional(X, D) == \A v, w \in X : (\A d \in D : v[d] = w[d]) => v = w
LowerOnly(X, D, T, level) ==
    \A v, w \in X, d \in D :
       (\A e \in D : level[e] \subseteq level[d] /\ level[e] # level[d] => v[e] = w[e])
       => T[v][d] = T[w][d]
Mixing(X, D, W, level) ==
    \A v, w \in X, U \in SUBSET W : \E u \in X :
       \A d \in D : (level[d] = U => u[d] = w[d]) /\ (level[d] # U => u[d] = v[d])

\* The levels at or below which v does not obey T.
Wrong(v, T, D, W, level) ==
    {U \in SUBSET W : \E d \in D : level[d] \subseteq U /\ T[v][d] # v[d]}

\* A recursive definition on finitely many levels defines a function: a function that
\* obeys it as far as one can obeys it everywhere, since at a least level where it does
\* not it could be corrected without harm to the levels that are right.
LEMMA RecursionExists ==
    ASSUME NEW D, NEW X, X # {}, NEW T \in [X -> X], NEW W, IsFiniteSet(W),
           NEW level \in [D -> SUBSET W],
           Extensional(X, D), LowerOnly(X, D, T, level), Mixing(X, D, W, level)
    PROVE  \E v \in X : T[v] = v
  <1>1. IsFiniteSet(SUBSET W)
    BY FS_SUBSET
  <1>2. \A v : IsFiniteSet(Wrong(v, T, D, W, level))
    BY <1>1, FS_Subset DEF Wrong
  <1>3. PICK v \in X : \A w \in X : Wrong(w, T, D, W, level) \subseteq Wrong(v, T, D, W, level)
                          => Wrong(w, T, D, W, level) = Wrong(v, T, D, W, level)
    <2> DEFINE F == {Wrong(w, T, D, W, level) : w \in X}
    <2>1. F # {} /\ \A S \in F : IsFiniteSet(S)
      BY <1>2
    <2>2. \A w \in X : Wrong(w, T, D, W, level) \in F
      OBVIOUS
    <2>3. ASSUME NEW S \in F PROVE \E w \in X : S = Wrong(w, T, D, W, level)
      OBVIOUS
    <2> HIDE DEF F
    <2>4. PICK S \in F : \A R \in F : R \subseteq S => R = S
      BY <2>1, LeastSet
    <2>5. PICK v \in X : S = Wrong(v, T, D, W, level)
      BY <2>3
    <2> QED BY <2>2, <2>4, <2>5
  <1>4. SUFFICES ASSUME T[v] # v PROVE FALSE
    OBVIOUS
  <1>5. PICK U \in Wrong(v, T, D, W, level) :
           \A V \in Wrong(v, T, D, W, level) : V \subseteq U => V = U
    <2>1. T[v] \in X
      OBVIOUS
    <2>2. PICK d \in D : T[v][d] # v[d]
      BY <1>4, <2>1 DEF Extensional
    <2>3. level[d] \in Wrong(v, T, D, W, level)
      BY <2>2 DEF Wrong
    <2>4. \A S \in Wrong(v, T, D, W, level) : IsFiniteSet(S)
      BY FS_Subset DEF Wrong
    <2> QED BY <2>3, <2>4, LeastSet
  <1>6. U \in SUBSET W
    BY <1>5 DEF Wrong
  <1>7. PICK w \in X : \A d \in D : (level[d] = U => w[d] = T[v][d])
                                 /\ (level[d] # U => w[d] = v[d])
    <2>1. PICK tv \in X : tv = T[v]
      OBVIOUS
    <2>2. \E u \in X : \A d \in D : (level[d] = U => u[d] = tv[d])
                                 /\ (level[d] # U => u[d] = v[d])
      BY <1>6, Zenon DEF Mixing
    <2> QED BY <2>1, <2>2, Zenon
  <1>8. ASSUME NEW e \in D, level[e] # U, T[w][e] # w[e], ~(U \subseteq level[e])
        PROVE  T[v][e] # v[e]
    <2>1. \A d \in D : level[d] \subseteq level[e] /\ level[d] # level[e] => w[d] = v[d]
      BY <1>7, <1>8
    <2>2. T[w][e] = T[v][e]
      BY <1>7, <2>1 DEF LowerOnly
    <2> QED BY <1>7, <1>8, <2>2
  <1>9. ASSUME NEW e \in D, level[e] = U PROVE T[w][e] = w[e]
    <2>1. \A d \in D : level[d] \subseteq level[e] /\ level[d] # level[e] => w[d] = v[d]
      BY <1>7, <1>9
    <2>2. T[w][e] = T[v][e]
      BY <1>7, <2>1 DEF LowerOnly
    <2>3. w[e] = T[v][e]
      BY <1>7, <1>9, Zenon
    <2> QED BY <2>2, <2>3
  <1>10. U \notin Wrong(w, T, D, W, level)
    <2> SUFFICES ASSUME NEW e \in D, level[e] \subseteq U, T[w][e] # w[e] PROVE FALSE
      BY DEF Wrong
    <2>1. level[e] # U /\ ~(U \subseteq level[e])
      <3>1. level[e] # U
        BY <1>9
      <3>2. U \subseteq level[e] => level[e] = U
        OBVIOUS
      <3> QED BY <3>1, <3>2
    <2>2. T[v][e] # v[e] /\ level[e] \in SUBSET W
      BY <1>8, <2>1
    <2>3. level[e] \in Wrong(v, T, D, W, level)
      BY <2>2 DEF Wrong
    <2> QED BY <1>5, <2>1, <2>3
  <1>11. Wrong(w, T, D, W, level) \subseteq Wrong(v, T, D, W, level)
    <2> SUFFICES ASSUME NEW V \in SUBSET W, NEW e \in D, level[e] \subseteq V, T[w][e] # w[e],
                        V \notin Wrong(v, T, D, W, level)
                 PROVE  FALSE
      BY DEF Wrong
    <2>1. ~(U \subseteq V)
      BY <1>5 DEF Wrong
    <2>2. T[v][e] # v[e]
      BY <1>8, <2>1
    <2> QED BY <2>2 DEF Wrong
  <1> QED BY <1>3, <1>5, <1>7, <1>10, <1>11

\* A fold over a finite set: the members are taken in the order of pick.
PicksFrom(I, pick) == \A s \in SUBSET I : s # {} => pick[s] \in s
FoldStays(I, A, op) == \A x \in I, a \in A : op[<<x, a>>] \in A
Folds(g, I, start, pick, op) ==
    \A s \in SUBSET I :
        g[s] = IF s = {} THEN start ELSE op[<<pick[s], g[s \ {pick[s]}]>>]

\* A fold over the subsets of a finite set exists, whatever picks the elements.
LEMMA FoldExists ==
    ASSUME NEW I, IsFiniteSet(I), NEW A, NEW start \in A,
           NEW pick, PicksFrom(I, pick), NEW op, FoldStays(I, A, op)
    PROVE  \E g \in [SUBSET I -> A] : Folds(g, I, start, pick, op)
  <1> DEFINE D == SUBSET I
             X == [D -> A]
             step(v, s) == IF s = {} THEN start ELSE op[<<pick[s], v[s \ {pick[s]}]>>]
             T == [v \in X |-> [s \in D |-> step(v, s)]]
             level == [s \in D |-> s]
  <1>1. \A v \in X, s \in D : step(v, s) \in A
    BY DEF PicksFrom, FoldStays
  <1>2. T \in [X -> X]
    <2>1. \A v \in X : [s \in D |-> step(v, s)] \in X
      <3> HIDE DEF step
      <3> QED BY <1>1
    <2> HIDE DEF step, X
    <2> QED BY <2>1
  <1>3. \A v \in X, s \in D : T[v][s] = step(v, s)
    <2> HIDE DEF step
    <2> QED OBVIOUS
  <1>4. X # {}
    <2>1. [s \in D |-> start] \in X
      OBVIOUS
    <2> QED BY <2>1
  <1>5. Extensional(X, D)
    <2>1. \A v \in X : v = [s \in D |-> v[s]]
      OBVIOUS
    <2> QED BY <2>1 DEF Extensional
  <1>6. LowerOnly(X, D, T, level)
    <2>0. SUFFICES ASSUME NEW v \in X, NEW w \in X, NEW s \in D,
                          \A e \in D : level[e] \subseteq level[s] /\ level[e] # level[s]
                                         => v[e] = w[e]
                   PROVE  step(v, s) = step(w, s)
      <3> HIDE DEF X, step, T, level
      <3> QED BY <1>3 DEF LowerOnly
    <2>1. CASE s # {}
      <3>1. s \ {pick[s]} \in D /\ s \ {pick[s]} \subseteq s /\ s \ {pick[s]} # s
        BY <2>1 DEF PicksFrom
      <3> QED BY <2>0, <3>1
    <2> QED BY <2>1
  <1>7. Mixing(X, D, I, level)
    <2> SUFFICES ASSUME NEW v \in X, NEW w \in X, NEW U \in SUBSET I
                 PROVE  \E u \in X : \A s \in D : (level[s] = U => u[s] = w[s])
                                              /\ (level[s] # U => u[s] = v[s])
      BY DEF Mixing
    <2>1. [s \in D |-> IF level[s] = U THEN w[s] ELSE v[s]] \in X
      OBVIOUS
    <2> QED BY <2>1
  <1>8. level \in [D -> SUBSET I]
    OBVIOUS
  <1> HIDE DEF D, X, T, level, step
  <1>9. PICK g \in X : T[g] = g
    BY <1>2, <1>4, <1>5, <1>6, <1>7, <1>8, RecursionExists
  <1>10. \A s \in D : g[s] = step(g, s)
    BY <1>3, <1>9
  <1>11. Folds(g, I, start, pick, op)
    BY <1>10 DEF D, step, Folds
  <1> QED BY <1>11 DEF D, X

-----------------------------------------------------------------------------
(* Plans and forks                                                         *)

\* The constants of the plans.
PlanGiven ==
    /\ {MaxRevisionRounds, MaxRevisions, MaxForks} \subseteq Nat
    /\ Order \in Seq(Planning!Tasks) /\ {1, 2} \subseteq DOMAIN Order

RevisionMarks == Nat \X Nat
ResultReferences == [rev : 0..MaxRevisions, content : RevisionMarks]
PlanOf(p) ==
    /\ p.tasks \subseteq Planning!Tasks
    /\ p.deps \in [p.tasks -> SUBSET p.tasks] /\ p.role \in [p.tasks -> Planning!Roles]
PlanShapes ==
    /\ mode \in {"team", "document", "single"} /\ enabled \subseteq Planning!Roles
    /\ phase \in {"planning", "running", "failed"} /\ proposals \in 0..3
    /\ PlanOf(plan)
    /\ status \in [Planning!Tasks -> Planning!Statuses] /\ rounds
           \in [Planning!Tasks -> 0..MaxRevisionRounds]
    /\ result \in [Planning!Tasks -> ResultReferences]
    /\ files \in [Planning!Tasks -> Seq(RevisionMarks)]
    /\ \A t \in Planning!Tasks : Len(files[t]) \in 0..MaxRevisions
    /\ kept \subseteq Planning!Tasks /\ asked \subseteq Planning!Tasks /\ forks \in 0..MaxForks

\* A reference that names a revision of a task and what is in it.
Resolves(t, ref) == ref.rev \in 1..Len(files[t]) /\ files[t][ref.rev] = ref.content

\* Before a plan runs nothing has happened; a task under review or accepted reports
\* what it published, and so does what a fork keeps of it.
NothingYet == phase # "running" => fork = Planning!NoFork /\ status = [t
      \in Planning!Tasks |-> "queued"]
ReportsOK ==
    \A t \in plan.tasks :
        status[t] \in {"review_pending", "accepted"} /\ ~Planning!IsReview(t)
              => Resolves(t, result[t])
ForkOK ==
    fork # Planning!NoFork =>
        /\ fork.keep \subseteq plan.tasks /\ fork.asked \subseteq plan.tasks
        /\ fork.result \in [fork.keep -> ResultReferences] /\ forks < MaxForks
        /\ \A t \in fork.keep : ~Planning!IsReview(t) => Resolves(t, fork.result[t])
PlanInv == PlanShapes /\ NothingYet /\ ReportsOK /\ ForkOK

\* At first there is no plan.
LEMMA PlanInit == PlanGiven /\ Planning!Init => PlanInv
  <1> SUFFICES ASSUME PlanGiven, Planning!Init PROVE PlanInv
    OBVIOUS
  <1>1. PlanOf(plan)
    BY DEF Planning!Init, Planning!NoPlan, PlanOf
  <1>2. result \in [Planning!Tasks -> ResultReferences] /\ rounds
            \in [Planning!Tasks -> 0..MaxRevisionRounds]
    BY DEF Planning!Init, Planning!NoResult, ResultReferences, RevisionMarks, PlanGiven
  <1>3. files \in [Planning!Tasks -> Seq(RevisionMarks)] /\ \A t
            \in Planning!Tasks : Len(files[t]) = 0
    BY DEF Planning!Init
  <1>4. 0 \in 0..MaxRevisions /\ 0 \in 0..MaxForks /\ 0 \in 0..3
    BY DEF PlanGiven
  <1>5. PlanShapes
    BY <1>1, <1>2, <1>3, <1>4 DEF Planning!Init, PlanShapes, Planning!Statuses
  <1>6. ReportsOK
    BY <1>1 DEF Planning!Init, ReportsOK, Planning!NoPlan
  <1> QED BY <1>5, <1>6 DEF Planning!Init, PlanInv, NothingYet, ForkOK

\* The report of a task is a reference.
LEMMA OwnReport ==
    ASSUME PlanInv, NEW t \in Planning!Tasks
    PROVE  files[t] \in Seq(RevisionMarks) /\ Len(files[t]) \in Nat /\ result[t]
              \in ResultReferences
  BY DEF PlanInv, PlanShapes

\* What a plan becomes is a plan.
LEMMA AcceptKeeps ==
    ASSUME PlanGiven, PlanInv, phase = "planning", NEW p, PlanOf(p), Planning!Accept(p)
    PROVE  PlanInv'
  <1>1. /\ plan' = p /\ phase' = "running" /\ proposals' = 0
        /\ UNCHANGED <<mode, enabled, status, rounds, result, files, fork, asked, kept, forks>>
    BY DEF Planning!Accept, Planning!runVars, Planning!forkVars
  <1>2. fork = Planning!NoFork /\ \A t \in Planning!Tasks : status[t] = "queued"
    BY DEF PlanInv, NothingYet
  <1>3. PlanShapes'
    BY <1>1 DEF PlanInv, PlanShapes, PlanOf
  <1>4. ReportsOK'
    BY <1>1, <1>2 DEF ReportsOK, PlanOf
  <1> QED BY <1>1, <1>2, <1>3, <1>4 DEF PlanInv, NothingYet, ForkOK

\* A plan can have two tasks.
LEMMA FirstTasks == PlanGiven => Planning!First \in Planning!Tasks /\ Planning!Second
        \in Planning!Tasks
  BY DEF PlanGiven, Planning!First, Planning!Second, Planning!Tasks, Planning!ToSet

\* A plan is made.
LEMMA PlanningKeeps ==
    ASSUME PlanGiven, PlanInv, Planning!PlanTeam \/ Planning!PlanDocument
               \/ Planning!PlanSingle \/ Planning!PlanError
    PROVE  PlanInv'
  <1>1. phase = "planning" /\ {Planning!First, Planning!Second} \subseteq Planning!Tasks
    BY FirstTasks DEF Planning!PlanTeam, Planning!PlanDocument, Planning!PlanSingle,
       Planning!PlanError
  <1>2. ASSUME NEW p \in Planning!Proposals, Planning!Valid(p), Planning!Accept(p) PROVE PlanInv'
    <2>1. PICK S \in SUBSET Planning!Tasks : p \in [tasks : {S},
               deps : [S -> SUBSET Planning!Tasks], role : [S -> Planning!Roles]]
      BY DEF Planning!Proposals
    <2>2. \A t \in p.tasks : p.deps[t] \subseteq p.tasks
      BY <1>2 DEF Planning!Valid
    <2>3. PlanOf(p)
      BY <2>1, <2>2 DEF PlanOf
    <2> QED BY <1>1, <1>2, <2>3, AcceptKeeps
  <1>3. CASE Planning!PlanDocument
    <2>1. PlanOf(Planning!DocumentPlan)
      BY <1>1 DEF PlanOf, Planning!DocumentPlan, Planning!Roles
    <2> QED BY <1>1, <1>3, <2>1, AcceptKeeps DEF Planning!PlanDocument
  <1>4. CASE Planning!PlanSingle
    <2>1. PICK p : p = [tasks |-> {Planning!First}, deps |-> [t \in {Planning!First} |-> {}],
                        role |-> [t \in {Planning!First} |-> "builder"]]
      OBVIOUS
    <2>2. PlanOf(p)
      BY <1>1, <2>1 DEF PlanOf, Planning!Roles
    <2>3. Planning!Accept(p)
      BY <1>4, <2>1 DEF Planning!PlanSingle
    <2> QED BY <1>1, <2>2, <2>3, AcceptKeeps
  <1>5. CASE UNCHANGED <<mode, enabled, plan, Planning!runVars,
             Planning!forkVars>> /\ phase' # "running"
             /\ phase' \in {"planning", "failed"} /\ proposals' \in 0..3
    <2>1. PlanShapes' /\ NothingYet'
      BY <1>1, <1>5 DEF PlanInv, PlanShapes, NothingYet, Planning!runVars, Planning!forkVars
    <2>2. ReportsOK' /\ ForkOK'
      BY <1>5 DEF PlanInv, ReportsOK, ForkOK, Resolves, Planning!IsReview, Planning!Reviews,
         Planning!runVars, Planning!forkVars
    <2> QED BY <2>1, <2>2 DEF PlanInv
  <1>6. proposals \in 0..3
    BY DEF PlanInv, PlanShapes
  <1> QED BY <1>1, <1>2, <1>3, <1>4, <1>5, <1>6 DEF Planning!PlanTeam, Planning!PlanError

\* A step of the run: files grow, and whose report is new reports what is there.
LEMMA PlanRunKeeps ==
    ASSUME PlanGiven, PlanInv, phase = "running", UNCHANGED <<Planning!planVars,
           Planning!forkVars>>,
           status' \in [Planning!Tasks -> Planning!Statuses],
             rounds' \in [Planning!Tasks -> 0..MaxRevisionRounds],
           result' \in [Planning!Tasks -> ResultReferences],
             files' \in [Planning!Tasks -> Seq(RevisionMarks)],
           \A t \in Planning!Tasks : Len(files'[t]) \in 0..MaxRevisions,
           \A t \in Planning!Tasks : /\ Len(files[t]) <= Len(files'[t])
                            /\ \A i \in 1..Len(files[t]) : files'[t][i] = files[t][i],
           \A t \in plan.tasks :
             status'[t] \in {"review_pending", "accepted"} /\ ~Planning!IsReview(t) =>
               \/ status[t] \in {"review_pending", "accepted"} /\ result'[t] = result[t]
               \/ Resolves(t, result[t])'
    PROVE  PlanInv'
  <1>1. /\ plan' = plan /\ phase' = phase /\ fork' = fork /\ forks' = forks
        /\ mode' = mode /\ enabled' = enabled /\ proposals' = proposals
        /\ asked' = asked /\ kept' = kept
    BY DEF Planning!planVars, Planning!forkVars
  <1>2. ASSUME NEW t \in Planning!Tasks, NEW ref \in ResultReferences, Resolves(t, ref)
        PROVE  ref.rev \in 1..Len(files'[t]) /\ files'[t][ref.rev] = ref.content
    <2>1. Len(files[t]) \in Nat /\ Len(files'[t]) \in Nat /\ Len(files[t]) <= Len(files'[t])
          /\ \A i \in 1..Len(files[t]) : files'[t][i] = files[t][i]
      BY OwnReport
    <2> QED BY <1>2, <2>1 DEF Resolves
  <1>3. PlanShapes'
    BY <1>1 DEF PlanInv, PlanShapes, PlanOf
  <1>4. plan.tasks \subseteq Planning!Tasks /\ \A t \in Planning!Tasks : result[t]
            \in ResultReferences
    BY DEF PlanInv, PlanShapes, PlanOf
  <1>5. ReportsOK'
    <2>1. ASSUME NEW t \in plan.tasks, status'[t] \in {"review_pending", "accepted"},
                 ~Planning!IsReview(t)
          PROVE  Resolves(t, result[t])'
      <3>1. CASE status[t] \in {"review_pending", "accepted"} /\ result'[t] = result[t]
        <4>1. Resolves(t, result[t])
          BY <2>1, <3>1 DEF PlanInv, ReportsOK
        <4> QED BY <1>2, <1>4, <3>1, <4>1 DEF Resolves
      <3> QED BY <2>1, <3>1
    <2>2. \A t : Planning!IsReview(t)' <=> Planning!IsReview(t)
      BY <1>1 DEF Planning!IsReview, Planning!Reviews
    <2> QED BY <1>1, <2>1, <2>2 DEF ReportsOK
  <1>6. ForkOK'
    <2>1. \A t : Planning!IsReview(t)' <=> Planning!IsReview(t)
      BY <1>1 DEF Planning!IsReview, Planning!Reviews
    <2>2. ASSUME fork # Planning!NoFork, NEW t \in fork.keep, ~Planning!IsReview(t)
          PROVE  Resolves(t, fork.result[t])'
      <3>1. Resolves(t, fork.result[t]) /\ fork.result[t] \in ResultReferences /\ t
                \in Planning!Tasks
        BY <1>4, <2>2 DEF PlanInv, ForkOK
      <3> QED BY <1>1, <1>2, <3>1 DEF Resolves
    <2> QED BY <1>1, <2>1, <2>2 DEF PlanInv, ForkOK
  <1>7. NothingYet'
    BY <1>1 DEF NothingYet
  <1> QED BY <1>3, <1>5, <1>6, <1>7 DEF PlanInv

\* What a task publishes comes after what it published before.
LEMMA FilesLonger ==
    ASSUME PlanGiven, PlanInv, NEW t \in Planning!Tasks, NEW n \in 1..2
    PROVE  /\ Planning!Published(t, n) \in Seq(RevisionMarks) /\ Len(Planning!Published(t, n))
              = Len(files[t]) + n
           /\ \A i \in 1..Len(files[t]) : Planning!Published(t, n)[i] = files[t][i]
           /\ Len(Planning!Published(t, n)) \in DOMAIN Planning!Published(t, n)
           /\ Planning!Last(Planning!Published(t, n))
                  = Planning!Published(t, n)[Len(Planning!Published(t, n))]
           /\ Planning!Last(Planning!Published(t, n)) \in RevisionMarks
  <1>1. files[t] \in Seq(RevisionMarks) /\ Len(files[t]) \in Nat /\ forks \in Nat
    BY DEF PlanInv, PlanShapes, PlanGiven
  <1>2. PICK new : new = [i \in 1..n |-> <<forks, Len(files[t]) + i>>]
    OBVIOUS
  <1>3. new \in Seq(RevisionMarks) /\ Len(new) = n
    BY <1>1, <1>2 DEF RevisionMarks
  <1>4. PICK all : all = files[t] \o new
    OBVIOUS
  <1>5. /\ all \in Seq(RevisionMarks) /\ Len(all) = Len(files[t]) + n
        /\ \A i \in 1..Len(files[t]) : all[i] = files[t][i]
    BY <1>1, <1>3, <1>4, Concatenated
  <1>6. Len(all) \in DOMAIN all /\ all[Len(all)] \in RevisionMarks
    BY <1>1, <1>5
  <1> QED BY <1>2, <1>4, <1>5, <1>6 DEF Planning!Published, Planning!Last

\* A producer works or fails.
LEMMA PlanWorkKeeps ==
    ASSUME PlanGiven, PlanInv, NEW t \in Planning!Tasks, Planning!Work(t) \/ Planning!Fail(t)
    PROVE  PlanInv'
  <1>1. /\ phase = "running" /\ UNCHANGED <<Planning!planVars, Planning!forkVars, rounds>>
        /\ status \in [Planning!Tasks -> Planning!Statuses] /\ rounds
               \in [Planning!Tasks -> 0..MaxRevisionRounds]
        /\ result \in [Planning!Tasks -> ResultReferences] /\ files
               \in [Planning!Tasks -> Seq(RevisionMarks)]
        /\ \A u \in Planning!Tasks : Len(files[u]) \in 0..MaxRevisions
    BY DEF Planning!Work, Planning!Fail, Planning!MayRun, PlanInv, PlanShapes
  <1>2. CASE Planning!Work(t)
    <2>1. PICK n \in 1..2 :
            /\ Len(files[t]) + n <= MaxRevisions
            /\ files' = [files EXCEPT ![t] = Planning!Published(t, n)]
            /\ result' = [result EXCEPT ![t] = [rev |-> Len(Planning!Published(t, n)),
                                                content |-> Planning!Last(Planning!Published(t,
                                                  n))]]
      BY <1>2 DEF Planning!Work
    <2>2. PICK new : new = Planning!Published(t, n)
      OBVIOUS
    <2>3. /\ new \in Seq(RevisionMarks) /\ Len(new) = Len(files[t]) + n
          /\ \A i \in 1..Len(files[t]) : new[i] = files[t][i]
          /\ Len(new) \in DOMAIN new /\ Planning!Last(new) = new[Len(new)]
                 /\ Planning!Last(new) \in RevisionMarks
      BY <2>2, FilesLonger
    <2>4. PICK ref : ref = [rev |-> Len(new), content |-> Planning!Last(new)]
      OBVIOUS
    <2>5. /\ files'[t] = new /\ result'[t] = ref
          /\ \A u \in Planning!Tasks \ {t} : files'[u] = files[u] /\ result'[u] = result[u]
      BY <1>1, <2>1, <2>2, <2>4
    <2>6. Len(files[t]) \in Nat /\ Len(new) \in 0..MaxRevisions
      BY <1>1, <2>1, <2>3 DEF PlanGiven
    <2>7. ref \in ResultReferences
      BY <2>3, <2>4, <2>6 DEF ResultReferences
    <2>8. files' \in [Planning!Tasks -> Seq(RevisionMarks)] /\ result'
              \in [Planning!Tasks -> ResultReferences]
      BY <1>1, <2>1, <2>2, <2>3, <2>4, <2>7
    <2>9. Resolves(t, result[t])'
      BY <2>3, <2>4, <2>5 DEF Resolves
    <2>10. /\ status' \in [Planning!Tasks -> Planning!Statuses]
           /\ \A u \in Planning!Tasks \ {t} : status'[u] = status[u]
      BY <1>1, <1>2 DEF Planning!Work, Planning!Statuses
    <2>11. \A u \in Planning!Tasks : Len(files'[u]) \in 0..MaxRevisions
      BY <1>1, <2>5, <2>6
    <2>12. \A u \in Planning!Tasks : /\ Len(files[u]) <= Len(files'[u])
                            /\ \A i \in 1..Len(files[u]) : files'[u][i] = files[u][i]
      <3>1. \A u \in Planning!Tasks : Len(files[u]) \in Nat
        BY <1>1
      <3> QED BY <2>3, <2>5, <3>1
    <2>13. \A u \in plan.tasks :
             status'[u] \in {"review_pending", "accepted"} /\ ~Planning!IsReview(u) =>
               \/ status[u] \in {"review_pending", "accepted"} /\ result'[u] = result[u]
               \/ Resolves(u, result[u])'
      BY <2>5, <2>9, <2>10 DEF PlanInv, PlanShapes, PlanOf
    <2> QED BY <1>1, <2>8, <2>10, <2>11, <2>12, <2>13, PlanRunKeeps
  <1>3. CASE Planning!Fail(t)
    <2>1. /\ status' = [status EXCEPT ![t] = "failed"] /\ result' = result
          /\ status' \in [Planning!Tasks -> Planning!Statuses]
      BY <1>1, <1>3 DEF Planning!Fail, Planning!Statuses
    <2>2. /\ files' \in [Planning!Tasks -> Seq(RevisionMarks)]
          /\ \A u \in Planning!Tasks : /\ Len(files'[u]) \in 0..MaxRevisions
                              /\ Len(files[u]) <= Len(files'[u])
                              /\ \A i \in 1..Len(files[u]) : files'[u][i] = files[u][i]
      <3>1. \A u \in Planning!Tasks : Len(files[u]) \in Nat
        BY <1>1
      <3>2. CASE files' = files
        BY <1>1, <3>1, <3>2
      <3>3. CASE Len(files[t]) < MaxRevisions /\ files' = [files EXCEPT ![t]
                     = Planning!Published(t, 1)]
        <4>1. PICK new : new = Planning!Published(t, 1)
          OBVIOUS
        <4>2. /\ new \in Seq(RevisionMarks) /\ Len(new) = Len(files[t]) + 1
              /\ \A i \in 1..Len(files[t]) : new[i] = files[t][i]
          BY <4>1, FilesLonger
        <4>3. files' = [files EXCEPT ![t] = new]
          BY <3>3, <4>1
        <4>4. files'[t] = new /\ \A u \in Planning!Tasks \ {t} : files'[u] = files[u]
          BY <1>1, <4>3
        <4>5. Len(new) \in 0..MaxRevisions /\ Len(files[t]) <= Len(new)
          BY <3>1, <3>3, <4>2 DEF PlanGiven
        <4>6. files' \in [Planning!Tasks -> Seq(RevisionMarks)]
          BY <1>1, <4>2, <4>3
        <4>7. ASSUME NEW u \in Planning!Tasks
              PROVE  /\ Len(files'[u]) \in 0..MaxRevisions
                     /\ Len(files[u]) <= Len(files'[u])
                     /\ \A i \in 1..Len(files[u]) : files'[u][i] = files[u][i]
          <5>1. CASE u = t
            BY <4>2, <4>4, <4>5, <5>1
          <5>2. CASE u # t
            BY <1>1, <3>1, <4>4, <5>2
          <5> QED BY <5>1, <5>2
        <4> QED BY <4>6, <4>7
      <3> QED BY <1>3, <3>2, <3>3 DEF Planning!Fail
    <2>3. \A u \in plan.tasks :
            status'[u] \in {"review_pending", "accepted"} /\ ~Planning!IsReview(u) =>
              status[u] \in {"review_pending", "accepted"} /\ result'[u] = result[u]
      BY <1>1, <2>1 DEF PlanInv, PlanShapes, PlanOf
    <2> QED BY <1>1, <2>1, <2>2, <2>3, PlanRunKeeps
  <1> QED BY <1>2, <1>3

\* A reviewer accepts what it looked at, or asks for a revision.
LEMMA PlanReviewKeeps ==
    ASSUME PlanGiven, PlanInv, NEW r \in Planning!Tasks, Planning!Review(r) \/ Planning!Settle(r)
    PROVE  PlanInv'
  <1>1. /\ phase = "running" /\ UNCHANGED <<Planning!planVars, Planning!forkVars, result, files>>
        /\ status \in [Planning!Tasks -> Planning!Statuses] /\ rounds
               \in [Planning!Tasks -> 0..MaxRevisionRounds]
        /\ result \in [Planning!Tasks -> ResultReferences] /\ files
               \in [Planning!Tasks -> Seq(RevisionMarks)]
        /\ \A u \in Planning!Tasks : Len(files[u]) \in 0..MaxRevisions
        /\ plan.tasks \subseteq Planning!Tasks
    BY DEF Planning!Review, Planning!Settle, Planning!MayRun, PlanInv, PlanShapes, PlanOf
  <1>2. /\ status' \in [Planning!Tasks -> Planning!Statuses] /\ rounds'
               \in [Planning!Tasks -> 0..MaxRevisionRounds]
        /\ \A u \in plan.tasks : status'[u] \in {"review_pending", "accepted"}
               /\ ~Planning!IsReview(u) =>
             status[u] \in {"review_pending", "accepted"}
    <2>1. CASE Planning!Review(r)
      <3>1. Planning!IsReview(r) /\ \A d \in plan.deps[r] : status[d]
                \in {"review_pending", "accepted"}
        BY <2>1 DEF Planning!Review, Planning!MayRun, Planning!DepOk
      <3>2. PICK failing \in SUBSET (plan.deps[r] \ Planning!Reviews(plan)) :
        LET revised == {t \in failing : rounds[t] < MaxRevisionRounds}
        IN /\ status' = [t \in Planning!Tasks |->
                IF t \in revised THEN "queued"
                ELSE IF t \in failing THEN "partial"
                ELSE IF t \in plan.deps[r] THEN "accepted"
                ELSE IF t = r THEN (IF revised = {} THEN "accepted" ELSE "queued")
                ELSE status[t]]
           /\ rounds' = [t \in Planning!Tasks |-> IF t
                  \in revised THEN rounds[t] + 1 ELSE rounds[t]]
        BY <2>1 DEF Planning!Review
      <3>3. status' \in [Planning!Tasks -> Planning!Statuses]
        BY <1>1, <3>2 DEF Planning!Statuses
      <3>4. rounds' \in [Planning!Tasks -> 0..MaxRevisionRounds]
        BY <1>1, <3>2 DEF PlanGiven
      <3>5. \A u \in plan.tasks : status'[u] \in {"review_pending", "accepted"}
                /\ ~Planning!IsReview(u) =>
             status[u] \in {"review_pending", "accepted"}
        BY <1>1, <3>1, <3>2
      <3> QED BY <3>3, <3>4, <3>5
    <2>2. CASE Planning!Settle(r)
      BY <1>1, <2>2 DEF Planning!Settle, Planning!Statuses
    <2> QED BY <2>1, <2>2
  <1>3. \A u \in Planning!Tasks : Len(files[u]) \in Nat
    BY <1>1
  <1> QED BY <1>1, <1>2, <1>3, PlanRunKeeps

\* A fork reads what is accepted, and copies it with its files.
LEMMA PlanForkKeeps ==
    ASSUME PlanGiven, PlanInv, Planning!ForkRead \/ Planning!ForkCopy
    PROVE  PlanInv'
  <1>1. /\ plan' = plan /\ phase' = phase /\ mode' = mode /\ enabled' = enabled
        /\ proposals' = proposals
    BY DEF Planning!ForkRead, Planning!ForkCopy, Planning!planVars
  <1>2. \A t : Planning!IsReview(t)' <=> Planning!IsReview(t)
    BY <1>1 DEF Planning!IsReview, Planning!Reviews
  <1>3. plan.tasks \subseteq Planning!Tasks /\ result \in [Planning!Tasks -> ResultReferences]
        /\ files \in [Planning!Tasks -> Seq(RevisionMarks)]
    BY DEF PlanInv, PlanShapes, PlanOf
  <1>4. CASE Planning!ForkRead
    <2>1. /\ phase = "running" /\ fork = Planning!NoFork /\ forks < MaxForks
          /\ UNCHANGED <<status, rounds, result, files, asked, kept, forks>>
      BY <1>4 DEF Planning!ForkRead, Planning!Forking, Planning!runVars
    <2>2. PICK S \in SUBSET plan.tasks :
            LET keep == {t \in plan.tasks \ Planning!Downstream(S) : status[t] = "accepted"}
            IN fork' = [keep |-> keep, result |-> [t \in keep |-> result[t]], asked |-> S]
      BY <1>4 DEF Planning!ForkRead
    <2>3. PICK keep : keep = {t \in plan.tasks \ Planning!Downstream(S) : status[t] = "accepted"}
      OBVIOUS
    <2>4. /\ fork'.keep = keep /\ fork'.asked = S /\ fork'.result = [t \in keep |-> result[t]]
          /\ keep \subseteq plan.tasks /\ \A t \in keep : status[t] = "accepted"
      BY <2>2, <2>3
    <2>5. ForkOK'
      <3>1. ASSUME NEW t \in keep, ~Planning!IsReview(t) PROVE Resolves(t, fork.result[t])'
        <4>1. Resolves(t, result[t]) /\ fork'.result[t] = result[t]
          BY <2>4, <3>1 DEF PlanInv, ReportsOK
        <4> QED BY <2>1, <4>1 DEF Resolves
      <3>2. fork'.result \in [keep -> ResultReferences]
        BY <1>3, <2>4
      <3> QED BY <1>1, <1>2, <2>1, <2>4, <3>1, <3>2 DEF ForkOK
    <2>6. PlanShapes' /\ ReportsOK' /\ NothingYet'
      BY <1>1, <1>2, <2>1 DEF PlanInv, PlanShapes, PlanOf, ReportsOK, NothingYet, Resolves
    <2> QED BY <2>5, <2>6 DEF PlanInv
  <1>5. CASE Planning!ForkCopy
    <2>1. /\ fork # Planning!NoFork /\ kept' = fork.keep /\ asked' = fork.asked /\ fork'
                 = Planning!NoFork
          /\ forks' = forks + 1
          /\ status' = [t \in Planning!Tasks |-> IF t \in fork.keep THEN "accepted" ELSE "queued"]
          /\ result' = [t \in Planning!Tasks |-> IF t
                 \in fork.keep THEN fork.result[t] ELSE Planning!NoResult]
          /\ files' = [t \in Planning!Tasks |-> IF t \in fork.keep THEN files[t] ELSE <<>>]
          /\ rounds' = [t \in Planning!Tasks |-> 0]
      BY <1>5 DEF Planning!ForkCopy, Planning!Forking, Planning!Copied
    <2>2. /\ fork.keep \subseteq plan.tasks /\ fork.asked \subseteq plan.tasks
          /\ fork.result \in [fork.keep -> ResultReferences] /\ forks < MaxForks
          /\ \A t \in fork.keep : ~Planning!IsReview(t) => Resolves(t, fork.result[t])
      BY <2>1 DEF PlanInv, ForkOK
    <2>3. PlanShapes'
      <3>1. status' \in [Planning!Tasks -> Planning!Statuses] /\ rounds'
                \in [Planning!Tasks -> 0..MaxRevisionRounds]
        BY <2>1 DEF Planning!Statuses, PlanGiven
      <3>2. Planning!NoResult \in ResultReferences
        BY DEF Planning!NoResult, ResultReferences, RevisionMarks, PlanGiven
      <3>3. result' \in [Planning!Tasks -> ResultReferences]
        BY <2>1, <2>2, <3>2
      <3>4. <<>> \in Seq(RevisionMarks) /\ Len(<<>>) \in 0..MaxRevisions
        BY DEF PlanGiven
      <3>5. files' \in [Planning!Tasks -> Seq(RevisionMarks)]
        BY <1>3, <2>1, <3>4
      <3>6. \A t \in Planning!Tasks : Len(files'[t]) \in 0..MaxRevisions
        BY <2>1, <3>4 DEF PlanInv, PlanShapes
      <3>7. kept' \subseteq Planning!Tasks /\ asked' \subseteq Planning!Tasks
        BY <1>3, <2>1, <2>2
      <3>8. forks' \in 0..MaxForks
        BY <2>1, <2>2 DEF PlanInv, PlanShapes, PlanGiven
      <3> QED BY <1>1, <3>1, <3>3, <3>5, <3>6, <3>7, <3>8 DEF PlanInv, PlanShapes, PlanOf
    <2>4. ReportsOK'
      <3>1. ASSUME NEW t \in plan.tasks, status'[t] \in {"review_pending", "accepted"},
                   ~Planning!IsReview(t)
            PROVE  Resolves(t, result[t])'
        <4>1. t \in fork.keep /\ result'[t] = fork.result[t] /\ files'[t] = files[t]
          BY <1>3, <2>1, <3>1
        <4>2. Resolves(t, fork.result[t])
          BY <2>2, <3>1, <4>1
        <4> QED BY <4>1, <4>2 DEF Resolves
      <3> QED BY <1>1, <1>2, <3>1 DEF ReportsOK
    <2>5. phase = "running"
      BY <2>1 DEF PlanInv, NothingYet
    <2> QED BY <1>1, <2>1, <2>3, <2>4, <2>5 DEF PlanInv, NothingYet, ForkOK
  <1> QED BY <1>4, <1>5

\* The invariant of the plans is inductive.
LEMMA PlanStep == PlanGiven /\ PlanInv /\ [Planning!Next]_(Planning!vars) => PlanInv'
  <1> SUFFICES ASSUME PlanGiven, PlanInv, [Planning!Next]_(Planning!vars) PROVE PlanInv'
    OBVIOUS
  <1>1. CASE UNCHANGED Planning!vars
    BY <1>1 DEF Planning!vars, Planning!planVars, Planning!runVars, Planning!forkVars, PlanInv,
       PlanShapes, PlanOf, NothingYet,
       ReportsOK, ForkOK, Resolves, Planning!IsReview, Planning!Reviews
  <1> QED BY <1>1, PlanningKeeps, PlanWorkKeeps, PlanReviewKeeps, PlanForkKeeps
             DEF Planning!Next

\* It gives what the run checks, and the types.
LEMMA PlanHolds == PlanInv => Planning!ResultsResolve /\ Planning!TypeOK
  <1> SUFFICES ASSUME PlanInv PROVE Planning!ResultsResolve /\ Planning!TypeOK
    OBVIOUS
  <1>1. \A t \in Planning!Tasks : DOMAIN files[t] = 1..Len(files[t])
    BY DEF PlanInv, PlanShapes
  <1>2. plan.tasks \subseteq Planning!Tasks
    BY DEF PlanInv, PlanShapes, PlanOf
  <1>3. Planning!ResultsResolve
    BY <1>1, <1>2 DEF PlanInv, ReportsOK, Resolves, Planning!ResultsResolve
  <1>4. \A t \in Planning!Tasks : result[t].rev \in 0..MaxRevisions
    BY DEF PlanInv, PlanShapes, ResultReferences
  <1> QED BY <1>3, <1>4 DEF PlanInv, PlanShapes, PlanOf, Planning!TypeOK

Spots == DOMAIN Order
\* The places of the tasks in the plan.
LEMMA SpotsAre ==
    ASSUME PlanGiven
    PROVE  /\ IsFiniteSet(Spots) /\ Planning!Tasks = {Order[i] : i \in Spots}
           /\ \A s \in SUBSET Spots : s # {} => Planning!Max(s) \in s
  <1>1. Spots = 1..Len(Order) /\ Len(Order) \in Nat
    BY DEF PlanGiven, Spots
  <1>2. IsFiniteSet(Spots)
    <2>1. IsFiniteSet(1..Len(Order))
      BY <1>1, FS_Interval
    <2> QED BY <1>1, <2>1
  <1>3. ASSUME NEW s \in SUBSET Spots, s # {} PROVE Planning!Max(s) \in s
    <2>1. s \in SUBSET Nat
      BY <1>1
    <2>2. IsFiniteSet(s)
      BY <1>2, FS_Subset
    <2> QED BY <1>3, <2>1, <2>2, GreatestNumber DEF Planning!Max
  <1>4. Planning!Tasks = {Order[i] : i \in Spots}
    BY DEF Planning!Tasks, Planning!ToSet, Spots
  <1> QED BY <1>2, <1>3, <1>4

\* There are finitely many tasks.
LEMMA TasksAreFinite == ASSUME PlanGiven PROVE IsFiniteSet(Planning!Tasks)
  <1> DEFINE f == [i \in Spots |-> Order[i]]
  <1>1. f \in Surjection(Spots, Planning!Tasks)
    BY SpotsAre DEF Surjection
  <1> QED BY <1>1, SpotsAre, FS_Surjection

\* The pass over the plan, as a function of the places of Order it has seen.
Added(t, R) == IF t \in plan.tasks /\ plan.deps[t] \cap R # {} THEN R \cup {t} ELSE R
Grows(g, S) ==
    g = [s \in SUBSET DOMAIN Order |->
           IF s = {} THEN S ELSE Added(Order[Planning!Max(s)], g[s \ {Planning!Max(s)}])]

\* Grown is the value of a function that grows.
LEMMA GrownIs == ASSUME NEW S PROVE Planning!Grown(S) = (CHOOSE g : Grows(g, S))[DOMAIN Order]
  BY DEF Planning!Grown, Planning!FoldLeft, Planning!MapThenFoldSet, Grows, Added

\* There is such a function.
LEMMA GrowsExists ==
    ASSUME PlanGiven, NEW S \in SUBSET Planning!Tasks PROVE \E g : Grows(g, S)
  <1> DEFINE op == [c \in Spots \X SUBSET Planning!Tasks |-> Added(Order[c[1]], c[2])]
             pick == [s \in SUBSET Spots |-> Planning!Max(s)]
  <1>1. \A x \in Spots, R \in SUBSET Planning!Tasks :
          /\ Added(Order[x], R) \in SUBSET Planning!Tasks /\ op[<<x, R>>] = Added(Order[x], R)
    BY SpotsAre DEF Added
  <1>2. \A s \in SUBSET Spots : pick[s] = Planning!Max(s) /\ (s # {} => pick[s] \in s)
    BY SpotsAre
  <1>3. \A x \in Spots, R \in SUBSET Planning!Tasks : op[<<x, R>>] \in SUBSET Planning!Tasks
    <2> HIDE DEF op
    <2> QED BY <1>1
  <1> HIDE DEF op, pick
  <1>4. PICK g \in [SUBSET Spots -> SUBSET Planning!Tasks] : \A s \in SUBSET Spots :
              g[s] = IF s = {} THEN S ELSE op[<<pick[s], g[s \ {pick[s]}]>>]
    <2>1. PicksFrom(Spots, pick)
      BY <1>2 DEF PicksFrom
    <2>2. IsFiniteSet(Spots)
      BY SpotsAre
    <2>3. FoldStays(Spots, SUBSET Planning!Tasks, op)
      BY <1>3 DEF FoldStays
    <2>4. \E g \in [SUBSET Spots -> SUBSET Planning!Tasks] : Folds(g, Spots, S, pick, op)
      BY <2>1, <2>2, <2>3, FoldExists
    <2> QED BY <2>4 DEF Folds
  <1>5. \A s \in SUBSET Spots :
           g[s] = IF s = {} THEN S ELSE Added(Order[Planning!Max(s)], g[s \ {Planning!Max(s)}])
    <2> SUFFICES ASSUME NEW s \in SUBSET Spots, s # {}
                 PROVE  g[s] = Added(Order[Planning!Max(s)], g[s \ {Planning!Max(s)}])
      BY <1>4
    <2>1. Planning!Max(s) \in Spots /\ s \ {Planning!Max(s)} \in SUBSET Spots /\ pick[s]
              = Planning!Max(s)
      BY <1>2
    <2>2. g[s \ {Planning!Max(s)}] \in SUBSET Planning!Tasks
      BY <1>4, <2>1
    <2> QED BY <1>1, <1>4, <2>1, <2>2
  <1>6. g = [s \in SUBSET Spots |-> g[s]]
    OBVIOUS
  <1>7. Grows(g, S)
    BY <1>5, <1>6 DEF Grows, Spots
  <1> QED BY <1>7

\* A pass keeps what it starts from and adds the tasks that depend on it.
LEMMA PassAdds ==
    ASSUME PlanGiven, plan.tasks \subseteq Planning!Tasks, NEW S \in SUBSET plan.tasks
    PROVE  /\ S \subseteq Planning!Grown(S) /\ Planning!Grown(S) \in SUBSET plan.tasks
           /\ \A t \in plan.tasks : plan.deps[t] \cap S # {} => t \in Planning!Grown(S)
  <1>1. PICK g : g = CHOOSE h : Grows(h, S)
    OBVIOUS
  <1>2. Grows(g, S) /\ Planning!Grown(S) = g[Spots]
    BY <1>1, GrowsExists, GrownIs DEF Spots
  <1>3. \A s \in SUBSET Spots :
           g[s] = IF s = {} THEN S ELSE Added(Order[Planning!Max(s)], g[s \ {Planning!Max(s)}])
    BY <1>2 DEF Grows, Spots
  <1> DEFINE Good(s) == /\ S \subseteq g[s] /\ g[s] \in SUBSET plan.tasks
                        /\ \A i \in s : Order[i] \in plan.tasks /\ plan.deps[Order[i]] \cap S # {}
                             => Order[i] \in g[s]
             Bad == {s \in SUBSET Spots : ~Good(s)}
  <1>4. Bad = {}
    <2> SUFFICES ASSUME Bad # {} PROVE FALSE
      OBVIOUS
    <2>1. \A s \in Bad : IsFiniteSet(s)
      BY SpotsAre, FS_Subset
    <2>2. PICK s \in Bad : \A r \in Bad : r \subseteq s => r = s
      <3> HIDE DEF Bad
      <3> QED BY <2>1, LeastSet
    <2>3. s \in SUBSET Spots /\ ~Good(s) /\ \A r \in SUBSET s : r # s => Good(r)
      BY <2>2
    <2>4. s # {}
      BY <1>3, <2>3
    <2>5. PICK x : x = Planning!Max(s)
      OBVIOUS
    <2>6. x \in s /\ Good(s \ {x}) /\ g[s] = Added(Order[x], g[s \ {x}])
      <3>1. x \in s
        BY <2>3, <2>4, <2>5, SpotsAre
      <3>2. Good(s \ {x})
        <4> HIDE DEF Good
        <4> QED BY <2>3, <3>1
      <3> QED BY <1>3, <2>3, <2>4, <2>5, <3>1, <3>2
    <2>7. Good(s)
      <3>1. S \subseteq g[s] /\ g[s] \in SUBSET plan.tasks
        <4>1. S \subseteq g[s \ {x}] /\ g[s \ {x}] \in SUBSET plan.tasks
          BY <2>6
        <4>2. \/ g[s] = g[s \ {x}]
              \/ Order[x] \in plan.tasks /\ g[s] = g[s \ {x}] \cup {Order[x]}
          <5> HIDE DEF Good
          <5> QED BY <2>6 DEF Added
        <4> HIDE DEF Good
        <4> QED BY <4>1, <4>2
      <3>2. ASSUME NEW i \in s, Order[i] \in plan.tasks, plan.deps[Order[i]] \cap S # {}
            PROVE  Order[i] \in g[s]
        <4>1. CASE i = x
          <5>1. S \subseteq g[s \ {x}]
            BY <2>6
          <5> HIDE DEF Good
          <5> QED BY <2>6, <3>2, <4>1, <5>1 DEF Added
        <4>2. CASE i # x
          BY <2>6, <3>2, <4>2 DEF Added
        <4> QED BY <4>1, <4>2
      <3> QED BY <3>1, <3>2
    <2> QED BY <2>3, <2>7
  <1>5. Good(Spots)
    BY <1>4
  <1>6. \A t \in plan.tasks : \E i \in Spots : t = Order[i]
    BY SpotsAre
  <1> QED BY <1>2, <1>5, <1>6

Passes(f) ==
    f = [R \in SUBSET plan.tasks |-> IF Planning!Grown(R) = R THEN R ELSE f[Planning!Grown(R)]]

\* There is a function of the passes.
LEMMA PassesExist ==
    ASSUME PlanGiven, plan.tasks \subseteq Planning!Tasks PROVE \E f : Passes(f)
  <1> DEFINE D == SUBSET plan.tasks
             X == [D -> D]
             step(v, R) == IF Planning!Grown(R) = R THEN R ELSE v[Planning!Grown(R)]
             T == [v \in X |-> [R \in D |-> step(v, R)]]
             level == [R \in D |-> plan.tasks \ R]
  <1>1. \A v \in X, R \in D : step(v, R) \in D
    BY PassAdds
  <1>2. T \in [X -> X]
    <2>1. \A v \in X : [R \in D |-> step(v, R)] \in X
      <3> HIDE DEF step
      <3> QED BY <1>1
    <2> HIDE DEF step, X
    <2> QED BY <2>1
  <1>3. \A v \in X, R \in D : T[v][R] = step(v, R)
    <2> HIDE DEF step
    <2> QED OBVIOUS
  <1>4. X # {}
    <2>1. [R \in D |-> {}] \in X
      OBVIOUS
    <2> QED BY <2>1
  <1>5. Extensional(X, D)
    <2>1. \A v \in X : v = [R \in D |-> v[R]]
      OBVIOUS
    <2> QED BY <2>1 DEF Extensional
  <1>6. LowerOnly(X, D, T, level)
    <2>0. SUFFICES ASSUME NEW v \in X, NEW w \in X, NEW R \in D,
                        \A e \in D : level[e] \subseteq level[R] /\ level[e] # level[R] => v[e]
                              = w[e]
                 PROVE  step(v, R) = step(w, R)
      <3> HIDE DEF X, step, T, level, D
      <3> QED BY <1>3 DEF LowerOnly
    <2>1. CASE Planning!Grown(R) # R
      <3>1. Planning!Grown(R) \in D /\ R \subseteq Planning!Grown(R)
        BY PassAdds
      <3>2. level[Planning!Grown(R)] \subseteq level[R] /\ level[Planning!Grown(R)] # level[R]
        BY <2>1, <3>1
      <3> QED BY <2>0, <3>1, <3>2
    <2> QED BY <2>1
  <1>7. Mixing(X, D, plan.tasks, level)
    <2> SUFFICES ASSUME NEW v \in X, NEW w \in X, NEW U \in SUBSET plan.tasks
                 PROVE  \E u \in X : \A s \in D : (level[s] = U => u[s] = w[s])
                                              /\ (level[s] # U => u[s] = v[s])
      BY DEF Mixing
    <2>1. [s \in D |-> IF level[s] = U THEN w[s] ELSE v[s]] \in X
      OBVIOUS
    <2> QED BY <2>1
  <1>8. level \in [D -> SUBSET plan.tasks]
    OBVIOUS
  <1>9. IsFiniteSet(plan.tasks)
    BY TasksAreFinite, FS_Subset
  <1> HIDE DEF D, X, T, level, step
  <1>10. PICK f \in X : T[f] = f
    BY <1>2, <1>4, <1>5, <1>6, <1>7, <1>8, <1>9, RecursionExists
  <1>11. \A R \in D : f[R] = step(f, R)
    BY <1>3, <1>10
  <1>12. f = [R \in D |-> f[R]]
    BY DEF X
  <1>13. Passes(f)
    BY <1>11, <1>12 DEF Passes, D, step
  <1> QED BY <1>13

\* The passes end with a set that holds whatever depends on a member.
LEMMA DownstreamReaches ==
    ASSUME PlanGiven, PlanOf(plan), NEW S \in SUBSET plan.tasks
    PROVE  Planning!Reached(S) \subseteq Planning!Downstream(S)
  <1>1. plan.tasks \subseteq Planning!Tasks /\ IsFiniteSet(plan.tasks)
    BY TasksAreFinite, FS_Subset DEF PlanOf
  <1>2. PICK f : f = CHOOSE h : Passes(h)
    OBVIOUS
  <1>3. Planning!Downstream(S) = f[S] /\ Passes(f)
    BY <1>1, <1>2, PassesExist DEF Planning!Downstream, Passes
  <1>4. \A R \in SUBSET plan.tasks : f[R] = IF Planning!Grown(R)
            = R THEN R ELSE f[Planning!Grown(R)]
    BY <1>3 DEF Passes
  <1> DEFINE Good(R) == /\ R \subseteq f[R] /\ f[R] \in SUBSET plan.tasks
                        /\ \A u \in f[R] : Planning!Dependents(plan, u) \subseteq f[R]
             Bad == {plan.tasks \ R : R \in {Q \in SUBSET plan.tasks : ~Good(Q)}}
  <1>5. Bad = {}
    <2> SUFFICES ASSUME Bad # {} PROVE FALSE
      OBVIOUS
    <2>1. \A s \in Bad : IsFiniteSet(s)
      BY <1>1, FS_Subset
    <2>2. PICK s \in Bad : \A r \in Bad : r \subseteq s => r = s
      <3> HIDE DEF Bad
      <3> QED BY <2>1, LeastSet
    <2>3. PICK R \in SUBSET plan.tasks : ~Good(R) /\ s = plan.tasks \ R
      OBVIOUS
    <2>4. /\ R \subseteq Planning!Grown(R) /\ Planning!Grown(R) \in SUBSET plan.tasks
          /\ \A t \in plan.tasks : plan.deps[t] \cap R # {} => t \in Planning!Grown(R)
      BY <1>1, PassAdds
    <2>5. CASE Planning!Grown(R) = R
      <3>1. f[R] = R
        BY <1>4, <2>5
      <3> QED BY <2>3, <2>4, <2>5, <3>1 DEF Planning!Dependents
    <2>6. CASE Planning!Grown(R) # R
      <3>1. f[R] = f[Planning!Grown(R)]
        BY <1>4, <2>6
      <3>2. plan.tasks \ Planning!Grown(R) \notin Bad
        <4>1. plan.tasks \ Planning!Grown(R) \subseteq s /\ plan.tasks \ Planning!Grown(R) # s
          BY <2>3, <2>4, <2>6
        <4> HIDE DEF Bad
        <4> QED BY <2>2, <4>1
      <3>3. Good(Planning!Grown(R))
        <4> HIDE DEF Good
        <4> QED BY <2>4, <3>2
      <3> QED BY <2>3, <2>4, <3>1, <3>3
    <2> QED BY <2>5, <2>6
  <1>6. Good(S)
    <2> HIDE DEF Good
    <2> QED BY <1>5
  <1> QED BY <1>3, <1>6 DEF Planning!Reached

\* What a fork that is under way keeps is nothing that depends on what it was asked for.
ForkSpares == fork # Planning!NoFork => fork.keep \cap Planning!Reached(fork.asked) = {}

\* A fork under way, and one that is made, keeps nothing downstream of what it was asked.
LEMMA ForkSparesStep ==
    ASSUME PlanGiven, PlanInv, ForkSpares, [Planning!Next]_(Planning!vars)
    PROVE  /\ ForkSpares'
           /\ forks' # forks => kept' \cap Planning!Reached(fork.asked) = {}
  <1>1. CASE plan' = plan /\ fork' = fork /\ forks' = forks
    <2>1. \A S : Planning!Reached(S)' = Planning!Reached(S)
      BY <1>1 DEF Planning!Reached, Planning!Dependents
    <2> QED BY <1>1, <2>1 DEF ForkSpares
  <1>2. CASE phase = "planning" /\ fork' = fork /\ forks' = forks
    BY <1>2 DEF PlanInv, NothingYet, ForkSpares
  <1>3. CASE Planning!ForkRead
    <2>1. plan' = plan /\ forks' = forks
      BY <1>3 DEF Planning!ForkRead, Planning!planVars
    <2>2. PICK S \in SUBSET plan.tasks :
            LET keep == {t \in plan.tasks \ Planning!Downstream(S) : status[t] = "accepted"}
            IN fork' = [keep |-> keep, result |-> [t \in keep |-> result[t]], asked |-> S]
      BY <1>3 DEF Planning!ForkRead
    <2>3. fork'.keep \cap Planning!Downstream(S) = {} /\ fork'.asked = S
      BY <2>2
    <2>4. Planning!Reached(S) \subseteq Planning!Downstream(S)
      BY DownstreamReaches DEF PlanInv, PlanShapes
    <2>5. \A T : Planning!Reached(T)' = Planning!Reached(T)
      BY <2>1 DEF Planning!Reached, Planning!Dependents
    <2>6. Planning!Reached(fork.asked)' = Planning!Reached(S)
      BY <2>3, <2>5
    <2> QED BY <2>1, <2>3, <2>4, <2>6 DEF ForkSpares
  <1>4. CASE Planning!ForkCopy
    BY <1>4 DEF Planning!ForkCopy, Planning!Forking, ForkSpares
  <1>5. CASE Planning!PlanTeam \/ Planning!PlanDocument \/ Planning!PlanSingle
                 \/ Planning!PlanError
    BY <1>2, <1>5 DEF Planning!PlanTeam, Planning!PlanDocument, Planning!PlanSingle,
       Planning!PlanError, Planning!Accept, Planning!forkVars
  <1>6. ASSUME NEW t \in Planning!Tasks,
               Planning!Work(t) \/ Planning!Fail(t) \/ Planning!Review(t) \/ Planning!Settle(t)
        PROVE plan' = plan /\ fork' = fork /\ forks' = forks
    BY <1>6 DEF Planning!Work, Planning!Fail, Planning!Review, Planning!Settle,
       Planning!planVars, Planning!forkVars
  <1>7. CASE UNCHANGED Planning!vars
    BY <1>1, <1>7 DEF Planning!vars, Planning!planVars, Planning!forkVars
  <1> QED BY <1>1, <1>3, <1>4, <1>5, <1>6, <1>7 DEF Planning!Next

-----------------------------------------------------------------------------
(* The search for cycles                                                   *)

\* FoldSet over the members of I, with a visit of each of them.
Picked(s) == CHOOSE x \in s : TRUE
Searches(g, v, start, I) ==
    g = [s \in SUBSET I |->
           IF s = {} THEN start ELSE v[<<g[s \ {Picked(s)}], Picked(s)>>]]
Below(v, start, I) == (CHOOSE g : Searches(g, v, start, I))[I]

\* What a visit returns, as a function of the visits of lower levels.
Seen(p) == [p.tasks -> Planning!Marks]
Visited(p, v, cell) ==
    LET known == cell[1]
        t == cell[2]
        below == Below(v, [known EXCEPT ![t] = "open"], p.deps[t] \cap p.tasks)
    IN CASE known[t] \in {"done", "cycle"} -> known
         [] known[t] = "open" -> [u \in p.tasks |-> "cycle"]
         [] known[t] = "new" -> IF below[t] = "cycle" THEN below
                               ELSE [below EXCEPT ![t] = "done"]
Visits(v, p) == v = [cell \in Seen(p) \X p.tasks |-> Visited(p, v, cell)]

\* Visit is a function that visits.
LEMMA VisitIs == ASSUME NEW p PROVE Planning!Visit(p) = CHOOSE v : Visits(v, p)
  BY DEF Planning!Visit, Planning!FoldSet, Planning!MapThenFoldSet, Visits, Visited, Below,
     Searches, Picked, Seen

\* Cyclic visits every task.
LEMMA CyclicIs ==
    ASSUME NEW p
    PROVE  Planning!Cyclic(p) <=>
             \E t \in p.tasks :
                 Below(Planning!Visit(p), [u \in p.tasks |-> "new"], p.tasks)[t] = "cycle"
  BY DEF Planning!Cyclic, Planning!FoldSet, Planning!MapThenFoldSet, Below, Searches, Picked

\* The step that visits s takes what holds before it to what holds of s.
StepsTo(R, v, I) ==
    \A s \in SUBSET I : s # {} => \A a \in R[s \ {Picked(s)}] : v[<<a, Picked(s)>>] \in R[s]

\* What holds of the start of a fold and is kept by each of its steps holds of its value.
LEMMA FoldInduction ==
    ASSUME NEW I, IsFiniteSet(I), NEW v, NEW start, NEW g, Searches(g, v, start, I),
           NEW R, start \in R[{}], StepsTo(R, v, I)
    PROVE  \A s \in SUBSET I : g[s] \in R[s]
  <1> DEFINE Bad == {s \in SUBSET I : g[s] \notin R[s]}
  <1>1. SUFFICES ASSUME Bad # {} PROVE FALSE
    OBVIOUS
  <1>2. \A s \in Bad : IsFiniteSet(s)
    BY FS_Subset
  <1>3. PICK s \in Bad : \A r \in Bad : r \subseteq s => r = s
    <2> HIDE DEF Bad
    <2> QED BY <1>1, <1>2, LeastSet
  <1>4. g[s] = IF s = {} THEN start ELSE v[<<g[s \ {Picked(s)}], Picked(s)>>]
    <2>1. s \in SUBSET I
      OBVIOUS
    <2> QED BY <2>1 DEF Searches
  <1>5. s # {}
    BY <1>4
  <1>6. Picked(s) \in s
    BY <1>5 DEF Picked
  <1>7. g[s \ {Picked(s)}] \in R[s \ {Picked(s)}]
    <2>1. s \ {Picked(s)} \subseteq s /\ s \ {Picked(s)} # s /\ s \ {Picked(s)} \in SUBSET I
      BY <1>6
    <2>2. s \ {Picked(s)} \notin Bad
      <3> HIDE DEF Bad
      <3> QED BY <1>3, <2>1
    <2> QED BY <2>1, <2>2
  <1>8. g[s] \in R[s]
    BY <1>4, <1>5, <1>7 DEF StepsTo
  <1> QED BY <1>8

\* The visits of the members of I stay in A.
StaysIn(A, v, I) == \A a \in A, x \in I : v[<<a, x>>] \in A

\* A fold whose steps stay in a set has a value, which is in it.
LEMMA SearchExists ==
    ASSUME NEW I, IsFiniteSet(I), NEW A, NEW start \in A, NEW v, StaysIn(A, v, I)
    PROVE  \E g : Searches(g, v, start, I)
  <1> DEFINE op == [c \in I \X A |-> v[<<c[2], c[1]>>]]
             pick == [s \in SUBSET I |-> Picked(s)]
  <1>1. \A s \in SUBSET I : s # {} => Picked(s) \in s
    BY DEF Picked
  <1>2. PicksFrom(I, pick)
    BY <1>1 DEF PicksFrom
  <1>3. \A x \in I, a \in A : op[<<x, a>>] = v[<<a, x>>]
    OBVIOUS
  <1>4. FoldStays(I, A, op)
    <2> HIDE DEF op
    <2> QED BY <1>3 DEF FoldStays, StaysIn
  <1>5. \A s \in SUBSET I : pick[s] = Picked(s)
    OBVIOUS
  <1> HIDE DEF op, pick
  <1>6. PICK g \in [SUBSET I -> A] : Folds(g, I, start, pick, op)
    BY <1>2, <1>4, FoldExists
  <1>7. \A s \in SUBSET I :
           g[s] = IF s = {} THEN start ELSE v[<<g[s \ {Picked(s)}], Picked(s)>>]
    <2> SUFFICES ASSUME NEW s \in SUBSET I, s # {}
                 PROVE  g[s] = v[<<g[s \ {Picked(s)}], Picked(s)>>]
      BY <1>6 DEF Folds
    <2>1. Picked(s) \in I /\ g[s \ {Picked(s)}] \in A
      BY <1>1
    <2>2. g[s] = op[<<Picked(s), g[s \ {Picked(s)}]>>]
      BY <1>5, <1>6 DEF Folds
    <2> QED BY <1>3, <2>1, <2>2
  <1>8. Searches(g, v, start, I)
    <2>1. g = [s \in SUBSET I |-> g[s]]
      OBVIOUS
    <2> QED BY <1>7, <2>1 DEF Searches
  <1> QED BY <1>8

\* The value of such a fold.
LEMMA BelowIs ==
    ASSUME NEW I, IsFiniteSet(I), NEW A, NEW start \in A, NEW v, StaysIn(A, v, I),
           NEW R, start \in R[{}], StepsTo(R, v, I)
    PROVE  Below(v, start, I) \in R[I]
  <1>1. PICK g : g = CHOOSE h : Searches(h, v, start, I)
    OBVIOUS
  <1>2. Searches(g, v, start, I)
    BY <1>1, SearchExists
  <1>3. g[I] \in R[I]
    BY <1>2, FoldInduction
  <1> QED BY <1>1, <1>3 DEF Below

\* Visits that agree on that set have the same value.
LEMMA BelowAgrees ==
    ASSUME NEW I, IsFiniteSet(I), NEW A, NEW start \in A, NEW v, StaysIn(A, v, I), NEW w,
           \A a \in A, x \in I : v[<<a, x>>] = w[<<a, x>>]
    PROVE  Below(v, start, I) = Below(w, start, I)
  <1>1. StaysIn(A, w, I)
    BY DEF StaysIn
  <1>2. PICK h : Searches(h, w, start, I) /\ Below(w, start, I) = h[I]
    BY <1>1, SearchExists DEF Below
  <1> DEFINE Q == [s \in SUBSET I |-> A]
             R == [s \in SUBSET I |-> {h[s]}]
  <1>3. \A s \in SUBSET I : h[s] \in A
    <2>1. start \in Q[{}] /\ \A s \in SUBSET I : Q[s] = A
      OBVIOUS
    <2> HIDE DEF Q
    <2>2. StepsTo(Q, w, I)
      <3> SUFFICES ASSUME NEW s \in SUBSET I, s # {}, NEW a \in Q[s \ {Picked(s)}]
                   PROVE  w[<<a, Picked(s)>>] \in Q[s]
        BY DEF StepsTo
      <3>1. Picked(s) \in I /\ a \in A
        BY <2>1 DEF Picked
      <3> QED BY <1>1, <2>1, <3>1 DEF StaysIn
    <2>3. \A s \in SUBSET I : h[s] \in Q[s]
      BY <1>2, <2>1, <2>2, FoldInduction
    <2> QED BY <2>1, <2>3
  <1>4. \A s \in SUBSET I : h[s] = IF s = {} THEN start
                                   ELSE w[<<h[s \ {Picked(s)}], Picked(s)>>]
    BY <1>2 DEF Searches
  <1>5. start \in R[{}] /\ \A s \in SUBSET I : R[s] = {h[s]}
    BY <1>4
  <1> HIDE DEF R
  <1>6. StepsTo(R, v, I)
    <2> SUFFICES ASSUME NEW s \in SUBSET I, s # {}, NEW a \in R[s \ {Picked(s)}]
                 PROVE  v[<<a, Picked(s)>>] \in R[s]
      BY DEF StepsTo
    <2>1. Picked(s) \in I /\ s \ {Picked(s)} \in SUBSET I
      BY DEF Picked
    <2>2. a = h[s \ {Picked(s)}] /\ a \in A
      BY <1>3, <1>5, <2>1
    <2>3. v[<<a, Picked(s)>>] = w[<<a, Picked(s)>>]
      BY <2>1, <2>2
    <2>4. v[<<a, Picked(s)>>] = h[s]
      BY <1>4, <2>2, <2>3
    <2> QED BY <1>5, <2>4
  <1>7. Below(v, start, I) \in R[I]
    BY <1>5, <1>6, BelowIs
  <1> QED BY <1>2, <1>5, <1>7

\* The tasks a search has not seen, is visiting, has done; a search that gave up.
Unseen(p, s) == {t \in p.tasks : s[t] = "new"}
Visiting(p, s) == {t \in p.tasks : s[t] = "open"}
Done(p, s) == {t \in p.tasks : s[t] = "done"}
GaveUp(p, s) == \A t \in p.tasks : s[t] = "cycle"

Shrinks(p, v) ==
    \A s \in Seen(p), t \in p.tasks :
        v[<<s, t>>] \in Seen(p) /\ Unseen(p, v[<<s, t>>]) \subseteq Unseen(p, s)

\* The searches that a visit of t starts with, once it has marked t as open.
Within(p, s, t) == {a \in Seen(p) : Unseen(p, a) \subseteq Unseen(p, s) \ {t}}

\* A visit that may rely on visits with fewer tasks unseen sees no task less.
LEMMA VisitedShrinks ==
    ASSUME NEW p, IsFiniteSet(p.tasks), NEW v, NEW s \in Seen(p), NEW t \in p.tasks,
           s[t] = "new" => StaysIn(Within(p, s, t), v, p.deps[t] \cap p.tasks)
    PROVE  /\ Visited(p, v, <<s, t>>) \in Seen(p)
           /\ Unseen(p, Visited(p, v, <<s, t>>)) \subseteq Unseen(p, s)
  <1> DEFINE I == p.deps[t] \cap p.tasks
             start == [s EXCEPT ![t] = "open"]
             below == Below(v, start, I)
  <1>1. s[t] \in {"new", "open", "done", "cycle"}
    BY DEF Seen, Planning!Marks
  <1>2. CASE s[t] \in {"done", "cycle"}
    BY <1>2 DEF Visited
  <1>3. CASE s[t] = "open"
    <2>1. Visited(p, v, <<s, t>>) = [u \in p.tasks |-> "cycle"]
      BY <1>3 DEF Visited
    <2> QED BY <2>1 DEF Seen, Unseen, Planning!Marks
  <1>4. CASE s[t] = "new"
    <2>1. Visited(p, v, <<s, t>>) = IF below[t] = "cycle" THEN below
                                    ELSE [below EXCEPT ![t] = "done"]
      BY <1>4 DEF Visited
    <2>2. start \in Within(p, s, t)
      BY <1>4 DEF Within, Seen, Unseen, Planning!Marks
    <2> DEFINE R == [r \in SUBSET I |-> Within(p, s, t)]
    <2>3. IsFiniteSet(I)
      BY FS_Subset
    <2>4. I \in SUBSET I /\ {} \in SUBSET I /\ \A r \in SUBSET I : R[r] = Within(p, s, t)
      OBVIOUS
    <2>5. StepsTo(R, v, I)
      <3> HIDE DEF R, I
      <3> SUFFICES ASSUME NEW r \in SUBSET I, r # {}, NEW a \in R[r \ {Picked(r)}]
                   PROVE  v[<<a, Picked(r)>>] \in R[r]
        BY DEF StepsTo
      <3>1. Picked(r) \in I /\ a \in Within(p, s, t)
        BY <2>4 DEF Picked
      <3>2. StaysIn(Within(p, s, t), v, I)
        BY <1>4 DEF I
      <3> QED BY <2>4, <3>1, <3>2 DEF StaysIn
    <2>6. below \in Within(p, s, t)
      <3>1. start \in R[{}]
        BY <2>2, <2>4
      <3>2. StaysIn(Within(p, s, t), v, I)
        BY <1>4
      <3> HIDE DEF R, I, start
      <3>3. Below(v, start, I) \in R[I]
        BY <2>2, <2>3, <2>5, <3>1, <3>2, BelowIs
      <3> QED BY <2>4, <3>3
    <2> HIDE DEF below
    <2>7. below \in Seen(p) /\ Unseen(p, below) \subseteq Unseen(p, s) \ {t}
      BY <2>6 DEF Within
    <2>8. [below EXCEPT ![t] = "done"] \in Seen(p)
          /\ Unseen(p, [below EXCEPT ![t] = "done"]) \subseteq Unseen(p, s)
      BY <2>7 DEF Seen, Unseen, Planning!Marks
    <2> QED BY <2>1, <2>7, <2>8
  <1> QED BY <1>1, <1>2, <1>3, <1>4

\* There is a function that visits.
LEMMA VisitsExist ==
    ASSUME NEW p, IsFiniteSet(p.tasks) PROVE \E v : Visits(v, p)
  <1> DEFINE D == Seen(p) \X p.tasks
             X == {v \in [D -> Seen(p)] : Shrinks(p, v)}
             T == [v \in X |-> [cell \in D |-> Visited(p, v, cell)]]
             level == [cell \in D |-> Unseen(p, cell[1])]
  <1>1. ASSUME NEW v \in X, NEW s \in Seen(p), NEW t \in p.tasks, s[t] = "new"
        PROVE  StaysIn(Within(p, s, t), v, p.deps[t] \cap p.tasks)
    BY DEF StaysIn, Within, Shrinks
  <1>2. ASSUME NEW v \in X PROVE [cell \in D |-> Visited(p, v, cell)] \in X
    <2>1. ASSUME NEW s \in Seen(p), NEW t \in p.tasks
          PROVE  /\ Visited(p, v, <<s, t>>) \in Seen(p)
                 /\ Unseen(p, Visited(p, v, <<s, t>>)) \subseteq Unseen(p, s)
      <3> HIDE DEF X
      <3> QED BY <1>1, VisitedShrinks
    <2>2. \A cell \in D : cell = <<cell[1],
          cell[2]>> /\ cell[1] \in Seen(p) /\ cell[2] \in p.tasks
      OBVIOUS
    <2>3. PICK w : w = [cell \in D |-> Visited(p, v, cell)]
      OBVIOUS
    <2>4. w \in [D -> Seen(p)]
      BY <2>1, <2>2, <2>3
    <2>5. \A s \in Seen(p), t \in p.tasks : w[<<s, t>>] = Visited(p, v, <<s, t>>)
      BY <2>3
    <2>6. Shrinks(p, w)
      BY <2>1, <2>5 DEF Shrinks
    <2> QED BY <2>3, <2>4, <2>6
  <1>3. T \in [X -> X]
    <2> HIDE DEF X, D
    <2> QED BY <1>2
  <1>4. \A v \in X, cell \in D : T[v][cell] = Visited(p, v, cell)
    <2> HIDE DEF X
    <2> QED OBVIOUS
  <1>5. X # {}
    <2>1. PICK v : v = [cell \in D |-> cell[1]]
      OBVIOUS
    <2>2. v \in [D -> Seen(p)] /\ \A s \in Seen(p), t \in p.tasks : v[<<s, t>>] = s
      BY <2>1
    <2>3. v \in X
      BY <2>2 DEF Shrinks
    <2> QED BY <2>3
  <1>6. Extensional(X, D)
    <2>1. \A v \in X : v = [cell \in D |-> v[cell]]
      OBVIOUS
    <2> HIDE DEF X, D
    <2> QED BY <2>1 DEF Extensional
  <1>7. LowerOnly(X, D, T, level)
    <2>0. SUFFICES ASSUME NEW v \in X, NEW w \in X, NEW s \in Seen(p), NEW t \in p.tasks,
                          \A a \in Seen(p), x \in p.tasks :
                             Unseen(p, a) \subseteq Unseen(p, s) /\ Unseen(p, a) # Unseen(p, s)
                                => v[<<a, x>>] = w[<<a, x>>]
                   PROVE  Visited(p, v, <<s, t>>) = Visited(p, w, <<s, t>>)
      <3>1. \A cell \in D : cell = <<cell[1],
            cell[2]>> /\ cell[1] \in Seen(p) /\ cell[2] \in p.tasks
                          /\ level[cell] = Unseen(p, cell[1])
        OBVIOUS
      <3>2. \A a \in Seen(p), x \in p.tasks : <<a, x>> \in D /\ level[<<a, x>>] = Unseen(p, a)
        OBVIOUS
      <3> HIDE DEF X, T, level, D
      <3> QED BY <1>4, <3>1, <3>2 DEF LowerOnly
    <2>1. CASE s[t] = "new"
      <3> DEFINE I == p.deps[t] \cap p.tasks
                 start == [s EXCEPT ![t] = "open"]
      <3>1. start \in Within(p, s, t)
        BY <2>1 DEF Within, Seen, Unseen, Planning!Marks
      <3>2. IsFiniteSet(I)
        BY FS_Subset
      <3>3. StaysIn(Within(p, s, t), v, I)
        BY <1>1, <2>1
      <3>4. \A a \in Within(p, s, t), x \in I : v[<<a, x>>] = w[<<a, x>>]
        <4>1. t \in Unseen(p, s)
          BY <2>1 DEF Unseen
        <4> QED BY <2>0, <4>1 DEF Within
      <3>5. Below(v, start, I) = Below(w, start, I)
        <4> HIDE DEF start, I
        <4> QED BY <3>1, <3>2, <3>3, <3>4, BelowAgrees
      <3> HIDE DEF X
      <3> QED BY <3>5 DEF Visited
    <2>2. CASE s[t] # "new"
      <3> HIDE DEF X
      <3>1. s[t] \in {"open", "done", "cycle"}
        BY <2>2 DEF Seen, Planning!Marks
      <3> QED BY <3>1 DEF Visited
    <2> QED BY <2>1, <2>2
  <1>8. Mixing(X, D, p.tasks, level)
    <2>0. SUFFICES ASSUME NEW v \in X, NEW w \in X, NEW U \in SUBSET p.tasks
                   PROVE  \E u \in X : \A s \in D : (level[s] = U => u[s] = w[s])
                                                /\ (level[s] # U => u[s] = v[s])
      <3> HIDE DEF X, D, level
      <3> QED BY DEF Mixing
    <2>1. PICK u : u = [cell \in D |-> IF level[cell] = U THEN w[cell] ELSE v[cell]]
      OBVIOUS
    <2>2. u \in [D -> Seen(p)] /\ \A cell \in D : u[cell] \in {w[cell], v[cell]}
      <3> HIDE DEF level
      <3> QED BY <2>1
    <2>3. Shrinks(p, u)
      <3>1. \A s \in Seen(p), t \in p.tasks : <<s, t>> \in D
        OBVIOUS
      <3>2. Shrinks(p, v) /\ Shrinks(p, w)
        OBVIOUS
      <3> HIDE DEF D, X, level
      <3> QED BY <2>2, <3>1, <3>2 DEF Shrinks
    <2>4. u \in X
      BY <2>2, <2>3
    <2>5. \A s \in D : (level[s] = U => u[s] = w[s]) /\ (level[s] # U => u[s] = v[s])
      <3> HIDE DEF level
      <3> QED BY <2>1
    <2> HIDE DEF X, D, level
    <2> QED BY <2>4, <2>5
  <1>9. level \in [D -> SUBSET p.tasks]
    BY DEF Unseen
  <1> HIDE DEF D, X, T, level
  <1>10. PICK v \in X : T[v] = v
    BY <1>3, <1>5, <1>6, <1>7, <1>8, <1>9, RecursionExists
  <1>11. \A cell \in D : v[cell] = Visited(p, v, cell)
    BY <1>4, <1>10
  <1>12. v = [cell \in D |-> v[cell]]
    BY DEF X
  <1>13. Visits(v, p)
    BY <1>11, <1>12 DEF Visits, D
  <1> QED BY <1>13

\* Every function that visits shrinks.
LEMMA VisitsShrink ==
    ASSUME NEW p, IsFiniteSet(p.tasks), NEW v, Visits(v, p) PROVE Shrinks(p, v)
  <1> DEFINE Good(s) == \A t \in p.tasks : v[<<s, t>>] \in Seen(p)
                                      /\ Unseen(p, v[<<s, t>>]) \subseteq Unseen(p, s)
             Bad == {Unseen(p, s) : s \in {a \in Seen(p) : ~Good(a)}}
  <1>1. SUFFICES ASSUME Bad # {} PROVE FALSE
    BY DEF Shrinks
  <1>2. \A U \in Bad : IsFiniteSet(U)
    BY FS_Subset DEF Unseen
  <1>3. PICK U \in Bad : \A V \in Bad : V \subseteq U => V = U
    <2> HIDE DEF Bad
    <2> QED BY <1>1, <1>2, LeastSet
  <1>4. PICK s \in Seen(p) : ~Good(s) /\ U = Unseen(p, s)
    OBVIOUS
  <1>5. \A a \in Seen(p) : Unseen(p, a) \subseteq U /\ Unseen(p, a) # U => Good(a)
    <2>1. \A a \in Seen(p) : ~Good(a) => Unseen(p, a) \in Bad
      OBVIOUS
    <2> HIDE DEF Bad, Good
    <2> QED BY <1>3, <2>1
  <1>6. ASSUME NEW t \in p.tasks
        PROVE  v[<<s, t>>] \in Seen(p) /\ Unseen(p, v[<<s, t>>]) \subseteq Unseen(p, s)
    <2>1. ASSUME s[t] = "new" PROVE StaysIn(Within(p, s, t), v, p.deps[t] \cap p.tasks)
      <3>1. ASSUME NEW a \in Within(p, s, t), NEW x \in p.deps[t] \cap p.tasks
            PROVE  v[<<a, x>>] \in Within(p, s, t)
        <4>1. t \in U /\ a \in Seen(p) /\ Unseen(p, a) \subseteq U \ {t}
          BY <1>4, <2>1 DEF Within, Unseen
        <4>2. Good(a)
          <5> HIDE DEF Good
          <5> QED BY <1>5, <4>1
        <4> QED BY <1>4, <4>1, <4>2 DEF Within
      <3> QED BY <3>1 DEF StaysIn
    <2>2. v[<<s, t>>] = Visited(p, v, <<s, t>>)
      BY DEF Visits
    <2> QED BY <2>1, <2>2, VisitedShrinks
  <1> QED BY <1>4, <1>6

\* No member of a set depends on one of another: every part of S has a member that
\* depends on nothing in that part.
Sourced(p, S) == \A U \in SUBSET S : U # {} => \E t \in U : p.deps[t] \cap U = {}

\* A search has found a cycle, or none among what it has done, which is closed.
SearchOK(p, s) ==
    \/ GaveUp(p, s)
    \/ /\ \A t \in p.tasks : s[t] # "cycle"
       /\ \A t \in Done(p, s) : p.deps[t] \cap p.tasks \subseteq Done(p, s)
       /\ Sourced(p, Done(p, s))

\* What a search from s that has visited all of I ends with.
After(p, s, I, r) ==
    /\ r \in Seen(p) /\ SearchOK(p, r)
    /\ GaveUp(p, s) => GaveUp(p, r)
    /\ \/ GaveUp(p, r)
       \/ Visiting(p, r) = Visiting(p, s) /\ Done(p, s) \cup I \subseteq Done(p, r)

\* What a visit of any of I ends with, from the searches in A.
VisitsWell(p, A, v, I) ==
    \A a \in A, x \in I : SearchOK(p, a) => After(p, a, {x}, v[<<a, x>>])

\* The visits of several tasks in turn.
LEMMA FoldAfter ==
    ASSUME NEW p, NEW I \in SUBSET p.tasks, IsFiniteSet(I), NEW A \in SUBSET Seen(p),
           NEW start \in A, SearchOK(p, start), NEW v, StaysIn(A, v, I), VisitsWell(p, A, v, I)
    PROVE  Below(v, start, I) \in A /\ After(p, start, I, Below(v, start, I))
  <1> DEFINE R == [r \in SUBSET I |-> {a \in A : After(p, start, r, a)}]
  <1>1. start \in R[{}]
    BY DEF After
  <1>2. \A r \in SUBSET I : R[r] = {a \in A : After(p, start, r, a)}
    OBVIOUS
  <1> HIDE DEF R
  <1>3. StepsTo(R, v, I)
    <2> SUFFICES ASSUME NEW r \in SUBSET I, r # {}, NEW a \in R[r \ {Picked(r)}]
                 PROVE  v[<<a, Picked(r)>>] \in R[r]
      BY DEF StepsTo
    <2>1. Picked(r) \in r
      BY DEF Picked
    <2>2. r \ {Picked(r)} \in SUBSET I
      OBVIOUS
    <2>3. a \in A /\ After(p, start, r \ {Picked(r)}, a)
      BY <1>2, <2>2
    <2>4. PICK b : b = v[<<a, Picked(r)>>]
      OBVIOUS
    <2>5. b \in A /\ After(p, a, {Picked(r)}, b)
      BY <2>1, <2>3, <2>4 DEF StaysIn, VisitsWell, After
    <2>6. After(p, start, r, b)
      BY <2>1, <2>3, <2>5 DEF After
    <2> QED BY <1>2, <2>4, <2>5, <2>6
  <1>4. Below(v, start, I) \in R[I]
    BY <1>1, <1>3, BelowIs
  <1> QED BY <1>2, <1>4

\* A task whose dependencies are done, and of which nothing done depends, adds no cycle.
LEMMA OneMoreDone ==
    ASSUME NEW p, NEW S \in SUBSET p.tasks, NEW t \in p.tasks, t \notin S, Sourced(p, S),
           \A u \in S : p.deps[u] \cap p.tasks \subseteq S, p.deps[t] \cap p.tasks \subseteq S
    PROVE  Sourced(p, S \cup {t})
  <1> SUFFICES ASSUME NEW U \in SUBSET (S \cup {t}), U # {}
               PROVE  \E u \in U : p.deps[u] \cap U = {}
    BY DEF Sourced
  <1>1. CASE U \cap S = {}
    <2>1. U = {t} /\ t \notin p.deps[t]
      BY <1>1
    <2> QED BY <2>1
  <1>2. CASE U \cap S # {}
    <2>1. PICK u \in U \cap S : p.deps[u] \cap (U \cap S) = {}
      BY <1>2 DEF Sourced
    <2>2. p.deps[u] \cap U = {}
      BY <2>1
    <2> QED BY <2>1, <2>2
  <1> QED BY <1>1, <1>2

\* A visit that may rely on visits with fewer tasks unseen finds a cycle or ends with its
\* task done.
LEMMA VisitedWell ==
    ASSUME NEW p, IsFiniteSet(p.tasks), NEW v, NEW s \in Seen(p), NEW t \in p.tasks,
           SearchOK(p, s), Visited(p, v, <<s, t>>) \in Seen(p),
           s[t] = "new" => /\ StaysIn(Within(p, s, t), v, p.deps[t] \cap p.tasks)
                           /\ VisitsWell(p, Within(p, s, t), v, p.deps[t] \cap p.tasks)
    PROVE  After(p, s, {t}, Visited(p, v, <<s, t>>))
  <1> DEFINE I == p.deps[t] \cap p.tasks
             start == [s EXCEPT ![t] = "open"]
             below == Below(v, start, I)
  <1>1. s[t] \in {"new", "open", "done", "cycle"}
    BY DEF Seen, Planning!Marks
  <1>2. CASE s[t] \in {"done", "cycle"}
    <2>1. Visited(p, v, <<s, t>>) = s
      BY <1>2 DEF Visited
    <2>2. s[t] = "cycle" => GaveUp(p, s)
      BY DEF SearchOK
    <2> QED BY <1>2, <2>1, <2>2 DEF After, Done
  <1>3. CASE s[t] = "open"
    <2>1. Visited(p, v, <<s, t>>) = [u \in p.tasks |-> "cycle"]
      BY <1>3 DEF Visited
    <2>2. GaveUp(p, Visited(p, v, <<s, t>>))
      BY <2>1 DEF GaveUp
    <2> QED BY <2>2 DEF After, SearchOK
  <1>4. CASE s[t] = "new"
    <2>1. Visited(p, v, <<s, t>>) = IF below[t] = "cycle" THEN below
                                    ELSE [below EXCEPT ![t] = "done"]
      BY <1>4 DEF Visited
    <2>2. start \in Within(p, s, t)
      BY <1>4 DEF Within, Seen, Unseen, Planning!Marks
    <2>3. ~GaveUp(p, s)
      BY <1>4 DEF GaveUp
    <2>4. Done(p, start) = Done(p, s) /\ Visiting(p, start) = Visiting(p, s) \cup {t}
          /\ t \notin Visiting(p, s)
      BY <1>4 DEF Done, Visiting, Seen
    <2>5. SearchOK(p, start)
      <3>1. \A u \in p.tasks : start[u] # "cycle"
        BY <2>3 DEF SearchOK, Seen
      <3> HIDE DEF start
      <3> QED BY <2>3, <2>4, <3>1 DEF SearchOK
    <2>6. After(p, start, I, below)
      <3>1. IsFiniteSet(I) /\ I \in SUBSET p.tasks
        BY FS_Subset
      <3>2. Within(p, s, t) \in SUBSET Seen(p)
        BY DEF Within
      <3>3. StaysIn(Within(p, s, t), v, I) /\ VisitsWell(p, Within(p, s, t), v, I)
        BY <1>4
      <3> HIDE DEF I, start
      <3> QED BY <2>2, <2>5, <3>1, <3>2, <3>3, FoldAfter
    <2> HIDE DEF below, start
    <2>7. CASE below[t] = "cycle"
      <3>1. GaveUp(p, below)
        BY <2>6, <2>7 DEF After, SearchOK
      <3> QED BY <2>1, <2>6, <2>7, <3>1 DEF After
    <2>8. CASE below[t] # "cycle"
      <3>1. ~GaveUp(p, below)
        BY <2>8 DEF GaveUp
      <3>2. /\ below \in Seen(p) /\ \A u \in p.tasks : below[u] # "cycle"
            /\ \A u \in Done(p, below) : p.deps[u] \cap p.tasks \subseteq Done(p, below)
            /\ Sourced(p, Done(p, below))
            /\ Visiting(p, below) = Visiting(p, s) \cup {t}
            /\ Done(p, s) \cup I \subseteq Done(p, below)
        BY <2>4, <2>6, <3>1 DEF After, SearchOK
      <3>3. below[t] = "open" /\ t \notin Done(p, below)
        BY <3>2 DEF Visiting, Done
      <3>4. PICK r : r = [below EXCEPT ![t] = "done"]
        OBVIOUS
      <3>5. /\ r \in Seen(p) /\ \A u \in p.tasks : r[u] # "cycle"
            /\ Done(p, r) = Done(p, below) \cup {t}
            /\ Visiting(p, r) = Visiting(p, below) \ {t}
        BY <3>2, <3>3, <3>4 DEF Seen, Done, Visiting, Planning!Marks
      <3>6. Done(p, below) \in SUBSET p.tasks
        BY DEF Done
      <3>7. Sourced(p, Done(p, r))
        BY <3>2, <3>3, <3>5, <3>6, OneMoreDone
      <3>8. SearchOK(p, r)
        BY <3>2, <3>5, <3>7 DEF SearchOK
      <3>9. Visited(p, v, <<s, t>>) = r
        BY <2>1, <2>8, <3>4
      <3> QED BY <2>3, <2>4, <3>2, <3>5, <3>8, <3>9 DEF After
    <2> QED BY <2>7, <2>8
  <1> QED BY <1>1, <1>2, <1>3, <1>4

\* So does every visit of a function that visits.
LEMMA VisitsAreWell ==
    ASSUME NEW p, IsFiniteSet(p.tasks), NEW v, Visits(v, p)
    PROVE  VisitsWell(p, Seen(p), v, p.tasks)
  <1> DEFINE Good(s) == \A t \in p.tasks : SearchOK(p, s) => After(p, s, {t}, v[<<s, t>>])
             Bad == {Unseen(p, s) : s \in {a \in Seen(p) : ~Good(a)}}
  <1>0. Shrinks(p, v)
    BY VisitsShrink
  <1>1. SUFFICES ASSUME Bad # {} PROVE FALSE
    BY DEF VisitsWell
  <1>2. \A U \in Bad : IsFiniteSet(U)
    BY FS_Subset DEF Unseen
  <1>3. PICK U \in Bad : \A V \in Bad : V \subseteq U => V = U
    <2> HIDE DEF Bad
    <2> QED BY <1>1, <1>2, LeastSet
  <1>4. PICK s \in Seen(p) : ~Good(s) /\ U = Unseen(p, s)
    OBVIOUS
  <1>5. \A a \in Seen(p) : Unseen(p, a) \subseteq U /\ Unseen(p, a) # U => Good(a)
    <2>1. \A a \in Seen(p) : ~Good(a) => Unseen(p, a) \in Bad
      OBVIOUS
    <2> HIDE DEF Bad, Good
    <2> QED BY <1>3, <2>1
  <1>6. ASSUME NEW t \in p.tasks, SearchOK(p, s) PROVE After(p, s, {t}, v[<<s, t>>])
    <2>1. ASSUME s[t] = "new" PROVE /\ StaysIn(Within(p, s, t), v, p.deps[t] \cap p.tasks)
                                    /\ VisitsWell(p, Within(p, s, t), v, p.deps[t] \cap p.tasks)
      <3>1. ASSUME NEW a \in Within(p, s, t), NEW x \in p.deps[t] \cap p.tasks
            PROVE  /\ v[<<a, x>>] \in Within(p, s, t)
                   /\ SearchOK(p, a) => After(p, a, {x}, v[<<a, x>>])
        <4>1. t \in U /\ a \in Seen(p) /\ Unseen(p, a) \subseteq U \ {t}
          BY <1>4, <2>1 DEF Within, Unseen
        <4>2. Good(a)
          <5> HIDE DEF Good
          <5> QED BY <1>5, <4>1
        <4> QED BY <1>0, <1>4, <4>1, <4>2 DEF Within, Shrinks
      <3> QED BY <3>1 DEF StaysIn, VisitsWell
    <2>2. v[<<s, t>>] = Visited(p, v, <<s, t>>) /\ v[<<s, t>>] \in Seen(p)
      BY <1>0 DEF Visits, Shrinks
    <2> QED BY <1>6, <2>1, <2>2, VisitedWell
  <1> QED BY <1>4, <1>6

\* The search finds every cycle: in a plan that passes it, every set of tasks has one that
\* depends on no other of the set.
LEMMA AcyclicPlans ==
    ASSUME NEW p, IsFiniteSet(p.tasks), ~Planning!Cyclic(p) PROVE Sourced(p, p.tasks)
  <1> DEFINE start == [u \in p.tasks |-> "new"]
  <1>1. PICK v : v = Planning!Visit(p)
    OBVIOUS
  <1>2. Visits(v, p)
    BY <1>1, VisitIs, VisitsExist
  <1>3. StaysIn(Seen(p), v, p.tasks) /\ VisitsWell(p, Seen(p), v, p.tasks)
    BY <1>2, VisitsShrink, VisitsAreWell DEF Shrinks, StaysIn
  <1>4. start \in Seen(p) /\ Done(p, start) = {} /\ \A u \in p.tasks : start[u] # "cycle"
    BY DEF Seen, Done, Planning!Marks
  <1>5. \A t \in p.tasks : Below(v, start, p.tasks)[t] # "cycle"
    BY <1>1, CyclicIs
  <1> HIDE DEF start
  <1>6. SearchOK(p, start)
    BY <1>4 DEF SearchOK, Sourced
  <1>7. After(p, start, p.tasks, Below(v, start, p.tasks))
    BY <1>3, <1>4, <1>6, FoldAfter
  <1>8. CASE p.tasks = {}
    BY <1>8 DEF Sourced
  <1>9. CASE p.tasks # {}
    <2>1. ~GaveUp(p, Below(v, start, p.tasks))
      BY <1>5, <1>9 DEF GaveUp
    <2>2. p.tasks \subseteq Done(p, Below(v, start, p.tasks))
          /\ Sourced(p, Done(p, Below(v, start, p.tasks)))
      BY <1>7, <2>1 DEF After, SearchOK
    <2>3. Done(p, Below(v, start, p.tasks)) = p.tasks
      BY <2>2 DEF Done
    <2> QED BY <2>2, <2>3
  <1> QED BY <1>8, <1>9

\* What depends on S, in a plan p.
ReachedIn(p, S) ==
    {t \in p.tasks :
        \A C \in SUBSET p.tasks :
            (S \subseteq C /\ \A u \in C : Planning!Dependents(p, u) \subseteq C) => t \in C}

\* Where every production task has a consumer and there is no cycle, whatever a task
\* produces reaches a reviewer: else the tasks it reaches would all feed one another, and a
\* least set of tasks that do could lose the one that depends on none of them.
LEMMA ReviewersReached ==
    ASSUME NEW p, IsFiniteSet(p.tasks), Sourced(p, p.tasks), Planning!Reviewable(p),
           NEW t \in Planning!Produces(p)
    PROVE  ReachedIn(p, {t}) \cap Planning!Reviews(p) # {}
  <1> DEFINE R == ReachedIn(p, {t})
             Feeds(U) == \A u \in U : Planning!Dependents(p, u) \cap U # {}
             F == {U \in SUBSET p.tasks : U # {} /\ Feeds(U)}
  <1>1. SUFFICES ASSUME R \cap Planning!Reviews(p) = {} PROVE FALSE
    OBVIOUS
  <1>2. t \in R /\ R \in SUBSET p.tasks
    BY DEF ReachedIn, Planning!Produces
  <1>3. \A u \in R : Planning!Dependents(p, u) \subseteq R
    BY DEF ReachedIn, Planning!Dependents
  <1>4. Feeds(R)
    <2>1. R \subseteq Planning!Produces(p)
      BY <1>1, <1>2 DEF Planning!Produces
    <2> HIDE DEF R
    <2> QED BY <1>3, <2>1 DEF Planning!Reviewable
  <1>5. R \in F
    <2> HIDE DEF R, Feeds
    <2> QED BY <1>2, <1>4
  <1>6. \A U \in F : IsFiniteSet(U)
    BY FS_Subset
  <1>7. PICK U \in F : \A V \in F : V \subseteq U => V = U
    <2> HIDE DEF F, R
    <2> QED BY <1>5, <1>6, LeastSet
  <1>8. PICK u \in U : p.deps[u] \cap U = {}
    BY <1>7 DEF Sourced
  <1>9. \A w \in U : Planning!Dependents(p, w) \cap (U \ {u}) # {}
    <2>1. \A w \in U : u \notin Planning!Dependents(p, w)
      BY <1>8 DEF Planning!Dependents
    <2> QED BY <2>1
  <1>10. U \ {u} \in F
    <2>1. U \ {u} # {} /\ Feeds(U \ {u})
      BY <1>8, <1>9
    <2> QED BY <2>1
  <1> HIDE DEF F
  <1> QED BY <1>7, <1>8, <1>10

\* Whatever plan is accepted ends in review.
LEMMA PlansEndStep ==
    ASSUME PlanGiven, PlanInv, Planning!PlansEndInReview, [Planning!Next]_(Planning!vars)
    PROVE  Planning!PlansEndInReview'
  <1>1. CASE UNCHANGED <<mode, phase, plan>>
    BY <1>1 DEF Planning!PlansEndInReview, Planning!Reached, Planning!Reviews,
       Planning!Produces, Planning!Dependents
  <1>2. CASE phase' # "running"
    BY <1>2 DEF Planning!PlansEndInReview
  <1>3. ASSUME NEW p, p.tasks \in SUBSET Planning!Tasks, Planning!Accept(p),
               \/ Planning!Valid(p)
               \/ mode = "single" /\ Sourced(p, p.tasks)
        PROVE  Planning!PlansEndInReview'
    <2>1. plan' = p /\ mode' = mode
      BY <1>3 DEF Planning!Accept
    <2>2. IsFiniteSet(p.tasks)
      BY <1>3, TasksAreFinite, FS_Subset
    <2>3. Sourced(p, p.tasks)
      BY <1>3, <2>2, AcyclicPlans DEF Planning!Valid
    <2>4. mode # "single" => Planning!Reviewable(p)
      BY <1>3 DEF Planning!Valid
    <2>5. \A S \in (SUBSET p.tasks) \ {{}} : \E t \in S : p.deps[t] \cap S = {}
      BY <2>3 DEF Sourced
    <2>6. ASSUME mode # "single", NEW t \in Planning!Produces(p)
          PROVE  (Planning!Reached({t}))' \cap Planning!Reviews(p) # {}
      <3>1. ReachedIn(p, {t}) \cap Planning!Reviews(p) # {}
        BY <2>2, <2>3, <2>4, <2>6, ReviewersReached
      <3>2. (Planning!Reached({t}))' = ReachedIn(p, {t})
        BY <2>1 DEF Planning!Reached, ReachedIn, Planning!Dependents
      <3> QED BY <3>1, <3>2
    <2> QED BY <2>1, <2>5, <2>6 DEF Planning!PlansEndInReview, Planning!Produces,
       Planning!Reviews
  <1>4. CASE Planning!PlanTeam
    <2>1. CASE \E p \in Planning!Proposals : Planning!Valid(p) /\ Planning!Accept(p)
      <3>1. PICK p \in Planning!Proposals : Planning!Valid(p) /\ Planning!Accept(p)
        BY <2>1
      <3>2. p.tasks \in SUBSET Planning!Tasks
        <4>1. PICK S \in SUBSET Planning!Tasks : p \in [tasks : {S},
                 deps : [S -> SUBSET Planning!Tasks], role : [S -> Planning!Roles]]
          BY DEF Planning!Proposals
        <4> QED BY <4>1
      <3> QED BY <1>3, <3>1, <3>2
    <2>2. CASE UNCHANGED <<mode, enabled, phase, plan>>
      BY <1>1, <2>2
    <2> QED BY <1>4, <2>1, <2>2 DEF Planning!PlanTeam
  <1>5. CASE Planning!PlanDocument
    <2>1. Planning!DocumentPlan.tasks \in SUBSET Planning!Tasks
      BY FirstTasks DEF Planning!DocumentPlan
    <2> QED BY <1>3, <1>5, <2>1 DEF Planning!PlanDocument
  <1>6. CASE Planning!PlanSingle
    <2>1. PICK p : p = [tasks |-> {Planning!First}, deps |-> [t \in {Planning!First} |-> {}],
                        role |-> [t \in {Planning!First} |-> "builder"]]
      OBVIOUS
    <2>2. p.tasks \in SUBSET Planning!Tasks /\ Sourced(p, p.tasks)
      BY <2>1, FirstTasks DEF Sourced
    <2> QED BY <1>3, <1>6, <2>1, <2>2 DEF Planning!PlanSingle
  <1>7. CASE Planning!PlanError
    BY <1>2, <1>7 DEF Planning!PlanError
  <1>8. CASE \/ \E t \in Planning!Tasks : \/ Planning!Work(t) \/ Planning!Fail(t)
                                          \/ Planning!Review(t) \/ Planning!Settle(t)
             \/ Planning!ForkRead \/ Planning!ForkCopy \/ UNCHANGED Planning!vars
    BY <1>1, <1>8 DEF Planning!Work, Planning!Fail, Planning!Review, Planning!Settle,
       Planning!ForkRead, Planning!ForkCopy, Planning!planVars, Planning!vars
  <1> QED BY <1>4, <1>5, <1>6, <1>7, <1>8 DEF Planning!Next

\* The constants are as Services assumes.
LEMMA PlanLimits == PlanGiven
  BY BoundsAssumption, PlansAssumption DEF PlanGiven

\* The invariant of the plans holds in every run, and so does what a fork under way
\* promises and what a plan that runs is.
LEMMA PlansRun == ServicesSpec => [](PlanInv /\ ForkSpares /\ Planning!PlansEndInReview)
  <1>1. ServicesInit => PlanInv /\ ForkSpares /\ Planning!PlansEndInReview
    BY PlanLimits, PlanInit DEF ServicesInit, Planning!Init, ForkSpares,
       Planning!PlansEndInReview
  <1>2. PlanInv /\ ForkSpares /\ Planning!PlansEndInReview /\ [ServicesNext]_allVars
          => (PlanInv /\ ForkSpares /\ Planning!PlansEndInReview)'
    BY PlanLimits, StepOfEachPart, PlanStep, ForkSparesStep, PlansEndStep
  <1> QED BY <1>1, <1>2, PTL DEF ServicesSpec

\* A plan that runs has no cycle, and where review is required all it produces reaches a
\* reviewer (runtime/planner.py, validate_plan).
THEOREM PlansReachReview == ServicesSpec => []PlansEndInReview
  <1>1. Planning!PlansEndInReview => PlansEndInReview
    BY DEF PlansEndInReview
  <1> QED BY <1>1, PlansRun, PTL

\* What a finished or accepted task reports stands: its declared outputs stay its own,
\* and its references resolve in its run and in every fork (runtime/tools.py,
\* finish_task; runtime/orchestrator.py, fork).
THEOREM ResultsAreKept == ServicesSpec => []ResultsStand
  <1>1. PlanInv /\ Store!FinishedOutputsStand => ResultsStand
    BY PlanHolds DEF ResultsStand
  <1> QED BY <1>1, PlansRun, StoreHolds, PTL

\* A fork keeps nothing downstream of a task it was asked to run again
\* (runtime/orchestrator.py, fork).
THEOREM RerunsReach == ServicesSpec => RerunsReachDownstream
  <1>1. PlanInv /\ ForkSpares /\ [ServicesNext]_allVars =>
          [forks' # forks => kept' \cap Planning!Reached(fork.asked) = {}]_(Planning!vars)
    BY PlanLimits, StepOfEachPart, ForkSparesStep
  <1> QED BY <1>1, PlansRun, PTL DEF ServicesSpec, RerunsReachDownstream,
     Planning!RerunsReachDownstream

\* Every part stays within its types.
THEOREM PartsAreTyped == ServicesSpec => []TypesOK
  <1>1. ASSUME part \in Parts, SessionInv, ConfigInv, HistoryInv, RequestInv, Data!TypeOK, PlanInv,
               Store!TypeOK, AuditInv, TeamInv, AccessInv
        PROVE  TypesOK
    <2>1. TypeOK
      BY <1>1 DEF SessionInv
    <2>2. Config!TypeOK /\ Request!TypeOK /\ Planning!TypeOK /\ Audit!TypeOK /\ Team!TypeOK
          /\ Access!TypeOK
      BY <1>1, ConfigHolds, RequestHolds, PlanHolds, AuditLimits, AuditHolds, TeamHolds,
         AccessTypes
    <2> QED BY <1>1, <2>1, <2>2 DEF TypesOK, Parts
  <1>2. ServicesInit => part \in Parts
    BY DEF ServicesInit
  <1>3. part \in Parts /\ [ServicesNext]_allVars => (part \in Parts)'
    BY DEF ServicesNext, Only, allVars
  <1>4. ServicesSpec => [](part \in Parts)
    BY <1>2, <1>3, PTL DEF ServicesSpec
  <1> QED BY <1>1, <1>4, SessionsRun, ConfigRuns, RequestsRun, DataHolds, PlansRun, StoreHolds,
     AuditRuns, TeamsRun, AccessRuns, PTL
=============================================================================
