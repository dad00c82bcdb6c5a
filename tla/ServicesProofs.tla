-------------------------- MODULE ServicesProofs ---------------------------
(***************************************************************************)
(* The parts of the service, for any number of sessions, edits, requests,  *)
(* agents and records.  Each part moves alone, so an invariant of it is    *)
(* kept by its own steps and by the steps of the others, which leave its   *)
(* variables as they are.  Access control is in AccessProofs, plans and    *)
(* forks are in PlansProofs.                                               *)
(*                                                                         *)
(* Where a property is about a sum or a recursive function, the proof is   *)
(* an induction: a set of finite sets that is not empty has a least one,   *)
(* so a statement that is wrong of some of them is wrong of one all of     *)
(* whose subsets it is right of.                                           *)
(***************************************************************************)
EXTENDS Services, FiniteSetTheorems, TLAPS

-----------------------------------------------------------------------------
(* The parts and the whole                                                 *)

\* A step of the whole is a step of each part or leaves it alone.
LEMMA StepOfEachPart ==
    ASSUME [ServicesNext]_allVars
    PROVE  /\ part' = part
           /\ [Next]_vars
           /\ [Config!Next]_(Config!vars)
           /\ [Request!Next]_(Request!vars)
           /\ [Data!Next]_(Data!vars)
           /\ [Planning!Next]_(Planning!vars)
           /\ [Store!Next]_(Store!vars)
           /\ [Audit!Next]_(Audit!vars)
           /\ [Team!Next]_(Team!vars)
           /\ [Access!Next]_(Access!vars)
  <1> DEFINE Still(p) ==
         /\ p # "sessions" => UNCHANGED vars
         /\ p # "config" => UNCHANGED Config!vars
         /\ p # "requests" => UNCHANGED Request!vars
         /\ p # "retention" => UNCHANGED Data!vars
         /\ p # "plans" => UNCHANGED Planning!vars
         /\ p # "artifacts" => UNCHANGED Store!vars
         /\ p # "audit" => UNCHANGED Audit!vars
         /\ p # "teams" => UNCHANGED Team!vars
         /\ p # "access" => UNCHANGED Access!vars
  <1>1. /\ UNCHANGED configVariables => UNCHANGED Config!vars
        /\ UNCHANGED requestVariables => UNCHANGED Request!vars
        /\ UNCHANGED retentionVariables => UNCHANGED Data!vars
        /\ UNCHANGED planVariables => UNCHANGED Planning!vars
        /\ UNCHANGED artifactVariables => UNCHANGED Store!vars
        /\ UNCHANGED observerVariables => UNCHANGED Audit!vars
        /\ UNCHANGED teamVariables => UNCHANGED Team!vars
        /\ UNCHANGED accessVariables => UNCHANGED Access!vars
    <2>1. UNCHANGED configVariables => UNCHANGED Config!vars
      BY DEF configVariables, Config!vars, Config!historyVars
    <2>2. UNCHANGED requestVariables => UNCHANGED Request!vars
      BY DEF requestVariables, Request!vars, Request!requestVars, Request!adoptVars
    <2>3. UNCHANGED retentionVariables => UNCHANGED Data!vars
      BY DEF retentionVariables, Data!vars
    <2>4. UNCHANGED planVariables => UNCHANGED Planning!vars
      BY DEF planVariables, Planning!vars, Planning!planVars, Planning!runVars,
         Planning!forkVars
    <2>5. UNCHANGED artifactVariables => UNCHANGED Store!vars
      BY DEF artifactVariables, Store!vars
    <2>6. UNCHANGED observerVariables => UNCHANGED Audit!vars
      BY DEF observerVariables, Audit!vars, Audit!serverVars, Audit!cycleVars, Audit!storeVars
    <2>7. UNCHANGED teamVariables => UNCHANGED Team!vars
      BY DEF teamVariables, Team!vars, Team!historyVars
    <2>8. UNCHANGED accessVariables => UNCHANGED Access!vars
      BY DEF accessVariables, Access!vars
    <2> QED BY <2>1, <2>2, <2>3, <2>4, <2>5, <2>6, <2>7, <2>8
  <1>2. ASSUME NEW p, Only(p) PROVE part' = part /\ Still(p)
    BY <1>1, <1>2 DEF Only
  <1>3. CASE UNCHANGED allVars
    BY <1>1, <1>3 DEF allVars
  <1>4. CASE ServicesNext
    <2> HIDE DEF Still
    <2>1. CASE Only("sessions") /\ Next
      BY <1>2, <2>1 DEF Still
    <2>2. CASE Only("config") /\ Config!Next
      BY <1>2, <2>2 DEF Still
    <2>3. CASE Only("requests") /\ Request!Next
      BY <1>2, <2>3 DEF Still
    <2>4. CASE Only("retention") /\ Data!Next
      BY <1>2, <2>4 DEF Still
    <2>5. CASE Only("plans") /\ Planning!Next
      BY <1>2, <2>5 DEF Still
    <2>6. CASE Only("artifacts") /\ Store!Next
      BY <1>2, <2>6 DEF Still
    <2>7. CASE Only("audit") /\ Audit!Next
      BY <1>2, <2>7 DEF Still
    <2>8. CASE Only("teams") /\ Team!Next
      BY <1>2, <2>8 DEF Still
    <2>9. CASE Only("access") /\ Access!Next
      BY <1>2, <2>9 DEF Still
    <2> QED
      BY <1>4, <2>1, <2>2, <2>3, <2>4, <2>5, <2>6, <2>7, <2>8, <2>9 DEF ServicesNext
  <1> QED BY <1>3, <1>4

-----------------------------------------------------------------------------
(* Sets, sums and sequences                                                *)

\* A set of finite sets that is not empty has a least one: the induction the sums, the folds
\* and the passes below rest on.
LEMMA LeastSet ==
  ASSUME NEW F, F # {}, \A S \in F : IsFiniteSet(S)
  PROVE \E S \in F : \A T \in F : T \subseteq S => T = S
  <1> DEFINE U == UNION F
             R == StrictSubsetOrdering(U)
  <1>1. F \subseteq FiniteSubsetsOf(U) BY DEF FiniteSubsetsOf
  <1>2. IsWellFoundedOn(R, FiniteSubsetsOf(U)) BY FS_StrictSubsetOrderingWellFounded
  <1>3. \A S, T \in F : T \subseteq S /\ T # S => <<T, S>> \in R
    BY DEF StrictSubsetOrdering
  <1> HIDE DEF R, U
  <1>4. \E S \in F : \A T \in F : ~(<<T, S>> \in R)
    BY <1>1, <1>2, WFMin
  <1> QED BY <1>3, <1>4

Pick(s) == CHOOSE x \in s : TRUE
Sums(g, f, S) ==
    g = [s \in SUBSET S |-> IF s = {} THEN 0 ELSE f[Pick(s)] + g[s \ {Pick(s)}]]

\* What is picked of a set is in it.
LEMMA PickIsIn == \A s : s # {} => Pick(s) \in s
  BY DEF Pick

\* Two functions that sum f agree where both are defined.
LEMMA SumsAgree ==
  ASSUME NEW f, NEW S, IsFiniteSet(S), NEW R
             \in SUBSET S, NEW g, NEW h, Sums(g, f, S), Sums(h, f, R)
  PROVE  \A s \in SUBSET R : g[s] = h[s]
  <1> DEFINE C == {s \in SUBSET R : g[s] # h[s]}
  <1>1. SUFFICES ASSUME C # {} PROVE FALSE
    OBVIOUS
  <1>2. \A s \in C : IsFiniteSet(s)
    BY FS_Subset
  <1>3. PICK s \in C : \A t \in C : t \subseteq s => t = s
    <2> HIDE DEF C
    <2> QED BY <1>1, <1>2, LeastSet
  <1>4. s \in SUBSET S /\ s \in SUBSET R
    OBVIOUS
  <1>5. /\ g[s] = IF s = {} THEN 0 ELSE f[Pick(s)] + g[s \ {Pick(s)}]
        /\ h[s] = IF s = {} THEN 0 ELSE f[Pick(s)] + h[s \ {Pick(s)}]
    BY <1>4 DEF Sums
  <1>6. s # {} => g[s \ {Pick(s)}] = h[s \ {Pick(s)}]
    BY <1>3, PickIsIn
  <1> QED BY <1>5, <1>6

\* There is a function that sums f over the subsets of a finite set.
LEMMA SumsExist ==
  ASSUME NEW f, NEW S, IsFiniteSet(S)
  PROVE  \E g : Sums(g, f, S)
  <1> DEFINE C == {R \in SUBSET S : ~\E g : Sums(g, f, R)}
  <1>1. SUFFICES ASSUME C # {} PROVE FALSE
    OBVIOUS
  <1>2. \A s \in C : IsFiniteSet(s)
    BY FS_Subset
  <1>3. PICK R \in C : \A t \in C : t \subseteq R => t = R
    <2> HIDE DEF C
    <2> QED BY <1>1, <1>2, LeastSet
  <1> DEFINE val(U) == (CHOOSE g : Sums(g, f, U))[U]
             step(s) == IF s = {} THEN 0 ELSE f[Pick(s)] + val(s \ {Pick(s)})
             G == [s \in SUBSET R |-> step(s)]
  <1>4. \A U \in SUBSET R : U # R => Sums(CHOOSE g : Sums(g, f, U), f, U)
    <2> TAKE U \in SUBSET R
    <2> HAVE U # R
    <2>1. \E g : Sums(g, f, U)
      BY <1>3
    <2> QED BY <2>1
  <1>5. ASSUME NEW s \in SUBSET R, s # R PROVE val(s) = step(s)
    <2> DEFINE g == CHOOSE g : Sums(g, f, s)
               p == Pick(s)
               h == CHOOSE h : Sums(h, f, s \ {p})
    <2>1. Sums(g, f, s)
      BY <1>4, <1>5
    <2>2. g[s] = IF s = {} THEN 0 ELSE f[p] + g[s \ {p}]
      <3> HIDE DEF g
      <3> QED BY <2>1 DEF Sums
    <2>3. ASSUME s # {} PROVE g[s \ {p}] = h[s \ {p}]
      <3>1. IsFiniteSet(s)
        <4>1. s \in SUBSET S OBVIOUS
        <4> HIDE DEF C
        <4> QED BY <4>1, FS_Subset
      <3>2. Sums(h, f, s \ {p})
        <4>1. s \ {p} \in SUBSET R /\ s \ {p} # R BY <2>3, PickIsIn
        <4> QED BY <4>1, <1>4
      <3>3. s \ {p} \in SUBSET s OBVIOUS
      <3> HIDE DEF g, h, p
      <3>4. \A t \in SUBSET (s \ {p}) : g[t] = h[t]
        BY <3>1, <3>2, <3>3, <2>1, SumsAgree
      <3> QED BY <3>4
    <2>4. val(s) = g[s] /\ val(s \ {p}) = h[s \ {p}]
      OBVIOUS
    <2> HIDE DEF g, h, val
    <2> QED BY <2>2, <2>3, <2>4
  <1>6. Sums(G, f, R)
    <2>1. ASSUME NEW s \in SUBSET R
          PROVE G[s] = IF s = {} THEN 0 ELSE f[Pick(s)] + G[s \ {Pick(s)}]
      <3>1. CASE s = {} BY <3>1
      <3>2. CASE s # {}
        <4>1. s \ {Pick(s)} \in SUBSET R /\ s \ {Pick(s)} # R BY <3>2, PickIsIn
        <4>2. G[s \ {Pick(s)}] = val(s \ {Pick(s)}) BY <4>1, <1>5
        <4> QED BY <3>2, <4>2
      <3> QED BY <3>1, <3>2
    <2>2. G = [s \in SUBSET R |-> G[s]] OBVIOUS
    <2> HIDE DEF G
    <2> QED BY <2>1, <2>2 DEF Sums
  <1> QED BY <1>6

\* Total is the value of such a function.
LEMMA TotalIs ==
  ASSUME NEW f, NEW S
  PROVE  Total(f, S) = (CHOOSE g : Sums(g, f, S))[S]
  BY DEF Total, MapThenSumSet, MapThenFoldSet, Sums, Pick

\* A sum is that of all but one, and the one.
LEMMA TotalOfOne ==
  ASSUME NEW f, NEW S, IsFiniteSet(S), S # {}
  PROVE  Total(f, S) = f[Pick(S)] + Total(f, S \ {Pick(S)})
  <1> DEFINE p == Pick(S)
             R == S \ {p}
  <1>1. PICK g : Sums(g, f, S) /\ Total(f, S) = g[S]
    BY SumsExist, TotalIs
  <1>2. IsFiniteSet(R) /\ R \in SUBSET S
    BY FS_Subset
  <1> HIDE DEF p, R
  <1>3. PICK h : Sums(h, f, R) /\ Total(f, R) = h[R]
    BY <1>2, SumsExist, TotalIs
  <1>4. g[R] = h[R]
    <2>1. \A s \in SUBSET R : g[s] = h[s]
      BY <1>1, <1>2, <1>3, SumsAgree
    <2> QED BY <2>1
  <1>5. g[S] = f[p] + g[R]
    BY <1>1 DEF Sums, p, R
  <1> QED BY <1>1, <1>3, <1>4, <1>5 DEF p, R

\* The sum over nothing is 0.
LEMMA TotalOfNone == ASSUME NEW f PROVE Total(f, {}) = 0
  <1>1. PICK g : Sums(g, f, {}) /\ Total(f, {}) = g[{}]
    BY SumsExist, TotalIs, FS_EmptySet
  <1> QED BY <1>1 DEF Sums

\* A function that differs at one place has the sum that differs by that much.
LEMMA TotalChange ==
  ASSUME NEW S, IsFiniteSet(S), NEW f \in [S -> Int], NEW h \in [S -> Int], NEW s \in S,
         \A x \in S \ {s} : h[x] = f[x],
         NEW R \in SUBSET S
  PROVE  /\ Total(f, R) \in Int
         /\ Total(h, R) = IF s \in R THEN Total(f, R) - f[s] + h[s] ELSE Total(f, R)
  <1> DEFINE Right(X) == /\ Total(f, X) \in Int
                         /\ Total(h, X) =
                              IF s \in X THEN Total(f, X) - f[s] + h[s] ELSE Total(f, X)
             C == {X \in SUBSET S : ~Right(X)}
  <1>1. SUFFICES ASSUME C # {} PROVE FALSE
    OBVIOUS
  <1>2. \A X \in C : IsFiniteSet(X)
    BY FS_Subset
  <1>3. PICK X \in C : \A Y \in C : Y \subseteq X => Y = X
    <2> HIDE DEF C
    <2> QED BY <1>1, <1>2, LeastSet
  <1>4. X # {}
    <2>1. Right({}) BY TotalOfNone
    <2> HIDE DEF Right
    <2> QED BY <2>1
  <1> DEFINE p == Pick(X)
             Y == X \ {p}
  <1>5. p \in X /\ p \in S /\ X \in SUBSET S
    BY <1>4, PickIsIn
  <1>6. Right(Y)
    BY <1>3, <1>5
  <1>7. Total(f, X) = f[p] + Total(f, Y) /\ Total(h, X) = h[p] + Total(h, Y)
    <2>1. IsFiniteSet(X) BY <1>5, FS_Subset
    <2> QED BY <2>1, <1>4, TotalOfOne
  <1>8. f[p] \in Int /\ h[p] \in Int /\ (p # s => h[p] = f[p])
    BY <1>5
  <1>9. s \in X <=> (s \in Y \/ s = p)
    BY <1>5
  <1>10. p \notin Y /\ f[s] \in Int /\ h[s] \in Int
    OBVIOUS
  <1> HIDE DEF p, Y
  <1>11. Right(X)
    BY <1>6, <1>7, <1>8, <1>9, <1>10
  <1> QED BY <1>11

\* A sum of natural numbers is one, and 0 if all are.
LEMMA TotalIsNat ==
  ASSUME NEW S, IsFiniteSet(S), NEW f \in [S -> Nat]
  PROVE  /\ Total(f, S) \in Nat
         /\ (\A s \in S : f[s] = 0) => Total(f, S) = 0
  <1> DEFINE Right(X) == /\ Total(f, X) \in Nat
                         /\ (\A s \in X : f[s] = 0) => Total(f, X) = 0
             C == {X \in SUBSET S : ~Right(X)}
  <1>1. SUFFICES ASSUME C # {} PROVE FALSE
    OBVIOUS
  <1>2. \A X \in C : IsFiniteSet(X)
    BY FS_Subset
  <1>3. PICK X \in C : \A Y \in C : Y \subseteq X => Y = X
    <2> HIDE DEF C
    <2> QED BY <1>1, <1>2, LeastSet
  <1>4. X # {}
    <2>1. Right({}) BY TotalOfNone
    <2> HIDE DEF Right
    <2> QED BY <2>1
  <1> DEFINE p == Pick(X)
             Y == X \ {p}
  <1>5. p \in X /\ p \in S /\ X \in SUBSET S
    BY <1>4, PickIsIn
  <1>6. Right(Y)
    BY <1>3, <1>5
  <1>7. Total(f, X) = f[p] + Total(f, Y)
    <2>1. IsFiniteSet(X) BY <1>5, FS_Subset
    <2> QED BY <2>1, <1>4, TotalOfOne
  <1>8. f[p] \in Nat /\ \A y \in Y : y \in X
    BY <1>5
  <1> HIDE DEF p, Y
  <1>9. Right(X)
    BY <1>5, <1>6, <1>7, <1>8
  <1> QED BY <1>9

\* None of the numbers exceeds the sum.
LEMMA TotalBound ==
  ASSUME NEW S, IsFiniteSet(S), NEW f \in [S -> Nat], NEW s \in S
  PROVE  Total(f, S) \in Nat /\ f[s] <= Total(f, S)
  <1> DEFINE h == [f EXCEPT ![s] = 0]
  <1>1. h \in [S -> Nat] OBVIOUS
  <1>2. Total(h, S) \in Nat /\ Total(f, S) \in Nat
    BY <1>1, TotalIsNat
  <1>3. Total(h, S) = Total(f, S) - f[s]
    <2>1. f \in [S -> Int] OBVIOUS
    <2>2. S \in SUBSET S /\ 0 \in Int OBVIOUS
    <2>3. h \in [S -> Int] /\ (\A x \in S \ {s} : h[x] = f[x]) /\ h[s] = 0
      OBVIOUS
    <2>4. f[s] \in Int OBVIOUS
    <2> HIDE DEF h
    <2>5. Total(h, S) = Total(f, S) - f[s] + h[s]
      BY <2>1, <2>2, <2>3, TotalChange
    <2> QED BY <1>2, <2>3, <2>4, <2>5
  <1>4. f[s] \in Nat OBVIOUS
  <1> HIDE DEF h
  <1> QED BY <1>2, <1>3, <1>4

\* A sequence and one element more.
LEMMA LongerSequence ==
    ASSUME NEW S, NEW s \in Seq(S), NEW e \in S
    PROVE  /\ Append(s, e) \in Seq(S) /\ Len(Append(s, e)) = Len(s) + 1
           /\ \A i \in 1..Len(s) : Append(s, e)[i] = s[i]
           /\ Append(s, e)[Len(s) + 1] = e /\ Append(s, e) # <<>>
  OBVIOUS

\* A sequence without its head.
LEMMA ShorterSequence ==
    ASSUME NEW S, NEW s \in Seq(S), s # <<>>
    PROVE  /\ Head(s) = s[1] /\ Head(s) \in S /\ 1 \in 1..Len(s) /\ Len(s) \in Nat
           /\ Tail(s) \in Seq(S) /\ Len(Tail(s)) = Len(s) - 1
           /\ \A i \in 1..(Len(s) - 1) : Tail(s)[i] = s[i + 1]
           /\ (Tail(s) = <<>> <=> Len(s) = 1)
  <1>1. Len(s) \in Nat /\ Len(s) # 0
    OBVIOUS
  <1>2. 1 \in 1..Len(s) /\ s[1] \in S /\ Head(s) = s[1]
    BY <1>1
  <1>3. /\ Tail(s) \in Seq(S) /\ Len(Tail(s)) = Len(s) - 1
        /\ \A i \in 1..(Len(s) - 1) : Tail(s)[i] = s[i + 1]
    BY <1>1
  <1>4. Tail(s) = <<>> <=> Len(Tail(s)) = 0
    BY <1>3
  <1> QED BY <1>1, <1>2, <1>3, <1>4

\* A sequence and its continuation.
LEMMA Concatenated ==
    ASSUME NEW S, NEW s \in Seq(S), NEW t \in Seq(S)
    PROVE  /\ s \o t \in Seq(S) /\ Len(s \o t) = Len(s) + Len(t)
           /\ \A i \in 1..Len(s) : (s \o t)[i] = s[i]
           /\ \A i \in 1..Len(t) : (s \o t)[Len(s) + i] = t[i]
  OBVIOUS

-----------------------------------------------------------------------------
(* Sessions under one budget                                               *)

\* The place of a session says whether it holds a reservation, how often it has
\* called, and which of the two loops it is in.
PlaceOK(s) ==
    /\ held[s] > 0 <=> place[s] = "calling"
    /\ place[s] \in {"turn", "answered", "tools"} => attempts[s] = 0
    /\ place[s] = "backoff" => attempts[s] < 3
    /\ place[s] \in {"backoff", "tools"} => s \notin CliSessions
    /\ place[s] # "over" => nudges[s] <= 2
    /\ place[s] = "turn" /\ s \in CliSessions => round[s] < 2

Accounts == WithinBudget /\ ReservedIsAccounted /\ AnswersAreCounted
SessionInv == TypeOK /\ (\A s \in Sessions : PlaceOK(s)) /\ Accounts

accountVars == <<held, spent, reserved, modelCalls, answered, lost, excess>>

\* What the accounts of a step depend on.
LEMMA AccountsFacts ==
  ASSUME SessionInv
  PROVE  /\ IsFiniteSet(Sessions) /\ held \in [Sessions -> Nat] /\ held \in [Sessions -> Int]
         /\ Total(held, Sessions) \in Nat
         /\ IsFiniteSet(Calling) /\ Cardinality(Calling) \in Nat
         /\ spent \in Nat /\ reserved \in Nat /\ modelCalls \in Nat /\ answered \in Nat
         /\ lost \in Nat /\ excess \in Nat /\ Budget \in Nat
  <1>1. IsFiniteSet(Sessions) /\ Budget \in Nat
    BY SessionAssumption
  <1>2. held \in [Sessions -> Nat]
    BY DEF SessionInv, TypeOK
  <1>3. held \in [Sessions -> Int]
    BY <1>2
  <1>4. Total(held, Sessions) \in Nat
    BY <1>1, <1>2, TotalIsNat
  <1>5. IsFiniteSet(Calling)
    <2>1. Calling \in SUBSET Sessions
      BY DEF Calling
    <2> QED BY <1>1, <2>1, FS_Subset
  <1>6. Cardinality(Calling) \in Nat
    BY <1>5, FS_CardinalityType
  <1>7. /\ spent \in Nat /\ reserved \in Nat /\ modelCalls \in Nat /\ answered \in Nat
        /\ lost \in Nat /\ excess \in Nat
    BY DEF SessionInv, TypeOK
  <1> QED BY <1>1, <1>2, <1>3, <1>4, <1>5, <1>6, <1>7

\* A reservation that appears or disappears changes the sum, and the set of callers,
\* by that one session.
LEMMA HeldChanges ==
  ASSUME SessionInv, NEW s \in Sessions, NEW n \in Nat,
         held' = [held EXCEPT ![s] = n]
  PROVE  /\ held' \in [Sessions -> Nat]
         /\ Total(held', Sessions) = Total(held, Sessions) - held[s] + n
         /\ held[s] <= Total(held, Sessions)
         /\ Calling' = IF n > 0 THEN Calling \cup {s} ELSE Calling \ {s}
         /\ Cardinality(Calling') =
              IF n > 0 THEN (IF held[s] > 0 THEN Cardinality(Calling) ELSE Cardinality(Calling) + 1)
              ELSE (IF held[s] > 0 THEN Cardinality(Calling) - 1 ELSE Cardinality(Calling))
  <1>1. IsFiniteSet(Sessions) /\ held \in [Sessions -> Nat] /\ held \in [Sessions -> Int]
    BY AccountsFacts
  <1>2. /\ held' \in [Sessions -> Nat] /\ held' \in [Sessions -> Int]
        /\ held'[s] = n /\ \A x \in Sessions \ {s} : held'[x] = held[x]
    BY <1>1
  <1>3. Total(held', Sessions) = Total(held, Sessions) - held[s] + n
    <2>1. Sessions \in SUBSET Sessions
      OBVIOUS
    <2>2. ASSUME NEW h \in [Sessions -> Int], \A x \in Sessions \ {s} : h[x] = held[x]
          PROVE  Total(h, Sessions) = Total(held, Sessions) - held[s] + h[s]
      BY <1>1, <2>1, <2>2, TotalChange
    <2> QED BY <1>2, <2>2
  <1>4. held[s] <= Total(held, Sessions)
    BY <1>1, TotalBound
  <1>5. Calling' = IF n > 0 THEN Calling \cup {s} ELSE Calling \ {s}
    BY <1>1, <1>2 DEF Calling
  <1>6. s \in Calling <=> held[s] > 0
    BY DEF Calling
  <1>7. IsFiniteSet(Calling)
    BY AccountsFacts
  <1>8. /\ Cardinality(Calling \cup {s}) =
             IF s \in Calling THEN Cardinality(Calling) ELSE Cardinality(Calling) + 1
        /\ Cardinality(Calling \ {s}) =
             IF s \in Calling THEN Cardinality(Calling) - 1 ELSE Cardinality(Calling)
    BY <1>7, FS_AddElement, FS_RemoveElement
  <1> QED BY <1>2, <1>3, <1>4, <1>5, <1>6, <1>8

\* What leaves the accounts alone keeps them.
LEMMA AccountsFrame ==
  ASSUME Accounts, UNCHANGED accountVars
  PROVE  Accounts'
  BY DEF Accounts, accountVars, WithinBudget, ReservedIsAccounted, AnswersAreCounted, Calling

\* What a call may reserve is at least one unit.
LEMMA AmountsArePositive ==
  ASSUME SessionInv, NEW s \in Sessions, NEW n \in Amounts(s)
  PROVE  n \in Nat \ {0}
  BY SessionAssumption, AccountsFacts DEF Amounts, MinOf, MaxOf, RemainingBudget, Less

\* A call reserves what it may cost (runtime/policy.py, reserve_model_call).
LEMMA CallAccounts ==
  ASSUME SessionInv, NEW s \in Sessions, Call(s)
  PROVE  Accounts' /\ reserved' \in Nat /\ modelCalls' \in Nat
  <1>1. PICK n \in Amounts(s) : MayReserve(n) /\ Reserve(s, n)
    BY DEF Call
  <1>2. n \in Nat \ {0}
    BY AmountsArePositive
  <1>3. held[s] = 0
    <2>1. place[s] # "calling" /\ held[s] \in Nat
      BY AccountsFacts DEF Call, ReadyToCall
    <2> QED BY <2>1 DEF SessionInv, PlaceOK
  <1>4. /\ Total(held', Sessions) = Total(held, Sessions) + n
        /\ Cardinality(Calling') = Cardinality(Calling) + 1
    <2>1. n \in Nat /\ held' = [held EXCEPT ![s] = n]
      BY <1>1, <1>2 DEF Reserve
    <2>2. /\ Total(held', Sessions) = Total(held, Sessions) - held[s] + n
          /\ Cardinality(Calling') =
              IF n > 0 THEN (IF held[s] > 0 THEN Cardinality(Calling) ELSE Cardinality(Calling) + 1)
              ELSE (IF held[s] > 0 THEN Cardinality(Calling) - 1 ELSE Cardinality(Calling))
      BY <2>1, HeldChanges
    <2> QED BY <1>2, <1>3, <2>2, AccountsFacts
  <1>5. /\ reserved' = reserved + n /\ modelCalls' = modelCalls + 1 /\ spent' = spent
        /\ spent + reserved + n <= Budget /\ answered' = answered /\ lost' = lost
        /\ excess' = excess
    BY <1>1 DEF Reserve, MayReserve, Call
  <1>6. /\ reserved = Total(held, Sessions) + lost
        /\ answered + Cardinality(Calling) <= modelCalls
    BY DEF SessionInv, Accounts, ReservedIsAccounted, AnswersAreCounted
  <1>7. WithinBudget'
    BY <1>2, <1>5, AccountsFacts DEF WithinBudget
  <1>8. ReservedIsAccounted'
    BY <1>2, <1>4, <1>5, <1>6, AccountsFacts DEF ReservedIsAccounted
  <1>9. AnswersAreCounted'
    BY <1>4, <1>5, <1>6, AccountsFacts DEF AnswersAreCounted
  <1> QED BY <1>2, <1>5, <1>7, <1>8, <1>9, AccountsFacts DEF Accounts

\* A call that ends gives back exactly what it held, and one caller less is left.
LEMMA Freed ==
  ASSUME SessionInv, NEW s \in Sessions, place[s] = "calling",
         held' = [held EXCEPT ![s] = 0]
  PROVE  /\ held[s] \in Nat \ {0} /\ held[s] <= reserved
         /\ Less(reserved, held[s]) = reserved - held[s]
         /\ reserved - held[s] = Total(held', Sessions) + lost
         /\ Total(held', Sessions) + held[s] = Total(held, Sessions)
         /\ Total(held', Sessions) \in Nat
         /\ Cardinality(Calling') \in Nat
         /\ answered + Cardinality(Calling') + 1 <= modelCalls
  <1>1. held[s] > 0 /\ held[s] \in Nat
    BY AccountsFacts DEF SessionInv, PlaceOK
  <1>2. /\ held' \in [Sessions -> Nat]
        /\ Total(held', Sessions) = Total(held, Sessions) - held[s]
        /\ held[s] <= Total(held, Sessions)
        /\ Cardinality(Calling') = Cardinality(Calling) - 1
    <2>1. /\ held' \in [Sessions -> Nat]
          /\ Total(held', Sessions) = Total(held, Sessions) - held[s] + 0
          /\ held[s] <= Total(held, Sessions)
          /\ Cardinality(Calling') =
              IF 0 > 0 THEN (IF held[s] > 0 THEN Cardinality(Calling) ELSE Cardinality(Calling) + 1)
              ELSE (IF held[s] > 0 THEN Cardinality(Calling) - 1 ELSE Cardinality(Calling))
      BY HeldChanges
    <2> QED BY <1>1, <2>1, AccountsFacts
  <1>3. Total(held', Sessions) \in Nat
    BY <1>2, AccountsFacts, TotalIsNat
  <1>4. Cardinality(Calling') \in Nat
    <2>1. Calling' \in SUBSET Sessions
      BY DEF Calling
    <2>2. IsFiniteSet(Calling')
      BY <2>1, AccountsFacts, FS_Subset
    <2> QED BY <2>2, FS_CardinalityType
  <1>5. /\ reserved = Total(held, Sessions) + lost
        /\ answered + Cardinality(Calling) <= modelCalls
    BY DEF SessionInv, Accounts, ReservedIsAccounted, AnswersAreCounted
  <1>6. held[s] <= reserved /\ reserved - held[s] = Total(held', Sessions) + lost
    BY <1>1, <1>2, <1>5, AccountsFacts
  <1>7. Less(reserved, held[s]) = reserved - held[s]
    BY <1>1, <1>6, AccountsFacts DEF Less
  <1>8. answered + Cardinality(Calling') + 1 <= modelCalls
    BY <1>2, <1>4, <1>5, AccountsFacts
  <1> QED BY <1>1, <1>2, <1>3, <1>4, <1>6, <1>7, <1>8, AccountsFacts

\* An answer is paid for and its reservation released.
LEMMA AnswerAccounts ==
  ASSUME SessionInv, NEW s \in Sessions, Answer(s)
  PROVE  /\ Accounts' /\ reserved' \in Nat /\ modelCalls' \in Nat /\ spent' \in Nat
         /\ answered' \in Nat /\ excess' \in Nat
  <1>1. PICK cost \in 0..(held[s] + MaxExcess), extra \in ExtraCalls(s) : Settle(s, cost, extra)
    BY DEF Answer
  <1>2. place[s] = "calling" /\ held' = [held EXCEPT ![s] = 0]
    BY <1>1 DEF Answer, Settle
  <1>3. /\ held[s] \in Nat \ {0} /\ held[s] <= reserved
        /\ Less(reserved, held[s]) = reserved - held[s]
        /\ reserved - held[s] = Total(held', Sessions) + lost
        /\ answered + Cardinality(Calling') + 1 <= modelCalls
        /\ Cardinality(Calling') \in Nat
    BY <1>2, Freed
  <1>4. /\ cost \in Nat /\ extra \in Nat
        /\ Less(cost, held[s]) \in Nat /\ cost <= held[s] + Less(cost, held[s])
    BY <1>3, SessionAssumption DEF ExtraCalls, Less
  <1>5. /\ reserved' = reserved - held[s] /\ spent' = spent + cost
        /\ modelCalls' = modelCalls + extra /\ answered' = answered + 1 /\ lost' = lost
        /\ excess' = excess + Less(cost, held[s])
    BY <1>1, <1>3 DEF Settle, Answer
  <1>6. spent + reserved <= Budget + excess
    BY DEF SessionInv, Accounts, WithinBudget
  <1>7. WithinBudget'
    BY <1>3, <1>4, <1>5, <1>6, AccountsFacts DEF WithinBudget
  <1>8. ReservedIsAccounted'
    BY <1>3, <1>5 DEF ReservedIsAccounted
  <1>9. AnswersAreCounted'
    BY <1>3, <1>4, <1>5, AccountsFacts DEF AnswersAreCounted
  <1> QED BY <1>3, <1>4, <1>5, <1>7, <1>8, <1>9, AccountsFacts DEF Accounts

\* A call that failed releases its reservation and gives back its count.
LEMMA ReleaseAccounts ==
  ASSUME SessionInv, NEW s \in Sessions, place[s] = "calling", Release(s),
         UNCHANGED <<answered, lost>>,
         modelCalls' = modelCalls \/ modelCalls' = modelCalls - 1
  PROVE  Accounts' /\ reserved' \in Nat /\ modelCalls' \in Nat
  <1>1. /\ held[s] \in Nat \ {0} /\ held[s] <= reserved
        /\ Less(reserved, held[s]) = reserved - held[s]
        /\ reserved - held[s] = Total(held', Sessions) + lost
        /\ answered + Cardinality(Calling') + 1 <= modelCalls
        /\ Cardinality(Calling') \in Nat
    BY Freed DEF Release
  <1>2. reserved' = reserved - held[s] /\ spent' = spent /\ excess' = excess
    BY <1>1 DEF Release
  <1>3. spent + reserved <= Budget + excess
    BY DEF SessionInv, Accounts, WithinBudget
  <1>4. WithinBudget'
    BY <1>1, <1>2, <1>3, AccountsFacts DEF WithinBudget
  <1>5. ReservedIsAccounted'
    BY <1>1, <1>2 DEF ReservedIsAccounted
  <1>6. AnswersAreCounted'
    BY <1>1, AccountsFacts DEF AnswersAreCounted
  <1> QED BY <1>1, <1>2, <1>4, <1>5, <1>6, AccountsFacts DEF Accounts

\* A call that is torn down keeps its reservation, which is lost.
LEMMA RaiseAccounts ==
  ASSUME SessionInv, NEW s \in Sessions, Raise(s)
  PROVE  Accounts' /\ lost' \in Nat
  <1>1. held[s] \in Nat
    BY AccountsFacts
  <1>2. /\ lost' = lost + held[s] /\ held' = [held EXCEPT ![s] = 0]
        /\ spent' = spent /\ reserved' = reserved /\ modelCalls' = modelCalls
        /\ answered' = answered /\ excess' = excess
    BY DEF Raise, policyVars
  <1>3. CASE place[s] = "calling"
    <2>1. /\ reserved - held[s] = Total(held', Sessions) + lost
          /\ answered + Cardinality(Calling') + 1 <= modelCalls
          /\ Cardinality(Calling') \in Nat /\ Total(held', Sessions) \in Nat
      BY <1>2, <1>3, Freed
    <2>2. WithinBudget'
      BY <1>2 DEF SessionInv, Accounts, WithinBudget
    <2>3. ReservedIsAccounted'
      BY <1>1, <1>2, <2>1, AccountsFacts DEF ReservedIsAccounted
    <2>4. AnswersAreCounted'
      BY <1>2, <2>1, AccountsFacts DEF AnswersAreCounted
    <2> QED BY <1>1, <1>2, <2>2, <2>3, <2>4, AccountsFacts DEF Accounts
  <1>4. CASE place[s] # "calling"
    <2>1. held[s] = 0
      BY <1>1, <1>4 DEF SessionInv, PlaceOK
    <2>2. held' = held /\ lost' = lost
      BY <1>2, <2>1, AccountsFacts
    <2>3. UNCHANGED accountVars
      BY <1>2, <2>2 DEF accountVars
    <2> QED BY <2>2, <2>3, AccountsFrame, AccountsFacts DEF SessionInv
  <1> QED BY <1>3, <1>4

\* The shape of what the loops keep, the accounts aside.
LoopTypes ==
    /\ place \in [Sessions -> {"turn", "calling", "backoff", "answered", "tools", "over"}]
    /\ outcome \in [Sessions -> Outcomes \cup {"none"}]
    /\ attempts \in [Sessions -> 0..3]
    /\ nudges \in [Sessions -> 0..3]
    /\ round \in [Sessions -> 0..2]
    /\ toolCalls \in 0..MaxToolCalls
    /\ cancelled \in BOOLEAN /\ late \in BOOLEAN

LoopInv == LoopTypes /\ \A s \in Sessions : PlaceOK(s)

\* A session ends with one of the outcomes.
LEMMA EndTypes ==
  ASSUME LoopTypes, NEW s \in Sessions, NEW kind \in Outcomes, End(s, kind)
  PROVE  /\ place' = [place EXCEPT ![s] = "over"]
         /\ place' \in [Sessions -> {"turn", "calling", "backoff", "answered", "tools", "over"}]
         /\ outcome' \in [Sessions -> Outcomes \cup {"none"}]
  BY DEF LoopTypes, End

\* Every step of a session leaves it at a place where what it keeps fits.
LEMMA BeforeCallKeepsLoop ==
  ASSUME SessionInv, LoopInv, NEW s \in Sessions, GiveUpBeforeCall(s) \/ Call(s)
  PROVE  LoopInv'
  <1>1. held \in [Sessions -> Nat]
    BY AccountsFacts
  <1>2. CASE GiveUpBeforeCall(s)
    <2>1. PICK kind \in Outcomes : End(s, kind)
      BY <1>2 DEF GiveUpBeforeCall, Outcomes
    <2>2. UNCHANGED <<attempts, nudges, round, held, toolCalls, cancelled, late>>
      BY <1>2 DEF GiveUpBeforeCall
    <2>3. place[s] # "calling"
      BY <1>2 DEF GiveUpBeforeCall, ReadyToCall
    <2>4. LoopTypes'
      BY <2>1, <2>2, EndTypes DEF LoopInv, LoopTypes
    <2>5. \A x \in Sessions : PlaceOK(x)'
      BY <2>1, <2>2, <2>3, EndTypes DEF LoopInv, LoopTypes, PlaceOK
    <2> QED BY <2>4, <2>5 DEF LoopInv
  <1>3. CASE Call(s)
    <2>1. PICK n \in Amounts(s) : Reserve(s, n)
      BY <1>3 DEF Call
    <2>2. n \in Nat \ {0}
      BY AmountsArePositive
    <2>3. attempts[s] < 3 /\ nudges[s] <= 2 /\ (s \in CliSessions => round[s] < 2)
      BY <1>3 DEF LoopInv, LoopTypes, PlaceOK, Call, ReadyToCall
    <2>4. LoopTypes'
      BY <1>3, <2>3 DEF LoopInv, LoopTypes, Call
    <2>5. /\ held' = [held EXCEPT ![s] = n] /\ place' = [place EXCEPT ![s] = "calling"]
          /\ attempts' = [attempts EXCEPT ![s] = @ + 1] /\ nudges' = nudges
          /\ \A x \in Sessions \ {s} : round'[x] = round[x]
      BY <1>3, <2>1 DEF Call, Reserve, LoopInv, LoopTypes
    <2>6. \A x \in Sessions : PlaceOK(x)'
      BY <1>1, <2>2, <2>3, <2>5 DEF LoopInv, LoopTypes, PlaceOK
    <2> QED BY <2>4, <2>6 DEF LoopInv
  <1> QED BY <1>2, <1>3

\* The end of a call leaves the turns and retries within their bounds.
LEMMA CallEndKeepsLoop ==
  ASSUME SessionInv, LoopInv, NEW s \in Sessions,
         \/ Answer(s) \/ CallTimesOut(s) \/ \E retryable \in BOOLEAN : CallFails(s, retryable)
  PROVE  LoopInv'
  <1>1. held \in [Sessions -> Nat]
    BY AccountsFacts
  <1>2. /\ held' = [held EXCEPT ![s] = 0] /\ place[s] = "calling"
        /\ UNCHANGED <<nudges, round, toolCalls, cancelled, late>>
    BY DEF Answer, CallTimesOut, CallFails, Settle, Release, loopVars
  <1>3. CASE Answer(s)
    <2>1. LoopTypes'
      BY <1>2, <1>3 DEF LoopInv, LoopTypes, Answer, loopVars
    <2>2. \A x \in Sessions : PlaceOK(x)'
      BY <1>1, <1>2, <1>3 DEF LoopInv, LoopTypes, PlaceOK, Answer
    <2> QED BY <2>1, <2>2 DEF LoopInv
  <1>4. CASE End(s, "failed") /\ UNCHANGED attempts
    <2>1. LoopTypes'
      BY <1>2, <1>4 DEF LoopInv, LoopTypes, End, Outcomes
    <2>2. \A x \in Sessions : PlaceOK(x)'
      BY <1>1, <1>2, <1>4 DEF LoopInv, LoopTypes, PlaceOK, End
    <2> QED BY <2>1, <2>2 DEF LoopInv
  <1>5. CASE /\ attempts[s] < 3 /\ s \notin CliSessions
             /\ place' = [place EXCEPT ![s] = "backoff"]
             /\ UNCHANGED <<outcome, attempts>>
    <2>1. LoopTypes'
      BY <1>2, <1>5 DEF LoopInv, LoopTypes
    <2>2. \A x \in Sessions : PlaceOK(x)'
      BY <1>1, <1>2, <1>5 DEF LoopInv, LoopTypes, PlaceOK
    <2> QED BY <2>1, <2>2 DEF LoopInv
  <1> QED BY <1>3, <1>4, <1>5 DEF CallTimesOut, CallFails

\* A turn does, and touches no account.
LEMMA TurnKeepsLoop ==
  ASSUME SessionInv, LoopInv, NEW s \in Sessions,
         NoTool(s) \/ Refused(s) \/ WithTools(s) \/ CallTool(s) \/ ToolsDone(s) \/ CliTool(s)
         \/ CliEnd(s)
  PROVE  LoopInv' /\ UNCHANGED accountVars
  <1>1. held \in [Sessions -> Nat] /\ UNCHANGED accountVars
    BY AccountsFacts DEF accountVars, NoTool, Refused, WithTools, CallTool, ToolsDone, CliTool,
       CliEnd, policyVars, loopVars
  <1>2. UNCHANGED <<held, attempts, round, cancelled, late>>
    BY DEF NoTool, Refused, WithTools, CallTool, ToolsDone, CliTool, CliEnd, loopVars
  <1>3. MaxToolCalls \in Nat
    BY SessionAssumption
  <1>4. CASE NoTool(s)
    <2>1. nudges[s] <= 2 /\ place[s] = "answered" /\ s \notin CliSessions
      BY <1>4 DEF LoopInv, PlaceOK, NoTool
    <2>2. LoopTypes'
      BY <1>2, <1>4, <2>1 DEF LoopInv, LoopTypes, NoTool, End, Outcomes
    <2>3. \A x \in Sessions : PlaceOK(x)'
      BY <1>1, <1>2, <1>4, <2>1 DEF LoopInv, LoopTypes, PlaceOK, NoTool, End
    <2> QED BY <1>1, <2>2, <2>3 DEF LoopInv
  <1>5. CASE Refused(s) \/ WithTools(s)
    <2>1. LoopTypes'
      BY <1>2, <1>5 DEF LoopInv, LoopTypes, Refused, WithTools, End, Outcomes
    <2>2. \A x \in Sessions : PlaceOK(x)'
      BY <1>1, <1>2, <1>5 DEF LoopInv, LoopTypes, PlaceOK, Refused, WithTools, End
    <2> QED BY <1>1, <2>1, <2>2 DEF LoopInv
  <1>6. CASE CallTool(s)
    <2>1. LoopTypes'
      BY <1>2, <1>3, <1>6 DEF LoopInv, LoopTypes, CallTool, End, Outcomes, ByTools
    <2>2. \A x \in Sessions : PlaceOK(x)'
      BY <1>1, <1>2, <1>6 DEF LoopInv, LoopTypes, PlaceOK, CallTool, End
    <2> QED BY <1>1, <2>1, <2>2 DEF LoopInv
  <1>7. CASE ToolsDone(s) \/ CliTool(s)
    <2>1. LoopTypes'
      BY <1>2, <1>3, <1>7 DEF LoopInv, LoopTypes, ToolsDone, CliTool, loopVars
    <2>2. \A x \in Sessions : PlaceOK(x)'
      BY <1>1, <1>2, <1>7 DEF LoopInv, LoopTypes, PlaceOK, ToolsDone, CliTool, loopVars
    <2> QED BY <1>1, <2>1, <2>2 DEF LoopInv
  <1>8. CASE CliEnd(s)
    <2>1. LoopTypes'
      BY <1>2, <1>8 DEF LoopInv, LoopTypes, CliEnd, End, Outcomes, ByTools
    <2>2. \A x \in Sessions : PlaceOK(x)'
      BY <1>1, <1>2, <1>8 DEF LoopInv, LoopTypes, PlaceOK, CliEnd, End
    <2> QED BY <1>1, <2>1, <2>2 DEF LoopInv
  <1> QED BY <1>4, <1>5, <1>6, <1>7, <1>8

\* So does a session that is cancelled.
LEMMA RaiseKeepsLoop ==
  ASSUME SessionInv, LoopInv, NEW s \in Sessions, Raise(s)
  PROVE  LoopInv'
  <1>1. held \in [Sessions -> Nat]
    BY AccountsFacts
  <1>2. LoopTypes'
    BY DEF LoopInv, LoopTypes, Raise, End, Outcomes
  <1>3. \A x \in Sessions : PlaceOK(x)'
    BY <1>1 DEF LoopInv, LoopTypes, PlaceOK, Raise, End
  <1> QED BY <1>2, <1>3 DEF LoopInv

\* The budget is untouched at first.
LEMMA SessionInit == Init => SessionInv
  <1> SUFFICES ASSUME Init PROVE SessionInv
    OBVIOUS
  <1> USE SessionAssumption
  <1>1. TypeOK
    <2>1. /\ place \in [Sessions -> {"turn", "calling", "backoff", "answered", "tools", "over"}]
          /\ attempts \in [Sessions -> 0..3] /\ nudges \in [Sessions -> 0..3]
          /\ round \in [Sessions -> 0..2] /\ held \in [Sessions -> Nat]
      BY DEF Init
    <2>2. outcome \in [Sessions -> Outcomes \cup {"none"}]
      BY DEF Init
    <2>3. {spent, reserved, modelCalls, answered, lost, excess} \subseteq Nat
      BY DEF Init
    <2>4. MaxToolCalls \in Nat /\ toolCalls = 0
      BY DEF Init
    <2>5. cancelled \in BOOLEAN /\ late \in BOOLEAN
      BY DEF Init
    <2> QED BY <2>1, <2>2, <2>3, <2>4, <2>5 DEF TypeOK
  <1>2. \A s \in Sessions : PlaceOK(s)
    BY DEF Init, PlaceOK
  <1>3. WithinBudget
    BY DEF Init, WithinBudget
  <1>4. ReservedIsAccounted
    <2>1. held \in [Sessions -> Nat] /\ \A s \in Sessions : held[s] = 0
      BY DEF Init
    <2>2. Total(held, Sessions) = 0
      BY <2>1, TotalIsNat
    <2> QED BY <2>2 DEF Init, ReservedIsAccounted
  <1>5. AnswersAreCounted
    <2>1. Calling = {}
      BY DEF Init, Calling
    <2> QED BY <2>1, FS_EmptySet DEF Init, AnswersAreCounted
  <1> QED BY <1>1, <1>2, <1>3, <1>4, <1>5 DEF SessionInv, Accounts

\* The invariant of the sessions is inductive.
LEMMA SessionStep == SessionInv /\ [Next]_vars => SessionInv'
  <1> SUFFICES ASSUME SessionInv, [Next]_vars PROVE SessionInv'
    OBVIOUS
  <1> DEFINE Counters == /\ held \in [Sessions -> Nat]
                         /\ {spent, reserved, modelCalls, answered, lost, excess} \subseteq Nat
  <1>1. LoopInv /\ Counters /\ Accounts
    BY DEF SessionInv, TypeOK, LoopInv, LoopTypes
  <1>2. LoopInv' /\ Counters' /\ Accounts' => SessionInv'
    BY DEF SessionInv, TypeOK, LoopInv, LoopTypes
  <1>3. ASSUME UNCHANGED accountVars PROVE Counters' /\ Accounts'
    BY <1>1, <1>3, AccountsFrame DEF accountVars
  <1>4. ASSUME NEW s \in Sessions, GiveUpBeforeCall(s) PROVE SessionInv'
    <2>1. UNCHANGED accountVars
      BY <1>4 DEF GiveUpBeforeCall, policyVars, accountVars
    <2> QED BY <1>1, <1>2, <1>3, <1>4, <2>1, BeforeCallKeepsLoop
  <1>5. ASSUME NEW s \in Sessions, Call(s) PROVE SessionInv'
    <2>1. Accounts' /\ reserved' \in Nat /\ modelCalls' \in Nat
      BY <1>5, CallAccounts
    <2>2. held' \in [Sessions -> Nat] /\ UNCHANGED <<spent, answered, lost, excess>>
      BY <1>1, <1>5, AmountsArePositive DEF Call, Reserve
    <2> QED BY <1>1, <1>2, <1>5, <2>1, <2>2, BeforeCallKeepsLoop
  <1>6. ASSUME NEW s \in Sessions, Answer(s) PROVE SessionInv'
    <2>1. /\ Accounts' /\ reserved' \in Nat /\ modelCalls' \in Nat /\ spent' \in Nat
          /\ answered' \in Nat /\ excess' \in Nat
      BY <1>6, AnswerAccounts
    <2>2. held' \in [Sessions -> Nat] /\ UNCHANGED lost
      BY <1>1, <1>6 DEF Answer, Settle
    <2> QED BY <1>1, <1>2, <1>6, <2>1, <2>2, CallEndKeepsLoop
  <1>7. ASSUME NEW s \in Sessions,
               CallTimesOut(s) \/ \E retryable \in BOOLEAN : CallFails(s, retryable)
        PROVE  SessionInv'
    <2>1. /\ place[s] = "calling" /\ Release(s) /\ UNCHANGED <<answered, lost>>
          /\ modelCalls' = modelCalls \/ modelCalls' = modelCalls - 1
      BY <1>1, <1>7 DEF CallTimesOut, CallFails, Uncounted
    <2>2. Accounts' /\ reserved' \in Nat /\ modelCalls' \in Nat
      BY <2>1, ReleaseAccounts
    <2>3. held' \in [Sessions -> Nat] /\ UNCHANGED <<spent, excess>>
      BY <1>1, <2>1 DEF Release
    <2> QED BY <1>1, <1>2, <1>7, <2>1, <2>2, <2>3, CallEndKeepsLoop
  <1>8. ASSUME NEW s \in Sessions,
               \/ NoTool(s) \/ Refused(s) \/ WithTools(s) \/ CallTool(s) \/ ToolsDone(s)
               \/ CliTool(s) \/ CliEnd(s)
        PROVE  SessionInv'
    BY <1>1, <1>2, <1>3, <1>8, TurnKeepsLoop
  <1>9. ASSUME NEW s \in Sessions, Raise(s) PROVE SessionInv'
    <2>1. Accounts' /\ lost' \in Nat
      BY <1>9, RaiseAccounts
    <2>2. held' \in [Sessions -> Nat] /\ UNCHANGED <<spent, reserved, modelCalls, answered, excess>>
      BY <1>1, <1>9 DEF Raise, policyVars
    <2> QED BY <1>1, <1>2, <1>9, <2>1, <2>2, RaiseKeepsLoop
  <1>10. CASE CancelRun \/ WallClock \/ UNCHANGED vars
    <2>1. UNCHANGED accountVars
      BY <1>10 DEF CancelRun, WallClock, vars, loopVars, policyVars, accountVars
    <2>2. /\ UNCHANGED <<place, outcome, attempts, nudges, round, held, toolCalls>>
          /\ cancelled' \in BOOLEAN /\ late' \in BOOLEAN
      BY <1>1, <1>10 DEF CancelRun, WallClock, vars, loopVars, LoopInv, LoopTypes
    <2>3. LoopInv'
      BY <1>1, <2>2 DEF LoopInv, LoopTypes, PlaceOK
    <2> QED BY <1>2, <1>3, <2>1, <2>3
  <1> QED BY <1>4, <1>5, <1>6, <1>7, <1>8, <1>9, <1>10 DEF Next, Step, Over

\* The invariant of the sessions holds in every run.
LEMMA SessionsRun == ServicesSpec => []SessionInv
  <1>1. ServicesInit => SessionInv
    BY SessionInit DEF ServicesInit
  <1>2. SessionInv /\ [ServicesNext]_allVars => SessionInv'
    BY StepOfEachPart, SessionStep
  <1> QED BY <1>1, <1>2, PTL DEF ServicesSpec

\* However sessions interleave, retry, fail or are cancelled, nothing but what answers
\* cost above their own reservations is spent past the budget, every reservation is
\* accounted for and every call counted (runtime/policy.py,
\* reserve_model_call; runtime/worker.py, _call_model).
THEOREM BudgetIsKept == ServicesSpec => []BudgetKept
  <1>1. SessionInv => BudgetKept
    BY DEF SessionInv, Accounts, BudgetKept
  <1> QED BY <1>1, SessionsRun, PTL

-----------------------------------------------------------------------------
(* Edits and probes of the configuration                                   *)

\* The constants of the configuration.
ConfigGiven == MaxCrashes \in Nat /\ Config!Edits \cap Config!Probes = {}

Answers == {"new", "read", "saving", "done", "refused", "failed", "gone"}
WaitingSave == [config : Config!Configs, by : Config!Edits \cup Config!Probes]
ConfigShapes ==
    /\ config \in Config!Configs /\ stored \in Seq(Config!Configs) /\ stored # <<>>
    /\ revision = Len(stored) /\ saving \in Seq(WaitingSave)
    /\ client \in [Config!Edits -> Answers]
    /\ probe \in [Config!Probes -> {"new", "testing", "saving", "done", "gone"}]
    /\ tested \in [Config!Probes -> Config!Versions]
    /\ latest = [team |-> latest.team, conn |-> latest.conn]
    /\ up \in BOOLEAN /\ crashes \in 0..MaxCrashes

\* What is in force holds the last edits, and is what the last waiting row will
\* store; the row of an edit holds that edit.
EditsInForce ==
    /\ up => config.team = latest.team /\ config.conn = latest.conn
    /\ ~up => saving = <<>>
    /\ up /\ saving = <<>> => unwritten \/ config = stored[Len(stored)]
    /\ up /\ saving # <<>> => config = saving[Len(saving)].config
RowsOfEdits ==
    /\ \A i \in 1..Len(saving) :
         saving[i].by \in Config!Edits => saving[i].config[Config!Setting(saving[i].by)]
               = saving[i].by
    /\ \A e \in Config!Edits : client[e] = "done" =>
         \E i \in 1..Len(stored) : stored[i][Config!Setting(e)] = e
ConfigInv == ConfigShapes /\ EditsInForce /\ RowsOfEdits

\* The first configuration is the stored one.
LEMMA ConfigInit == ConfigGiven /\ Config!Init => ConfigInv
  <1> SUFFICES ASSUME ConfigGiven, Config!Init PROVE ConfigInv
    OBVIOUS
  <1>1. Config!Seed \in Config!Configs /\ Config!Seed.team = Seeded /\ Config!Seed.conn = Seeded
    BY DEF Config!Seed, Config!Configs, Config!Versions
  <1>2. stored = <<Config!Seed>> /\ stored \in Seq(Config!Configs) /\ Len(stored) = 1
            /\ stored[1] = Config!Seed
        /\ stored # <<>>
    BY <1>1 DEF Config!Init
  <1>3. saving = <<>> /\ saving \in Seq(WaitingSave) /\ Len(saving) = 0
    BY DEF Config!Init
  <1>4. ConfigShapes
    BY <1>1, <1>2, <1>3 DEF Config!Init, ConfigShapes, ConfigGiven, Config!Versions, Answers
  <1> QED BY <1>1, <1>2, <1>3, <1>4 DEF Config!Init, ConfigInv, EditsInForce, RowsOfEdits

\* A call of save_config that waits: what it stores is in force at once.
LEMMA ConfigSaveKeeps ==
    ASSUME ConfigGiven, ConfigInv, NEW cfg \in Config!Configs,
           NEW by \in Config!Edits \cup Config!Probes, up,
           Config!Save(cfg, by), UNCHANGED <<stored, revision, up, crashes, tested>>,
           by \in Config!Edits => cfg[Config!Setting(by)] = by,
           cfg.team = latest'.team, cfg.conn = latest'.conn,
           latest' = [team |-> latest'.team, conn |-> latest'.conn],
           client' \in [Config!Edits -> Answers],
           probe' \in [Config!Probes -> {"new", "testing", "saving", "done", "gone"}],
           \A e \in Config!Edits : client'[e] = "done" => client[e] = "done"
    PROVE  ConfigInv'
  <1>1. PICK row : row = [config |-> cfg, by |-> by]
    OBVIOUS
  <1>2. row \in WaitingSave /\ row.config = cfg /\ row.by = by
    BY <1>1 DEF WaitingSave
  <1>3. config' = cfg /\ saving' = Append(saving, row)
    BY <1>1 DEF Config!Save, Config!Assigned
  <1>4. saving \in Seq(WaitingSave) /\ Len(saving) \in Nat
    BY DEF ConfigInv, ConfigShapes
  <1>5. /\ saving' \in Seq(WaitingSave) /\ Len(saving') = Len(saving) + 1 /\ saving' # <<>>
        /\ \A i \in 1..Len(saving) : saving'[i] = saving[i]
        /\ saving'[Len(saving')] = row
    BY <1>2, <1>3, <1>4, LongerSequence
  <1>6. ConfigShapes'
    BY <1>3, <1>5 DEF ConfigInv, ConfigShapes
  <1>7. EditsInForce'
    BY <1>2, <1>3, <1>5 DEF EditsInForce
  <1>8. \A i \in 1..Len(saving') :
          saving'[i].by \in Config!Edits => saving'[i].config[Config!Setting(saving'[i].by)]
                = saving'[i].by
    <2>1. \A i \in 1..Len(saving') : i \in 1..Len(saving) \/ i = Len(saving')
      BY <1>4, <1>5
    <2> QED BY <1>2, <1>5, <2>1 DEF ConfigInv, RowsOfEdits
  <1> QED BY <1>6, <1>7, <1>8 DEF ConfigInv, RowsOfEdits

\* An edit is in force at once and its row waits (api/app.py).
LEMMA ConfigEditKeeps ==
    ASSUME ConfigGiven, ConfigInv, NEW e \in Config!Edits, Config!Edit(e)
    PROVE  ConfigInv'
  <1>1. config \in Config!Configs /\ up /\ latest = [team |-> latest.team, conn |-> latest.conn]
        /\ config.team = latest.team /\ config.conn = latest.conn
    BY DEF Config!Edit, ConfigInv, ConfigShapes, EditsInForce
  <1>2. PICK cfg : cfg = Config!Edited(config, e)
    OBVIOUS
  <1>3. /\ cfg \in Config!Configs /\ cfg[Config!Setting(e)] = e
        /\ e \in TeamEdits => cfg.team = e /\ cfg.conn = config.conn
        /\ e \notin TeamEdits => cfg.conn = e /\ cfg.team = config.team
    BY <1>1, <1>2 DEF Config!Edited, Config!Configs, Config!Versions, Config!Setting,
       Config!Edits
  <1>4. latest' = [latest EXCEPT ![Config!Setting(e)] = e]
    BY DEF Config!Edit
  <1>5. /\ latest' = [team |-> latest'.team, conn |-> latest'.conn]
        /\ cfg.team = latest'.team /\ cfg.conn = latest'.conn
    BY <1>1, <1>3, <1>4 DEF Config!Setting
  <1>6. /\ client' \in [Config!Edits -> Answers]
        /\ probe' \in [Config!Probes -> {"new", "testing", "saving", "done", "gone"}]
        /\ \A x \in Config!Edits : client'[x] = "done" => client[x] = "done"
    BY DEF Config!Edit, ConfigInv, ConfigShapes, Answers
  <1>7. Config!Save(cfg, e) /\ UNCHANGED <<stored, revision, up, crashes, tested>>
    BY <1>2 DEF Config!Edit
  <1> QED BY <1>1, <1>3, <1>5, <1>6, <1>7, ConfigSaveKeeps

\* A probe writes its verdict into the configuration that is in force.
LEMMA ConfigProbeKeeps ==
    ASSUME ConfigGiven, ConfigInv, NEW p \in Config!Probes, Config!ProbeEnd(p)
    PROVE  ConfigInv'
  <1>1. config \in Config!Configs /\ up /\ latest = [team |-> latest.team, conn |-> latest.conn]
        /\ config.team = latest.team /\ config.conn = latest.conn /\ tested[p] \in Config!Versions
    BY DEF Config!ProbeEnd, ConfigInv, ConfigShapes, EditsInForce
  <1>2. PICK ok \in BOOLEAN : Config!Save(Config!Marked(config, p, ok), p)
    BY DEF Config!ProbeEnd, Config!Present
  <1>3. PICK cfg : cfg = Config!Marked(config, p, ok)
    OBVIOUS
  <1>4. cfg \in Config!Configs /\ cfg.team = config.team /\ cfg.conn = config.conn
    BY <1>1, <1>3 DEF Config!Marked, Config!Configs
  <1>5. /\ client' = client /\ latest' = latest
        /\ client' \in [Config!Edits -> Answers]
        /\ probe' \in [Config!Probes -> {"new", "testing", "saving", "done", "gone"}]
    BY DEF Config!ProbeEnd, ConfigInv, ConfigShapes
  <1>6. p \notin Config!Edits
    BY DEF ConfigGiven
  <1>7. Config!Save(cfg, p) /\ UNCHANGED <<stored, revision, up, crashes, tested>>
    BY <1>2, <1>3 DEF Config!ProbeEnd
  <1> QED BY <1>1, <1>4, <1>5, <1>6, <1>7, ConfigSaveKeeps

\* The first of the rows that wait is stored.
LEMMA StoreRowKeeps ==
    ASSUME ConfigGiven, ConfigInv, Config!StoreRow
    PROVE  ConfigInv'
  <1>1. /\ up /\ saving # <<>> /\ saving \in Seq(WaitingSave)
        /\ stored \in Seq(Config!Configs) /\ Len(stored) \in Nat
    BY DEF Config!StoreRow, ConfigInv, ConfigShapes
  <1>2. PICK row : row = Head(saving)
    OBVIOUS
  <1>3. /\ row = saving[1] /\ row \in WaitingSave /\ 1 \in 1..Len(saving) /\ Len(saving) \in Nat
        /\ Tail(saving) \in Seq(WaitingSave) /\ Len(Tail(saving)) = Len(saving) - 1
        /\ \A i \in 1..(Len(saving) - 1) : Tail(saving)[i] = saving[i + 1]
        /\ (Tail(saving) = <<>> <=> Len(saving) = 1)
    BY <1>1, <1>2, ShorterSequence
  <1>4. /\ saving' = Tail(saving) /\ stored' = Append(stored, row.config)
        /\ revision' = Len(stored')
        /\ UNCHANGED <<config, read, tested, latest, unwritten, up, crashes>>
    BY <1>2 DEF Config!StoreRow, Config!historyVars
  <1>5. row.config \in Config!Configs /\ row.by \in Config!Edits \cup Config!Probes
        /\ (row.by \in Config!Edits => row.config[Config!Setting(row.by)] = row.by)
    BY <1>3 DEF WaitingSave, ConfigInv, RowsOfEdits
  <1>6. /\ stored' \in Seq(Config!Configs) /\ Len(stored') = Len(stored) + 1 /\ stored' # <<>>
        /\ \A i \in 1..Len(stored) : stored'[i] = stored[i]
        /\ stored'[Len(stored')] = row.config
    BY <1>1, <1>4, <1>5, LongerSequence
  <1>7. /\ client' \in [Config!Edits -> Answers]
        /\ probe' \in [Config!Probes -> {"new", "testing", "saving", "done", "gone"}]
        /\ \A e \in Config!Edits : client'[e] = "done" => client[e] = "done" \/ e = row.by
    BY <1>2, <1>5 DEF Config!StoreRow, Config!Answered, ConfigInv, ConfigShapes, Answers
  <1>8. ConfigShapes'
    BY <1>3, <1>4, <1>6, <1>7 DEF ConfigInv, ConfigShapes
  <1>9. EditsInForce'
    <2>1. config = saving[Len(saving)].config
      BY <1>1 DEF ConfigInv, EditsInForce
    <2>2. CASE Len(saving) = 1
      BY <1>1, <1>3, <1>4, <1>6, <2>1, <2>2 DEF ConfigInv, EditsInForce
    <2>3. CASE Len(saving) # 1
      <3>1. saving'[Len(saving')] = saving[Len(saving)] /\ saving' # <<>>
        BY <1>3, <1>4, <2>3
      <3> QED BY <1>1, <1>4, <2>1, <3>1 DEF ConfigInv, EditsInForce
    <2> QED BY <2>2, <2>3
  <1>10. RowsOfEdits'
    <2>1. ASSUME NEW i \in 1..Len(saving')
          PROVE  saving'[i].by \in Config!Edits =>
                   saving'[i].config[Config!Setting(saving'[i].by)] = saving'[i].by
      <3>1. saving'[i] = saving[i + 1] /\ i + 1 \in 1..Len(saving)
        BY <1>3, <1>4
      <3> QED BY <3>1 DEF ConfigInv, RowsOfEdits
    <2>2. ASSUME NEW e \in Config!Edits, client'[e] = "done"
          PROVE  \E i \in 1..Len(stored') : stored'[i][Config!Setting(e)] = e
      <3>1. CASE e = row.by
        BY <1>1, <1>5, <1>6, <3>1
      <3>2. CASE client[e] = "done"
        <4>1. PICK i \in 1..Len(stored) : stored[i][Config!Setting(e)] = e
          BY <3>2 DEF ConfigInv, RowsOfEdits
        <4>2. i \in 1..Len(stored') /\ stored'[i] = stored[i]
          BY <1>1, <1>6
        <4> QED BY <4>1, <4>2
      <3> QED BY <1>7, <2>2, <3>1, <3>2
    <2> QED BY <2>1, <2>2 DEF RowsOfEdits
  <1> QED BY <1>8, <1>9, <1>10 DEF ConfigInv

\* The first of the rows that wait is given up.
LEMMA RowFailsKeeps ==
    ASSUME ConfigGiven, ConfigInv, Config!RowFails
    PROVE  ConfigInv'
  <1>1. up /\ saving # <<>> /\ saving \in Seq(WaitingSave)
    BY DEF Config!RowFails, ConfigInv, ConfigShapes
  <1>2. PICK row : row = Head(saving)
    OBVIOUS
  <1>3. /\ row = saving[1] /\ row \in WaitingSave /\ Len(saving) \in Nat
        /\ Tail(saving) \in Seq(WaitingSave) /\ Len(Tail(saving)) = Len(saving) - 1
        /\ \A i \in 1..(Len(saving) - 1) : Tail(saving)[i] = saving[i + 1]
        /\ (Tail(saving) = <<>> <=> Len(saving) = 1)
    BY <1>1, <1>2, ShorterSequence
  <1>4. /\ saving' = Tail(saving) /\ unwritten' = (saving' = <<>>)
        /\ UNCHANGED <<config, revision, stored, tested, latest, up, crashes>>
    BY DEF Config!RowFails
  <1>5. /\ client' \in [Config!Edits -> Answers]
        /\ probe' \in [Config!Probes -> {"new", "testing", "saving", "done", "gone"}]
        /\ \A e \in Config!Edits : client'[e] = "done" => client[e] = "done"
    BY <1>2 DEF Config!RowFails, Config!Answered, ConfigInv, ConfigShapes, Answers
  <1>6. ConfigShapes'
    BY <1>3, <1>4, <1>5 DEF ConfigInv, ConfigShapes
  <1>7. EditsInForce'
    <2>1. config = saving[Len(saving)].config
      BY <1>1 DEF ConfigInv, EditsInForce
    <2>2. saving' # <<>> => saving'[Len(saving')] = saving[Len(saving)]
      BY <1>3, <1>4
    <2> QED BY <1>1, <1>4, <2>1, <2>2 DEF ConfigInv, EditsInForce
  <1>8. RowsOfEdits'
    <2>1. ASSUME NEW i \in 1..Len(saving')
          PROVE  saving'[i].by \in Config!Edits =>
                   saving'[i].config[Config!Setting(saving'[i].by)] = saving'[i].by
      <3>1. saving'[i] = saving[i + 1] /\ i + 1 \in 1..Len(saving)
        BY <1>3, <1>4
      <3> QED BY <3>1 DEF ConfigInv, RowsOfEdits
    <2> QED BY <1>4, <1>5, <2>1 DEF ConfigInv, RowsOfEdits
  <1> QED BY <1>6, <1>7, <1>8 DEF ConfigInv

\* A crash forgets the rows that wait, and the start takes the last that is stored.
LEMMA CrashAndStartKeep ==
    ASSUME ConfigGiven, ConfigInv, Config!Crash \/ Config!Start
    PROVE  ConfigInv'
  <1>1. saving' = <<>> /\ saving' \in Seq(WaitingSave) /\ Len(saving') = 0
    <2>1. saving' = <<>>
      BY DEF Config!Crash, Config!Start, ConfigInv, EditsInForce
    <2> QED BY <2>1
  <1>2. stored' = stored /\ stored \in Seq(Config!Configs) /\ stored # <<>> /\ Len(stored) \in Nat
        /\ Len(stored) \in 1..Len(stored)
    BY DEF Config!Crash, Config!Start, ConfigInv, ConfigShapes
  <1>3. CASE Config!Crash
    <2>1. \A e \in Config!Edits : client'[e] = "done" => client[e] = "done"
      BY <1>3 DEF Config!Crash, Config!historyVars, ConfigInv, ConfigShapes, Answers
    <2>2. ConfigShapes'
      <3>1. /\ client' \in [Config!Edits -> Answers]
            /\ probe' \in [Config!Probes -> {"new", "testing", "saving", "done", "gone"}]
        BY <1>3 DEF Config!Crash, Config!historyVars, ConfigInv, ConfigShapes, Answers
      <3>2. crashes' \in 0..MaxCrashes
        BY <1>3 DEF Config!Crash, ConfigInv, ConfigShapes, ConfigGiven
      <3> QED BY <1>1, <1>2, <1>3, <3>1, <3>2 DEF Config!Crash, Config!historyVars, ConfigInv, ConfigShapes, Answers
    <2> QED BY <1>1, <1>2, <1>3, <2>1, <2>2 DEF Config!Crash, Config!historyVars, ConfigInv, EditsInForce,
               RowsOfEdits
  <1>4. CASE Config!Start
    <2>1. config' = stored[Len(stored)] /\ config' \in Config!Configs
      BY <1>2, <1>4 DEF Config!Start, Config!Last
    <2>2. latest' = [team |-> config'.team, conn |-> config'.conn]
      BY <1>4 DEF Config!Start
    <2>3. ConfigShapes'
      BY <1>1, <1>2, <1>4, <2>1, <2>2 DEF Config!Start, ConfigInv, ConfigShapes
    <2> QED BY <1>1, <1>2, <1>4, <2>1, <2>2, <2>3 DEF Config!Start, ConfigInv, EditsInForce,
               RowsOfEdits
  <1> QED BY <1>3, <1>4

\* The invariant of the configuration is inductive.
LEMMA ConfigStep == ConfigGiven /\ ConfigInv /\ [Config!Next]_(Config!vars) => ConfigInv'
  <1> SUFFICES ASSUME ConfigGiven, ConfigInv, [Config!Next]_(Config!vars) PROVE ConfigInv'
    OBVIOUS
  <1>1. CASE UNCHANGED Config!vars
    BY <1>1 DEF Config!vars, Config!historyVars, ConfigInv, ConfigShapes, EditsInForce, RowsOfEdits
  <1>2. ASSUME NEW e \in Config!Edits, Config!Read(e) \/ Config!Conflict(e) PROVE ConfigInv'
    <2>1. /\ client' \in [Config!Edits -> Answers]
          /\ \A x \in Config!Edits : client'[x] = "done" => client[x] = "done"
      BY <1>2 DEF Config!Read, Config!Conflict, ConfigInv, ConfigShapes, Answers
    <2>2. UNCHANGED <<config, revision, stored, saving, probe, tested, latest, unwritten, up, crashes>>
      BY <1>2 DEF Config!Read, Config!Conflict, Config!historyVars
    <2> QED BY <2>1, <2>2 DEF ConfigInv, ConfigShapes, EditsInForce, RowsOfEdits
  <1>3. ASSUME NEW p \in Config!Probes, Config!ProbeStart(p) PROVE ConfigInv'
    <2>1. /\ probe' \in [Config!Probes -> {"new", "testing", "saving", "done", "gone"}]
          /\ tested' \in [Config!Probes -> Config!Versions]
      BY <1>3 DEF Config!ProbeStart, ConfigInv, ConfigShapes, Config!Configs
    <2>2. UNCHANGED <<config, revision, stored, saving, client, latest, unwritten, up, crashes>>
      BY <1>3 DEF Config!ProbeStart, Config!historyVars
    <2> QED BY <2>1, <2>2 DEF ConfigInv, ConfigShapes, EditsInForce, RowsOfEdits
  <1> QED BY <1>1, <1>2, <1>3, ConfigEditKeeps, ConfigProbeKeeps, StoreRowKeeps,
             RowFailsKeeps, CrashAndStartKeep DEF Config!Next

\* The histories, which say of each edit what it replaced and of each probe what overtook it.
Holds(cfg, s) == cfg[s] = latest[s] \/ Config!Unwritten(latest[s])
CheckFits(cfg) ==
    cfg.check \notin {NotRun, cfg.conn} => \E p \in overtaken : tested[p] = cfg.check
HistoryShapes ==
    /\ read = [e \in Config!Edits |-> read[e]]
    /\ \A e \in Config!Edits : client[e] # "new" => read[e] \in 1..Len(stored)
    /\ replaced \in [Config!Edits -> Config!Versions] /\ blind \subseteq Config!Edits
    /\ unwritten \in BOOLEAN /\ overtaken \subseteq Config!Probes
\* An edit waits once, and from its row on all rows have what it set while that is the last.
RowsInOrder ==
    /\ \A i \in 1..Len(saving) :
         saving[i].by \in Config!Edits => client[saving[i].by] = "saving"
    /\ \A i, j \in 1..Len(saving) :
         saving[i].by \in Config!Edits /\ saving[i].by = saving[j].by => i = j
    /\ \A i, j \in 1..Len(saving), s \in {"team", "conn"} :
         j <= i /\ saving[j].by \in Config!Edits /\ saving[j].by = latest[s]
         => saving[i].config[s] = latest[s]
\* What is in force and in none of the rows is of an edit whose row waits or failed.
LatestOrUnwritten ==
    up => \A s \in {"team", "conn"} :
            /\ Holds(stored[Len(stored)], s)
            /\ \A i \in 1..Len(saving) : Holds(saving[i].config, s)
ReplacedAreRead ==
    \A e \in Config!Edits : Config!Accepted(e) /\ e \notin blind =>
        replaced[e] = stored[read[e]][Config!Setting(e)]
ChecksFit ==
    /\ CheckFits(config)
    /\ \A i \in 1..Len(stored) : CheckFits(stored[i])
    /\ \A i \in 1..Len(saving) : CheckFits(saving[i].config)
    /\ \A p \in Config!Probes :
         /\ probe[p] = "testing" => up /\ (tested[p] = config.conn \/ p \in overtaken)
         /\ p \in overtaken => probe[p] # "new"
HistoryInv ==
    HistoryShapes /\ RowsInOrder /\ LatestOrUnwritten /\ ReplacedAreRead /\ ChecksFit

\* At first nothing is edited.
LEMMA HistoryInit == ConfigGiven /\ Config!Init => HistoryInv
  <1> SUFFICES ASSUME ConfigGiven, Config!Init PROVE HistoryInv
    OBVIOUS
  <1>1. Config!Seed.team = Seeded /\ Config!Seed.conn = Seeded /\ Config!Seed.check = NotRun
    BY DEF Config!Seed
  <1>2. stored = <<Config!Seed>> /\ Len(stored) = 1 /\ stored[1] = Config!Seed
        /\ saving = <<>> /\ Len(saving) = 0
    BY DEF Config!Init
  <1>3. latest["team"] = Seeded /\ latest["conn"] = Seeded /\ Seeded \in Config!Versions
    BY DEF Config!Init, Config!Versions
  <1>4. HistoryShapes
    <2>1. read = [e \in Config!Edits |-> read[e]]
      BY DEF Config!Init
    <2>2. replaced \in [Config!Edits -> Config!Versions]
      BY <1>3 DEF Config!Init
    <2> QED BY <2>1, <2>2 DEF Config!Init, HistoryShapes
  <1>5. RowsInOrder
    BY <1>2 DEF RowsInOrder
  <1>6. LatestOrUnwritten
    BY <1>1, <1>2, <1>3 DEF LatestOrUnwritten, Holds
  <1>7. ReplacedAreRead
    BY DEF Config!Init, ReplacedAreRead, Config!Accepted
  <1>8. ChecksFit
    BY <1>1, <1>2 DEF Config!Init, ChecksFit, CheckFits
  <1> QED BY <1>4, <1>5, <1>6, <1>7, <1>8 DEF HistoryInv

\* The call of one edit moves before it is accepted.
LEMMA HistoryReads ==
    ASSUME ConfigInv, HistoryInv, NEW e \in Config!Edits, Config!Read(e) \/ Config!Conflict(e)
    PROVE  HistoryInv'
  <1>1. /\ UNCHANGED <<config, revision, stored, saving, probe, tested, latest, replaced, blind,
                       unwritten, overtaken, up, crashes>>
        /\ \A x \in Config!Edits : x # e => client'[x] = client[x] /\ read'[x] = read[x]
        /\ client[e] \in {"new", "read"} /\ client'[e] \in {"read", "refused"}
        /\ read' = [x \in Config!Edits |-> read'[x]]
    BY DEF Config!Read, Config!Conflict, Config!historyVars, ConfigInv, ConfigShapes, HistoryInv,
           HistoryShapes
  <1>2. revision \in 1..Len(stored)
    BY DEF ConfigInv, ConfigShapes
  <1>3. read'[e] \in 1..Len(stored)
    BY <1>2 DEF Config!Read, Config!Conflict, HistoryInv, HistoryShapes
  <1>4. HistoryShapes'
    BY <1>1, <1>3 DEF HistoryInv, HistoryShapes
  <1>5. RowsInOrder'
    BY <1>1 DEF HistoryInv, RowsInOrder
  <1>6. \A v : Config!Unwritten(v) => Config!Unwritten(v)'
    BY <1>1 DEF Config!Unwritten
  <1>7. LatestOrUnwritten'
    BY <1>1, <1>6 DEF HistoryInv, LatestOrUnwritten, Holds
  <1>8. ReplacedAreRead'
    BY <1>1 DEF HistoryInv, ReplacedAreRead, Config!Accepted
  <1>9. ChecksFit'
    BY <1>1 DEF HistoryInv, ChecksFit, CheckFits
  <1> QED BY <1>4, <1>5, <1>7, <1>8, <1>9 DEF HistoryInv

\* An edit is accepted: what it replaced is in the last row, or in none.
LEMMA HistoryEdit ==
    ASSUME ConfigGiven, ConfigInv, HistoryInv, NEW e \in Config!Edits, Config!Edit(e)
    PROVE  HistoryInv'
  <1>1. PICK cfg : cfg = Config!Edited(config, e)
    OBVIOUS
  <1>2. PICK s \in {"team", "conn"} : s = Config!Setting(e)
    BY DEF Config!Setting
  <1>3. /\ config \in Config!Configs /\ up /\ client[e] = "read" /\ read[e] = Len(stored)
        /\ \A x \in {"team", "conn"} : config[x] = latest[x]
        /\ saving \in Seq(WaitingSave) /\ Len(saving) \in Nat /\ Len(stored) \in 1..Len(stored)
    BY DEF Config!Edit, Config!Expected, ConfigInv, ConfigShapes, EditsInForce
  <1>4. /\ cfg \in Config!Configs /\ cfg[s] = e
        /\ \A x \in {"team", "conn"} : x # s => cfg[x] = config[x]
        /\ e \in TeamEdits => cfg.conn = config.conn /\ cfg.check = config.check
        /\ e \notin TeamEdits => cfg.check = NotRun
    BY <1>1, <1>2, <1>3 DEF Config!Edited, Config!Configs, Config!Versions, Config!Setting,
       Config!Edits
  <1>5. PICK row : row = [config |-> cfg, by |-> e]
    OBVIOUS
  <1>6. row \in WaitingSave /\ row.config = cfg /\ row.by = e
    BY <1>4, <1>5 DEF WaitingSave
  <1>7. /\ config' = cfg /\ saving' = Append(saving, row) /\ unwritten' = FALSE
        /\ UNCHANGED <<revision, stored, read, probe, tested, up, crashes>>
    BY <1>1, <1>5 DEF Config!Edit, Config!Save, Config!Assigned
  <1>8. /\ Len(saving') = Len(saving) + 1 /\ \A i \in 1..Len(saving) : saving'[i] = saving[i]
        /\ saving'[Len(saving')] = row
    BY <1>3, <1>6, <1>7, LongerSequence
  <1>9. \A i \in 1..Len(saving') : i \in 1..Len(saving) \/ i = Len(saving')
    BY <1>3, <1>8
  <1>10. /\ client'[e] = "saving" /\ \A x \in Config!Edits : x # e => client'[x] = client[x]
         /\ latest'[s] = e /\ \A x \in {"team", "conn"} : x # s => latest'[x] = latest[x]
         /\ replaced' = [replaced EXCEPT ![e] = config[s]]
         /\ blind' = IF Config!Unwritten(config[s]) THEN blind \cup {e} ELSE blind
    BY <1>2 DEF Config!Edit, ConfigInv, ConfigShapes, Config!Setting
  <1>11. /\ overtaken \subseteq overtaken' /\ overtaken' \subseteq Config!Probes
         /\ e \notin TeamEdits => \A p \in Config!Probes : probe[p] = "testing" => p \in overtaken'
         /\ \A p \in overtaken' : p \in overtaken \/ probe[p] = "testing"
    BY DEF Config!Edit, HistoryInv, HistoryShapes, Config!Edits
  <1>12. HistoryShapes'
    <2>1. config[s] \in Config!Versions
      BY <1>3 DEF Config!Configs
    <2> QED BY <1>3, <1>7, <1>10, <1>11, <2>1 DEF HistoryInv, HistoryShapes
  <1>13. \A i \in 1..Len(saving) : saving[i].by # e
    BY <1>3 DEF HistoryInv, RowsInOrder
  <1>14. RowsInOrder'
    <2>1. \A i \in 1..Len(saving') :
            saving'[i].by \in Config!Edits => client'[saving'[i].by] = "saving"
      BY <1>6, <1>8, <1>9, <1>10, <1>13 DEF HistoryInv, RowsInOrder
    <2>2. \A i, j \in 1..Len(saving') :
            saving'[i].by \in Config!Edits /\ saving'[i].by = saving'[j].by => i = j
      BY <1>6, <1>8, <1>9, <1>13 DEF HistoryInv, RowsInOrder
    <2>3. ASSUME NEW i \in 1..Len(saving'), NEW j \in 1..Len(saving'), NEW x \in {"team", "conn"},
                 j <= i, saving'[j].by \in Config!Edits, saving'[j].by = latest'[x]
          PROVE  saving'[i].config[x] = latest'[x]
      <3>1. CASE i = Len(saving')
        BY <1>3, <1>4, <1>6, <1>8, <1>10, <3>1
      <3>2. CASE i \in 1..Len(saving)
        <4>1. j \in 1..Len(saving)
          BY <1>3, <2>3, <3>2
        <4>2. x # s
          BY <1>8, <1>10, <1>13, <2>3, <4>1
        <4> QED BY <1>8, <1>10, <2>3, <3>2, <4>1, <4>2 DEF HistoryInv, RowsInOrder
      <3> QED BY <1>9, <3>1, <3>2
    <2> QED BY <2>1, <2>2, <2>3 DEF RowsInOrder
  <1>15. LatestOrUnwritten'
    <2>1. Config!Unwritten(e)'
      BY <1>10 DEF Config!Unwritten
    <2>2. \A v : Config!Unwritten(v) => Config!Unwritten(v)'
      BY <1>3, <1>10 DEF Config!Unwritten
    <2>3. ASSUME NEW x \in {"team", "conn"}
          PROVE  /\ Holds(stored[Len(stored)], x)'
                 /\ \A i \in 1..Len(saving') : Holds(saving[i].config, x)'
      <3>1. CASE x = s
        BY <1>10, <2>1, <3>1 DEF Holds
      <3>2. CASE x # s
        <4>1. Holds(stored[Len(stored)], x)'
          BY <1>3, <1>7, <1>10, <2>2, <3>2 DEF HistoryInv, LatestOrUnwritten, Holds
        <4>2. \A i \in 1..Len(saving) : Holds(saving[i].config, x)'
          BY <1>3, <1>8, <1>10, <2>2, <3>2 DEF HistoryInv, LatestOrUnwritten, Holds
        <4>3. Holds(saving[Len(saving)].config, x)'
          BY <1>3, <1>4, <1>6, <1>8, <1>10, <3>2 DEF Holds
        <4> QED BY <1>9, <4>1, <4>2, <4>3
      <3> QED BY <3>1, <3>2
    <2> QED BY <2>3 DEF LatestOrUnwritten
  <1>16. ReplacedAreRead'
    <2>1. ASSUME NEW x \in Config!Edits, Config!Accepted(x)', x \notin blind'
          PROVE  replaced'[x] = stored'[read'[x]][Config!Setting(x)]
      <3>1. CASE x = e
        <4>1. ~Config!Unwritten(config[s]) /\ config[s] = latest[s]
          BY <1>3, <1>10, <2>1, <3>1
        <4>2. stored[Len(stored)][s] = config[s]
          BY <1>3, <4>1 DEF HistoryInv, LatestOrUnwritten, Holds
        <4>3. replaced'[e] = config[s]
          BY <1>10 DEF HistoryInv, HistoryShapes
        <4> QED BY <1>2, <1>3, <1>7, <3>1, <4>2, <4>3
      <3>2. CASE x # e
        <4>1. Config!Accepted(x) /\ x \notin blind
          BY <1>10, <2>1, <3>2 DEF Config!Accepted
        <4> QED BY <1>7, <1>10, <3>2, <4>1 DEF HistoryInv, HistoryShapes, ReplacedAreRead
      <3> QED BY <3>1, <3>2
    <2> QED BY <2>1 DEF ReplacedAreRead
  <1>17. ChecksFit'
    <2>1. \A c : CheckFits(c) => CheckFits(c)'
      BY <1>7, <1>11 DEF CheckFits
    <2>2. CheckFits(cfg)'
      BY <1>4, <2>1 DEF HistoryInv, ChecksFit, CheckFits
    <2>3. \A i \in 1..Len(stored') : CheckFits(stored[i])'
      BY <1>7, <2>1 DEF HistoryInv, ChecksFit
    <2>4. \A i \in 1..Len(saving') : CheckFits(saving[i].config)'
      BY <1>6, <1>8, <1>9, <2>1, <2>2 DEF HistoryInv, ChecksFit
    <2>5. ASSUME NEW p \in Config!Probes
          PROVE  /\ probe'[p] = "testing" => up' /\ (tested'[p] = config'.conn \/ p \in overtaken')
                 /\ p \in overtaken' => probe'[p] # "new"
      BY <1>3, <1>4, <1>7, <1>11 DEF HistoryInv, ChecksFit
    <2> QED BY <1>7, <2>2, <2>3, <2>4, <2>5 DEF ChecksFit
  <1> QED BY <1>12, <1>14, <1>15, <1>16, <1>17 DEF HistoryInv

\* A probe begins.
LEMMA HistoryProbeStart ==
    ASSUME ConfigInv, HistoryInv, NEW p \in Config!Probes, Config!ProbeStart(p)
    PROVE  HistoryInv'
  <1>1. /\ UNCHANGED <<config, revision, stored, saving, client, read, latest, replaced, blind,
                       unwritten, overtaken, up, crashes>>
        /\ up /\ probe[p] = "new" /\ probe'[p] = "testing" /\ tested'[p] = config.conn
        /\ \A x \in Config!Probes : x # p => probe'[x] = probe[x] /\ tested'[x] = tested[x]
    BY DEF Config!ProbeStart, Config!historyVars, ConfigInv, ConfigShapes
  <1>2. HistoryShapes' /\ RowsInOrder' /\ LatestOrUnwritten' /\ ReplacedAreRead'
    BY <1>1 DEF HistoryInv, HistoryShapes, RowsInOrder, LatestOrUnwritten, ReplacedAreRead,
                Holds, Config!Accepted, Config!Unwritten
  <1>3. \A x \in overtaken : tested'[x] = tested[x]
    BY <1>1 DEF HistoryInv, HistoryShapes, ChecksFit
  <1>4. \A c : CheckFits(c) => CheckFits(c)'
    BY <1>1, <1>3 DEF CheckFits
  <1>5. ChecksFit'
    BY <1>1, <1>4 DEF HistoryInv, ChecksFit
  <1> QED BY <1>2, <1>5 DEF HistoryInv

\* A probe ends, and marks what it tested in the configuration that is there.
LEMMA HistoryProbeEnd ==
    ASSUME ConfigGiven, ConfigInv, HistoryInv, NEW p \in Config!Probes, Config!ProbeEnd(p)
    PROVE  HistoryInv'
  <1>1. PICK ok \in BOOLEAN : Config!Save(Config!Marked(config, p, ok), p)
    BY DEF Config!ProbeEnd, Config!Present
  <1>2. PICK cfg : cfg = Config!Marked(config, p, ok)
    OBVIOUS
  <1>3. /\ config \in Config!Configs /\ up /\ tested[p] \in Config!Versions
        /\ \A x \in {"team", "conn"} : config[x] = latest[x]
        /\ saving \in Seq(WaitingSave) /\ Len(saving) \in Nat
    BY DEF Config!ProbeEnd, ConfigInv, ConfigShapes, EditsInForce
  <1>4. /\ cfg \in Config!Configs /\ cfg.team = config.team /\ cfg.conn = config.conn
        /\ cfg.check \in {NotRun, tested[p]}
    BY <1>2, <1>3 DEF Config!Marked, Config!Configs
  <1>5. PICK row : row = [config |-> cfg, by |-> p]
    OBVIOUS
  <1>6. row \in WaitingSave /\ row.config = cfg /\ row.by = p /\ p \notin Config!Edits
    BY <1>4, <1>5 DEF WaitingSave, ConfigGiven
  <1>7. /\ config' = cfg /\ saving' = Append(saving, row) /\ unwritten' = FALSE
        /\ probe[p] = "testing" /\ probe'[p] = "saving"
        /\ \A x \in Config!Probes : x # p => probe'[x] = probe[x]
        /\ UNCHANGED <<revision, stored, client, read, tested, latest, replaced, blind,
                       overtaken, up, crashes>>
    BY <1>1, <1>2, <1>5 DEF Config!ProbeEnd, Config!Save, Config!Assigned, ConfigInv, ConfigShapes
  <1>8. /\ Len(saving') = Len(saving) + 1 /\ \A i \in 1..Len(saving) : saving'[i] = saving[i]
        /\ saving'[Len(saving')] = row
    BY <1>3, <1>6, <1>7, LongerSequence
  <1>9. \A i \in 1..Len(saving') : i \in 1..Len(saving) \/ i = Len(saving')
    BY <1>3, <1>8
  <1>10. HistoryShapes' /\ ReplacedAreRead'
    BY <1>7 DEF HistoryInv, HistoryShapes, ReplacedAreRead, Config!Accepted
  <1>11. RowsInOrder'
    <2>1. \A i \in 1..Len(saving') :
            saving'[i].by \in Config!Edits => i \in 1..Len(saving) /\ saving'[i] = saving[i]
      BY <1>6, <1>8, <1>9
    <2>2. ASSUME NEW i \in 1..Len(saving'), NEW j \in 1..Len(saving'), NEW x \in {"team", "conn"},
                 j <= i, saving'[j].by \in Config!Edits, saving'[j].by = latest'[x]
          PROVE  saving'[i].config[x] = latest'[x]
      <3>1. j \in 1..Len(saving) /\ saving'[j] = saving[j]
        BY <2>1, <2>2
      <3>2. CASE i = Len(saving')
        BY <1>3, <1>4, <1>6, <1>7, <1>8, <3>2
      <3>3. CASE i \in 1..Len(saving)
        BY <1>7, <1>8, <2>2, <3>1, <3>3 DEF HistoryInv, RowsInOrder
      <3> QED BY <1>9, <3>2, <3>3
    <2>3. \A i \in 1..Len(saving') :
            saving'[i].by \in Config!Edits => client'[saving'[i].by] = "saving"
      BY <1>7, <2>1 DEF HistoryInv, RowsInOrder
    <2>4. \A i, j \in 1..Len(saving') :
            saving'[i].by \in Config!Edits /\ saving'[i].by = saving'[j].by => i = j
      BY <2>1 DEF HistoryInv, RowsInOrder
    <2> QED BY <2>2, <2>3, <2>4 DEF RowsInOrder
  <1>12. LatestOrUnwritten'
    <2>1. \A c, x : Holds(c, x) => Holds(c, x)'
      BY <1>7 DEF Holds, Config!Unwritten
    <2>2. \A x \in {"team", "conn"} : Holds(cfg, x)'
      BY <1>3, <1>4, <1>7 DEF Holds
    <2> QED BY <1>3, <1>6, <1>7, <1>8, <1>9, <2>1, <2>2 DEF HistoryInv, LatestOrUnwritten
  <1>13. ChecksFit'
    <2>1. \A c : CheckFits(c) => CheckFits(c)'
      BY <1>7 DEF CheckFits
    <2>2. CheckFits(cfg)'
      <3>1. tested[p] = config.conn \/ p \in overtaken
        BY <1>7 DEF HistoryInv, ChecksFit
      <3> QED BY <1>4, <1>7, <3>1 DEF CheckFits
    <2>3. \A i \in 1..Len(saving') : CheckFits(saving[i].config)'
      BY <1>6, <1>8, <1>9, <2>1, <2>2 DEF HistoryInv, ChecksFit
    <2>4. ASSUME NEW x \in Config!Probes
          PROVE  /\ probe'[x] = "testing" => up' /\ (tested'[x] = config'.conn \/ x \in overtaken')
                 /\ x \in overtaken' => probe'[x] # "new"
      BY <1>4, <1>7 DEF HistoryInv, ChecksFit
    <2> QED BY <1>7, <2>1, <2>2, <2>3, <2>4 DEF HistoryInv, ChecksFit
  <1> QED BY <1>10, <1>11, <1>12, <1>13 DEF HistoryInv

\* The first of the rows that wait is stored, or fails.
LEMMA HistoryRow ==
    ASSUME ConfigGiven, ConfigInv, HistoryInv, Config!StoreRow \/ Config!RowFails
    PROVE  HistoryInv'
  <1>1. /\ up /\ saving # <<>> /\ saving \in Seq(WaitingSave)
        /\ stored \in Seq(Config!Configs) /\ stored # <<>> /\ Len(stored) \in Nat \ {0}
    BY DEF Config!StoreRow, Config!RowFails, ConfigInv, ConfigShapes
  <1>2. PICK row : row = Head(saving)
    OBVIOUS
  <1>3. /\ row = saving[1] /\ row \in WaitingSave /\ 1 \in 1..Len(saving) /\ Len(saving) \in Nat
        /\ Len(Tail(saving)) = Len(saving) - 1
        /\ \A i \in 1..(Len(saving) - 1) : Tail(saving)[i] = saving[i + 1]
    BY <1>1, <1>2, ShorterSequence
  <1>4. /\ saving' = Tail(saving)
        /\ UNCHANGED <<config, read, tested, latest, replaced, blind, overtaken, up, crashes>>
        /\ unwritten' \in BOOLEAN
    BY DEF Config!StoreRow, Config!RowFails, Config!historyVars, HistoryInv, HistoryShapes
  <1>5. /\ row.config \in Config!Configs /\ row.by \in Config!Edits \cup Config!Probes
        /\ row.by \in Config!Edits => client[row.by] = "saving"
        /\ CheckFits(row.config)
    BY <1>3 DEF WaitingSave, HistoryInv, RowsInOrder, ChecksFit
  <1>6. /\ Len(stored') \in {Len(stored), Len(stored) + 1}
        /\ \A i \in 1..Len(stored) : stored'[i] = stored[i]
        /\ stored' = stored \/ (Config!StoreRow /\ Len(stored') = Len(stored) + 1
                                /\ stored'[Len(stored')] = row.config)
    <2>1. CASE Config!RowFails
      BY <2>1 DEF Config!RowFails
    <2>2. CASE Config!StoreRow
      <3>1. stored' = Append(stored, row.config)
        BY <1>2, <2>2 DEF Config!StoreRow
      <3> QED BY <1>1, <1>5, <2>2, <3>1, LongerSequence
    <2> QED BY <2>1, <2>2
  <1>7. /\ \A e \in Config!Edits : e # row.by => client'[e] = client[e]
        /\ row.by \in Config!Edits =>
             client'[row.by] = (IF stored' = stored THEN "failed" ELSE "done")
        /\ \A p \in Config!Probes : probe'[p] = probe[p] \/ (p = row.by /\ probe'[p] = "done")
    <2>1. CASE Config!RowFails
      BY <1>2, <1>5, <2>1 DEF Config!RowFails, Config!Answered, ConfigInv, ConfigShapes
    <2>2. CASE Config!StoreRow
      <3>1. stored' # stored
        <4>1. Len(Append(stored, row.config)) = Len(stored) + 1
          BY <1>1, <1>5, LongerSequence
        <4> QED BY <1>1, <1>2, <2>2, <4>1 DEF Config!StoreRow
      <3> QED BY <1>2, <1>5, <2>2, <3>1 DEF Config!StoreRow, Config!Answered, ConfigInv, ConfigShapes
    <2> QED BY <2>1, <2>2
  <1>8. \A i \in 1..Len(saving') : i + 1 \in 1..Len(saving) /\ saving'[i] = saving[i + 1]
                                   /\ i + 1 # 1
    BY <1>3, <1>4
  <1>9. HistoryShapes'
    <2>1. ASSUME NEW e \in Config!Edits, client'[e] # "new" PROVE read'[e] \in 1..Len(stored')
      <3>1. read[e] \in 1..Len(stored)
        BY <1>5, <1>7, <2>1 DEF HistoryInv, HistoryShapes
      <3> QED BY <1>1, <1>4, <1>6, <3>1
    <2> QED BY <1>4, <2>1 DEF HistoryInv, HistoryShapes
  <1>10. RowsInOrder'
    <2>1. ASSUME NEW i \in 1..Len(saving'), saving'[i].by \in Config!Edits
          PROVE  saving'[i].by # row.by
      BY <1>3, <1>8, <2>1 DEF HistoryInv, RowsInOrder
    <2>2. ASSUME NEW i \in 1..Len(saving'), saving'[i].by \in Config!Edits
          PROVE  client'[saving'[i].by] = "saving"
      BY <1>7, <1>8, <2>1, <2>2 DEF HistoryInv, RowsInOrder
    <2>3. ASSUME NEW i \in 1..Len(saving'), NEW j \in 1..Len(saving'),
                 saving'[i].by \in Config!Edits, saving'[i].by = saving'[j].by
          PROVE  i = j
      <3>1. i + 1 = j + 1
        BY <1>8, <2>3 DEF HistoryInv, RowsInOrder
      <3> QED BY <1>3, <1>4, <3>1
    <2>4. ASSUME NEW i \in 1..Len(saving'), NEW j \in 1..Len(saving'), NEW x \in {"team", "conn"},
                 j <= i, saving'[j].by \in Config!Edits, saving'[j].by = latest'[x]
          PROVE  saving'[i].config[x] = latest'[x]
      <3>1. j + 1 <= i + 1
        BY <1>3, <1>4, <2>4
      <3> QED BY <1>4, <1>8, <2>4, <3>1 DEF HistoryInv, RowsInOrder
    <2> QED BY <2>2, <2>3, <2>4 DEF RowsInOrder
  <1>11. LatestOrUnwritten'
    <2>1. ASSUME NEW x \in {"team", "conn"}
          PROVE  /\ Holds(stored[Len(stored)], x)'
                 /\ \A i \in 1..Len(saving') : Holds(saving[i].config, x)'
      <3>1. CASE latest[x] = row.by /\ row.by \in Config!Edits /\ stored' # stored
        <4>1. \A i \in 1..Len(saving) : saving[i].config[x] = latest[x]
          <5>1. \A i \in 1..Len(saving) : 1 <= i
            BY <1>3
          <5> QED BY <1>3, <3>1, <5>1 DEF HistoryInv, RowsInOrder
        <4>2. row.config[x] = latest[x] /\ stored'[Len(stored')] = row.config
          BY <1>3, <1>6, <3>1, <4>1
        <4> QED BY <1>4, <1>8, <4>1, <4>2 DEF Holds
      <3>2. CASE ~(latest[x] = row.by /\ row.by \in Config!Edits /\ stored' # stored)
        <4>1. Config!Unwritten(latest[x]) => Config!Unwritten(latest[x])'
          BY <1>4, <1>7, <3>2 DEF Config!Unwritten
        <4>2. \A c : Holds(c, x) => Holds(c, x)'
          BY <1>4, <4>1 DEF Holds
        <4>3. Holds(stored'[Len(stored')], x)
          BY <1>1, <1>3, <1>6 DEF HistoryInv, LatestOrUnwritten
        <4>4. \A i \in 1..Len(saving') : Holds(saving'[i].config, x)
          BY <1>1, <1>8 DEF HistoryInv, LatestOrUnwritten
        <4> QED BY <1>4, <4>1, <4>3, <4>4 DEF Holds
      <3> QED BY <3>1, <3>2
    <2> QED BY <2>1 DEF LatestOrUnwritten
  <1>12. ReplacedAreRead'
    <2>1. ASSUME NEW e \in Config!Edits, Config!Accepted(e)', e \notin blind'
          PROVE  replaced'[e] = stored'[read'[e]][Config!Setting(e)]
      <3>1. Config!Accepted(e) /\ e \notin blind /\ client[e] # "new"
        BY <1>4, <1>5, <1>7, <2>1 DEF Config!Accepted
      <3>2. read[e] \in 1..Len(stored)
        BY <3>1 DEF HistoryInv, HistoryShapes
      <3> QED BY <1>4, <1>6, <3>1, <3>2 DEF HistoryInv, ReplacedAreRead
    <2> QED BY <2>1 DEF ReplacedAreRead
  <1>13. ChecksFit'
    <2>1. \A c : CheckFits(c) => CheckFits(c)'
      BY <1>4 DEF CheckFits
    <2>2. \A i \in 1..Len(stored') : CheckFits(stored'[i])
      <3>1. \A i \in 1..Len(stored') : i \in 1..Len(stored) \/ (i = Len(stored') /\ stored' # stored)
        BY <1>1, <1>6
      <3> QED BY <1>5, <1>6, <3>1 DEF HistoryInv, ChecksFit
    <2>3. \A i \in 1..Len(saving') : CheckFits(saving'[i].config)
      BY <1>8 DEF HistoryInv, ChecksFit
    <2>4. ASSUME NEW p \in Config!Probes
          PROVE  /\ probe'[p] = "testing" => up' /\ (tested'[p] = config'.conn \/ p \in overtaken')
                 /\ p \in overtaken' => probe'[p] # "new"
      BY <1>4, <1>7 DEF HistoryInv, ChecksFit
    <2>5. CheckFits(config)'
      BY <1>4, <2>1 DEF HistoryInv, ChecksFit
    <2>6. \A i \in 1..Len(stored') : CheckFits(stored[i])'
      BY <1>4, <2>2 DEF CheckFits
    <2>7. \A i \in 1..Len(saving') : CheckFits(saving[i].config)'
      BY <1>4, <2>3 DEF CheckFits
    <2> QED BY <2>4, <2>5, <2>6, <2>7 DEF ChecksFit
  <1> QED BY <1>9, <1>10, <1>11, <1>12, <1>13 DEF HistoryInv

\* A crash loses what waits, and the start takes the last row.
LEMMA HistoryCrash ==
    ASSUME ConfigGiven, ConfigInv, HistoryInv, Config!Crash \/ Config!Start
    PROVE  HistoryInv'
  <1>1. /\ UNCHANGED <<stored, read, tested, replaced, blind, overtaken>>
        /\ saving' = <<>> /\ Len(saving') = 0 /\ Len(stored) \in 1..Len(stored)
        /\ unwritten' \in BOOLEAN
    <2>1. saving' = <<>>
      BY DEF Config!Crash, Config!Start, ConfigInv, EditsInForce
    <2>2. Len(stored) \in 1..Len(stored)
      BY DEF ConfigInv, ConfigShapes
    <2>3. unwritten' \in BOOLEAN
      BY DEF Config!Crash, Config!Start, Config!historyVars, HistoryInv, HistoryShapes
    <2> QED BY <2>1, <2>2, <2>3 DEF Config!Crash, Config!Start, Config!historyVars
  <1>2. \A e \in Config!Edits : client'[e] = client[e] \/ (client[e] = "saving" /\ client'[e] = "gone")
    BY DEF Config!Crash, Config!Start
  <1>3. HistoryShapes'
    BY <1>1, <1>2 DEF HistoryInv, HistoryShapes
  <1>4. RowsInOrder'
    BY <1>1 DEF RowsInOrder
  <1>5. LatestOrUnwritten'
    <2>1. CASE Config!Crash
      BY <2>1 DEF Config!Crash, LatestOrUnwritten
    <2>2. CASE Config!Start
      <3>1. config' = stored[Len(stored)] /\ latest' = [team |-> config'.team, conn |-> config'.conn]
        BY <1>1, <2>2 DEF Config!Start, Config!Last
      <3> QED BY <1>1, <3>1 DEF LatestOrUnwritten, Holds
    <2> QED BY <2>1, <2>2
  <1>6. ReplacedAreRead'
    BY <1>1, <1>2 DEF HistoryInv, ReplacedAreRead, Config!Accepted
  <1>7. ChecksFit'
    <2>1. \A c : CheckFits(c) => CheckFits(c)'
      BY <1>1 DEF CheckFits
    <2>2. config' = config \/ config' = stored[Len(stored)]
      BY <1>1 DEF Config!Crash, Config!Start, Config!Last
    <2>3. CheckFits(config)'
      BY <1>1, <2>1, <2>2 DEF HistoryInv, ChecksFit
    <2>4. \A p \in Config!Probes :
            /\ probe'[p] # "testing"
            /\ p \in overtaken' => probe'[p] # "new"
      <3>1. CASE Config!Crash
        BY <1>1, <3>1 DEF Config!Crash, HistoryInv, ChecksFit
      <3>2. CASE Config!Start
        BY <1>1, <3>2 DEF Config!Start, HistoryInv, ChecksFit
      <3> QED BY <3>1, <3>2
    <2> QED BY <1>1, <2>1, <2>3, <2>4 DEF HistoryInv, ChecksFit
  <1> QED BY <1>3, <1>4, <1>5, <1>6, <1>7 DEF HistoryInv

\* The histories are inductive.
LEMMA HistoryStep ==
    ConfigGiven /\ ConfigInv /\ HistoryInv /\ [Config!Next]_(Config!vars) => HistoryInv'
  <1> SUFFICES ASSUME ConfigGiven, ConfigInv, HistoryInv, [Config!Next]_(Config!vars)
               PROVE  HistoryInv'
    OBVIOUS
  <1>1. CASE UNCHANGED Config!vars
    BY <1>1 DEF Config!vars, Config!historyVars, HistoryInv, HistoryShapes, RowsInOrder,
                LatestOrUnwritten, ReplacedAreRead, ChecksFit, Holds, CheckFits,
                Config!Accepted, Config!Unwritten
  <1> QED BY <1>1, HistoryReads, HistoryEdit, HistoryProbeStart, HistoryProbeEnd, HistoryRow,
             HistoryCrash DEF Config!Next

\* It gives what the run checks, and the types.
LEMMA ConfigHolds ==
    ConfigInv /\ HistoryInv =>
        /\ Config!LatestEditStands /\ Config!EditsReplaceWhatTheyRead
        /\ Config!ChecksAreOfTheirSettings /\ Config!TypeOK
  <1> SUFFICES ASSUME ConfigInv, HistoryInv
               PROVE  /\ Config!LatestEditStands /\ Config!EditsReplaceWhatTheyRead
                      /\ Config!ChecksAreOfTheirSettings /\ Config!TypeOK
    OBVIOUS
  <1>1. DOMAIN stored = 1..Len(stored) /\ Len(stored) \in Nat
    BY DEF ConfigInv, ConfigShapes
  <1>2. Config!LatestEditStands
    BY <1>1 DEF ConfigInv, ConfigShapes, EditsInForce, RowsOfEdits, Config!LatestEditStands,
       Config!Last
  <1>3. \A i \in DOMAIN saving : saving[i].config \in Config!Configs
    <2>1. saving \in Seq(WaitingSave)
      BY DEF ConfigInv, ConfigShapes
    <2>2. \A i \in DOMAIN saving : saving[i] \in WaitingSave
      BY <2>1
    <2> QED BY <2>2 DEF WaitingSave
  <1>4. Config!EditsReplaceWhatTheyRead /\ Config!ChecksAreOfTheirSettings
    BY DEF HistoryInv, ReplacedAreRead, ChecksFit, CheckFits, Config!EditsReplaceWhatTheyRead,
           Config!ChecksAreOfTheirSettings
  <1>5. Config!TypeOK
    BY <1>1, <1>3 DEF ConfigInv, ConfigShapes, HistoryInv, HistoryShapes, Answers, Config!TypeOK
  <1> QED BY <1>2, <1>4, <1>5

\* The constants are as Services assumes.
LEMMA ConfigLimits == ConfigGiven
  BY BoundsAssumption, NamesAssumption DEF ConfigGiven

\* The invariants of the configuration hold in every run.
LEMMA ConfigRuns == ServicesSpec => [](ConfigInv /\ HistoryInv)
  <1>1. ServicesInit => ConfigInv /\ HistoryInv
    BY ConfigLimits, ConfigInit, HistoryInit DEF ServicesInit
  <1>2. ConfigInv /\ HistoryInv /\ [ServicesNext]_allVars => (ConfigInv /\ HistoryInv)'
    BY ConfigLimits, StepOfEachPart, ConfigStep, HistoryStep
  <1> QED BY <1>1, <1>2, PTL DEF ServicesSpec

-----------------------------------------------------------------------------
(* The teams of runs                                                       *)

\* The instance counts sets as we do.
LEMMA TeamCounts == \A S : Team!Cardinality(S) = Cardinality(S)
  BY DEF Team!Cardinality, Cardinality

TeamGiven == Models # {} /\ MaxEdits \in Nat /\ MaxCrashes \in Nat

Stages == {"none", "blocked", "queued", "choosing", "chosen", "planning",
           "working", "completed", "partial", "failed", "interrupted"}
IsMember(m) ==
    /\ m = [id |-> m.id, of |-> m.of, name |-> m.name, on |-> m.on, model |-> m.model]
    /\ m.of \in Agents /\ m.on \in BOOLEAN
IsTeam(t) ==
    t = [members |-> t.members, probed |-> t.probed] /\ \A m \in t.members : IsMember(m)
IsRun(x) ==
    /\ x = [at |-> x.at, kind |-> x.kind, sel |-> x.sel, team |-> x.team, rec |-> x.rec,
            owners |-> x.owners, tries |-> x.tries]
    /\ x.at \in Stages /\ x.rec \in BOOLEAN /\ x.tries \in 0..2 /\ IsTeam(x.team)
Settings ==
    [single : BOOLEAN, on : SUBSET Agents, model : [Agents -> Models],
     probed : [Connections -> Models \cup {"none"}]]

AsConfigured(t) ==
    \A m, n \in t.members : m.id = m.of /\ m.name = Name[m.of] /\ (m.of = n.of => m = n)
FromBase(r, t) ==
    \A m \in Team!On(t) : m.of \in base[r].on /\ (r = "first" => m.model = base[r].model[m.of])
Themselves(t) ==
    /\ \A m \in Team!On(t) : Locked[m.of] => m.id = m.of /\ m.name = Name[m.of]
    /\ \A m, n \in Team!On(t) : m.id = n.id => m = n
Named(t) == \A m, n \in Team!On(t) : m.name = n.name => m = n
Checked(t, single) ==
    /\ \A m \in Team!On(t) : t.probed[Conn[m.of]] = m.model
    /\ IF single THEN Team!Cardinality(Team!Of(t, {"builder"}))
           = 1 ELSE Team!Of(t, {"master"}) # {}
Owned(t, owners, single) ==
    /\ owners \subseteq Team!Ids(Team!On(t))
    /\ ReviewRequired /\ ~single => \E m \in Team!On(t) : m.id \in owners /\ Role[m.of]
           = "reviewer"

\* The agents of a configuration, as they are on a team of it.
Plain(on) == {[id |-> x, of |-> x, name |-> Name[x]] : x \in on}

TeamShapes ==
    /\ setup \in Settings /\ runs = [r \in Team!Runs |-> runs[r]] /\ \A r
           \in Team!Runs : IsRun(runs[r])
    /\ live = [r \in Team!Runs |-> live[r]] /\ chosen = [r \in Team!Runs |-> chosen[r]]
    /\ base = [r \in Team!Runs |-> base[r]]
    /\ edits \in 0..MaxEdits /\ losses \in 0..MaxCrashes
TeamOK(r) ==
    /\ runs[r].at # "none" => FromBase(r, runs[r].team) /\ Themselves(runs[r].team)
    /\ ~runs[r].rec => AsConfigured(runs[r].team)
    /\ runs[r].at # "none" /\ ~runs[r].rec /\ runs[r].kind # "selected" =>
         Team!Who(runs[r].team) = Plain(base[r].on)
    /\ runs[r].rec => runs[r].kind = "adaptive" /\ Named(runs[r].team)
    /\ runs[r].at \notin {"none", "blocked"} =>
         /\ Checked(runs[r].team, setup.single)
         /\ runs[r].kind = "selected"
                => Team!Ids(Team!Specialists(runs[r].team)) \subseteq runs[r].sel
LiveOK(r) ==
    /\ runs[r].at \in {"choosing", "chosen"} =>
         runs[r].kind = "adaptive" /\ ~runs[r].rec /\ ~setup.single
    /\ runs[r].at \in {"choosing", "planning", "working"} => live[r] = runs[r].team
    /\ runs[r].at = "chosen" =>
         /\ IsTeam(live[r]) /\ FromBase(r, live[r]) /\ Themselves(live[r])
         /\ Checked(live[r], setup.single) /\ Named(live[r])
    /\ ~Team!Executing(r) => live[r] = Team!NoTeam
OwnersOK(r) ==
    /\ runs[r].at \in {"none", "blocked", "choosing", "chosen", "planning"} => runs[r].owners = {}
    /\ runs[r].at = "working" => runs[r].owners # {}
    /\ runs[r].owners # {} =>
         /\ chosen[r].by = r => chosen[r].team = runs[r].team
         /\ chosen[r].by # r => r = "fork" /\ chosen[r].by = "first" /\ runs["first"].owners # {}
         /\ ~Team!Diverged(r) => /\ Team!Who(runs[r].team) = Team!Who(chosen[r].team)
                                /\ Owned(runs[r].team, runs[r].owners, setup.single)
FirstIsFirst == runs["first"].at = "none" => runs["fork"].at = "none"
TeamInv ==
    TeamShapes /\ FirstIsFirst /\ \A r \in Team!Runs : TeamOK(r) /\ LiveOK(r) /\ OwnersOK(r)

\* At first no run has a team.
LEMMA TeamInit == TeamGiven /\ Team!Init => TeamInv
  <1> SUFFICES ASSUME TeamGiven, Team!Init PROVE TeamInv
    OBVIOUS
  <1>1. PICK m : m \in Models /\ m = CHOOSE n \in Models : TRUE
    BY DEF TeamGiven
  <1>2. PICK single \in BOOLEAN :
          setup = [single |-> single,
                    on |-> IF single THEN {a \in Agents : Role[a] = "builder" /\ ~Locked[a]}
                           ELSE Agents,
                    model |-> [a \in Agents |-> m], probed |-> [c \in Connections |-> m]]
    BY <1>1 DEF Team!Init
  <1>3. setup \in Settings
    BY <1>1, <1>2 DEF Settings
  <1>4. IsTeam(Team!NoTeam) /\ Team!NoTeam.members = {}
    BY DEF IsTeam, Team!NoTeam
  <1>5. /\ IsRun(Team!NoRun) /\ Team!NoRun.at = "none" /\ Team!NoRun.team = Team!NoTeam
               /\ Team!NoRun.owners = {}
        /\ Team!NoRun.rec = FALSE
    BY <1>4 DEF IsRun, Team!NoRun, Stages
  <1>6. \A r \in Team!Runs : runs[r] = Team!NoRun /\ live[r] = Team!NoTeam
    BY DEF Team!Init
  <1>7. TeamShapes
    BY <1>3, <1>5, <1>6 DEF Team!Init, TeamShapes, TeamGiven
  <1>8. ASSUME NEW r \in Team!Runs PROVE TeamOK(r) /\ LiveOK(r) /\ OwnersOK(r)
    BY <1>4, <1>5, <1>6 DEF TeamOK, LiveOK, OwnersOK, AsConfigured, Team!Executing
  <1> QED BY <1>5, <1>6, <1>7, <1>8 DEF TeamInv, FirstIsFirst, Team!Runs

\* What is true of a run that stands still stays true.
LEMMA RunStands ==
    ASSUME TeamInv, NEW r \in Team!Runs, runs'[r] = runs[r], live'[r] = live[r],
           base'[r] = base[r], setup'.single = setup.single,
           runs[r].owners # {} => chosen'[r] = chosen[r],
           runs["first"].owners # {} =>
             /\ runs'["first"].owners = runs["first"].owners
             /\ runs'["first"].rec = runs["first"].rec /\ base'["first"] = base["first"]
    PROVE  TeamOK(r)' /\ LiveOK(r)' /\ OwnersOK(r)'
  <1>1. TeamOK(r) /\ LiveOK(r) /\ OwnersOK(r)
    BY DEF TeamInv
  <1>2. TeamOK(r)'
    BY <1>1 DEF TeamOK, FromBase
  <1>3. LiveOK(r)'
    BY <1>1 DEF LiveOK, FromBase, Team!Executing
  <1>4. runs[r].owners # {} /\ Team!Diverged(r) => Team!Diverged(r)'
    BY <1>1 DEF Team!Diverged, OwnersOK
  <1>5. OwnersOK(r)'
    BY <1>1, <1>4 DEF OwnersOK
  <1> QED BY <1>2, <1>3, <1>5

\* A run that moves keeps its team.
LEMMA MovedIs ==
    ASSUME TeamInv, NEW r \in Team!Runs, NEW stage \in Stages, Team!Moved(r, stage)
    PROVE  /\ runs' = [s \in Team!Runs |-> runs'[s]] /\ \A s \in Team!Runs \ {r} : runs'[s]
              = runs[s]
           /\ IsRun(runs'[r]) /\ runs'[r].at = stage /\ runs'[r].kind = runs[r].kind
           /\ runs'[r].sel = runs[r].sel /\ runs'[r].team = runs[r].team
           /\ runs'[r].rec = runs[r].rec /\ runs'[r].owners = runs[r].owners
  <1>1. /\ runs = [s \in Team!Runs |-> runs[s]] /\ IsRun(runs[r])
        /\ runs' = [runs EXCEPT ![r].at = stage, ![r].tries = 0]
    BY DEF TeamInv, TeamShapes, Team!Moved
  <1>2. runs' = [s \in Team!Runs |-> runs'[s]] /\ \A s \in Team!Runs \ {r} : runs'[s] = runs[s]
    BY <1>1
  <1>3. runs'[r] = [runs[r] EXCEPT !.at = stage, !.tries = 0]
    BY <1>1
  <1>4. runs'[r] = [at |-> stage, kind |-> runs[r].kind, sel |-> runs[r].sel,
        team |-> runs[r].team,
                    rec |-> runs[r].rec, owners |-> runs[r].owners, tries |-> 0]
    BY <1>1, <1>3 DEF IsRun
  <1> QED BY <1>1, <1>2, <1>4 DEF IsRun

\* A run gets a live team, the others keep theirs.
LEMMA LiveOf ==
    ASSUME TeamInv, NEW r \in Team!Runs, NEW t, live' = [live EXCEPT ![r] = t]
    PROVE  /\ live' = [s \in Team!Runs |-> live'[s]] /\ live'[r] = t
           /\ \A s \in Team!Runs \ {r} : live'[s] = live[s]
  BY DEF TeamInv, TeamShapes

\* A run that ends, or is taken up again: its team and its owners stay.
LEMMA EndsKeeps ==
    ASSUME TeamInv, NEW r \in Team!Runs, UNCHANGED <<setup, Team!historyVars, edits, losses>>,
           \/ /\ Team!Executing(r) /\ \E stage
                     \in {"completed", "partial", "failed"} : Team!Ends(r, stage)
           \/ /\ runs[r].at \in {"partial", "failed", "interrupted"}
              /\ Team!Moved(r, "queued") /\ live' = live
    PROVE  TeamInv'
  <1>1. PICK stage \in {"completed", "partial", "failed", "queued"} :
          Team!Moved(r, stage) /\ live'[r] = Team!NoTeam /\ live' = [s \in Team!Runs |-> live'[s]]
          /\ (\A s \in Team!Runs \ {r} : live'[s] = live[s])
          /\ runs[r].at \notin {"none", "blocked"}
    <2>1. ASSUME NEW stage \in {"completed", "partial", "failed"}, Team!Ends(r, stage)
          PROVE  /\ Team!Moved(r, stage) /\ live'[r] = Team!NoTeam /\ live' = [s
                    \in Team!Runs |-> live'[s]]
                 /\ \A s \in Team!Runs \ {r} : live'[s] = live[s]
      BY <2>1, LiveOf DEF Team!Ends
    <2>2. ASSUME runs[r].at \in {"partial", "failed", "interrupted"} PROVE live[r] = Team!NoTeam
      BY <2>2 DEF TeamInv, LiveOK, Team!Executing
    <2>3. live = [s \in Team!Runs |-> live[s]]
      BY DEF TeamInv, TeamShapes
    <2> QED BY <2>1, <2>2, <2>3 DEF Team!Executing
  <1>2. /\ runs' = [s \in Team!Runs |-> runs'[s]] /\ \A s \in Team!Runs \ {r} : runs'[s] = runs[s]
        /\ IsRun(runs'[r]) /\ runs'[r].at = stage /\ runs'[r].kind = runs[r].kind
        /\ runs'[r].sel = runs[r].sel /\ runs'[r].team = runs[r].team
        /\ runs'[r].rec = runs[r].rec /\ runs'[r].owners = runs[r].owners
    <2>1. stage \in Stages
      BY DEF Stages
    <2> QED BY <1>1, <2>1, MovedIs
  <1>3. setup' = setup /\ base' = base /\ chosen' = chosen
    BY DEF Team!historyVars
  <1>4. TeamOK(r) /\ LiveOK(r) /\ OwnersOK(r)
    BY DEF TeamInv
  <1>5. \A s \in Team!Runs : runs'[s].owners = runs[s].owners /\ runs'[s].rec = runs[s].rec
    BY <1>2
  <1>6. TeamOK(r)'
    BY <1>1, <1>2, <1>3, <1>4 DEF TeamOK, FromBase
  <1>7. LiveOK(r)'
    BY <1>1, <1>2 DEF LiveOK, Team!Executing
  <1>8. runs[r].owners # {} /\ Team!Diverged(r) => Team!Diverged(r)'
    BY <1>2, <1>3, <1>4, <1>5 DEF Team!Diverged, Team!Runs, OwnersOK
  <1>9. OwnersOK(r)'
    BY <1>2, <1>3, <1>4, <1>5, <1>8 DEF OwnersOK, Team!Runs
  <1>10. \A s \in Team!Runs \ {r} : TeamOK(s)' /\ LiveOK(s)' /\ OwnersOK(s)'
    <2>1. /\ runs'["first"].owners = runs["first"].owners
          /\ runs'["first"].rec = runs["first"].rec
      BY <1>5 DEF Team!Runs
    <2> QED BY <1>1, <1>2, <1>3, <2>1, RunStands
  <1>11. TeamShapes'
    BY <1>1, <1>2, <1>3 DEF TeamInv, TeamShapes
  <1>12. FirstIsFirst'
    BY <1>1, <1>2 DEF TeamInv, FirstIsFirst, Team!Runs
  <1> QED BY <1>6, <1>7, <1>9, <1>10, <1>11, <1>12 DEF TeamInv

\* One run moves: the invariant of the others is not disturbed.
LEMMA OneMoves ==
    ASSUME TeamInv, NEW r \in Team!Runs, UNCHANGED <<setup, base, edits, losses>>,
           runs' = [s \in Team!Runs |-> runs'[s]], \A s \in Team!Runs \ {r} : runs'[s] = runs[s],
           live' = [s \in Team!Runs |-> live'[s]], \A s \in Team!Runs \ {r} : live'[s] = live[s],
           chosen' = [s \in Team!Runs |-> chosen'[s]],
             \A s \in Team!Runs \ {r} : chosen'[s] = chosen[s],
           IsRun(runs'[r]), runs[r].at # "none", runs'[r].at # "none",
           runs[r].owners # {} =>
             runs'[r].owners = runs[r].owners /\ runs'[r].rec = runs[r].rec,
           TeamOK(r)', LiveOK(r)', OwnersOK(r)'
    PROVE  TeamInv'
  <1>1. runs["first"].owners # {} =>
          runs'["first"].owners = runs["first"].owners /\ runs'["first"].rec = runs["first"].rec
    BY DEF Team!Runs
  <1>2. \A s \in Team!Runs \ {r} : TeamOK(s)' /\ LiveOK(s)' /\ OwnersOK(s)'
    BY <1>1, RunStands
  <1>3. TeamShapes'
    BY DEF TeamInv, TeamShapes
  <1>4. FirstIsFirst'
    BY DEF TeamInv, FirstIsFirst, Team!Runs
  <1> QED BY <1>2, <1>3, <1>4 DEF TeamInv

\* A run that is refused ends without a team.
LEMMA RefusedKeeps ==
    ASSUME TeamInv, NEW r \in Team!Runs, UNCHANGED <<setup, Team!historyVars, edits, losses>>,
           runs[r].at \in {"choosing", "planning"}, Team!Refused(r)
    PROVE  TeamInv'
  <1>1. CASE runs[r].tries = 2
    BY <1>1, EndsKeeps DEF Team!Refused, Team!Executing
  <1>2. CASE runs[r].tries # 2
    <2>1. /\ runs = [s \in Team!Runs |-> runs[s]] /\ IsRun(runs[r]) /\ live' = live
          /\ runs' = [runs EXCEPT ![r].tries = @ + 1]
      BY <1>2 DEF TeamInv, TeamShapes, Team!Refused
    <2>2. runs' = [s \in Team!Runs |-> runs'[s]] /\ \A s \in Team!Runs \ {r} : runs'[s] = runs[s]
      BY <2>1
    <2>3. runs'[r] = [runs[r] EXCEPT !.tries = @ + 1]
      BY <2>1
    <2>4. runs'[r] = [at |-> runs[r].at, kind |-> runs[r].kind, sel |-> runs[r].sel,
                      team |-> runs[r].team, rec |-> runs[r].rec, owners |-> runs[r].owners,
                      tries |-> runs[r].tries + 1]
      BY <2>1, <2>3 DEF IsRun
    <2>5. runs[r].tries + 1 \in 0..2
      BY <1>2, <2>1 DEF IsRun
    <2>6. IsRun(runs'[r])
      BY <2>1, <2>4, <2>5 DEF IsRun
    <2>7. TeamOK(r) /\ LiveOK(r) /\ OwnersOK(r) /\ chosen' = chosen /\ base' = base
          /\ setup' = setup /\ live = [s \in Team!Runs |-> live[s]]
          /\ chosen = [s \in Team!Runs |-> chosen[s]]
      BY DEF TeamInv, TeamShapes, Team!historyVars
    <2>8. TeamOK(r)'
      BY <2>4, <2>7 DEF TeamOK, FromBase
    <2>9. LiveOK(r)'
      BY <2>1, <2>4, <2>7 DEF LiveOK, FromBase, Team!Executing
    <2>10. OwnersOK(r)'
      BY <2>2, <2>4, <2>7 DEF OwnersOK, Team!Diverged, Team!Runs
    <2> QED BY <2>1, <2>2, <2>4, <2>6, <2>7, <2>8, <2>9, <2>10, OneMoves
  <1> QED BY <1>1, <1>2

\* A run that executes takes the team it was made with (runtime/orchestrator.py, _execute).
LEMMA ExecuteKeeps ==
    ASSUME TeamInv, NEW r \in Team!Runs, Team!Execute(r)
    PROVE  TeamInv'
  <1>1. /\ runs[r].at = "queued" /\ live' = [live EXCEPT ![r] = runs[r].team]
        /\ UNCHANGED <<setup, Team!historyVars, edits, losses>>
    BY DEF Team!Execute, Team!Loaded
  <1>2. PICK stage \in {"working", "choosing", "planning"} :
          /\ Team!Moved(r, stage)
          /\ stage = "working" <=> runs[r].owners # {}
          /\ stage = "choosing" => runs[r].kind = "adaptive" /\ ~runs[r].rec /\ ~setup.single
    BY DEF Team!Execute
  <1>3. /\ runs' = [s \in Team!Runs |-> runs'[s]] /\ \A s \in Team!Runs \ {r} : runs'[s] = runs[s]
        /\ IsRun(runs'[r]) /\ runs'[r].at = stage /\ runs'[r].kind = runs[r].kind
        /\ runs'[r].sel = runs[r].sel /\ runs'[r].team = runs[r].team
        /\ runs'[r].rec = runs[r].rec /\ runs'[r].owners = runs[r].owners
    <2>1. stage \in Stages
      BY DEF Stages
    <2> QED BY <1>2, <2>1, MovedIs
  <1>4. /\ live' = [s \in Team!Runs |-> live'[s]] /\ live'[r] = runs[r].team
        /\ \A s \in Team!Runs \ {r} : live'[s] = live[s]
    BY <1>1, LiveOf
  <1>5. TeamOK(r) /\ OwnersOK(r) /\ chosen' = chosen /\ base' = base
          /\ setup' = setup /\ chosen = [s \in Team!Runs |-> chosen[s]]
    BY <1>1 DEF TeamInv, TeamShapes, Team!historyVars
  <1>6. TeamOK(r)'
    BY <1>1, <1>3, <1>5 DEF TeamOK, FromBase
  <1>7. LiveOK(r)'
    BY <1>2, <1>3, <1>4, <1>5 DEF LiveOK, Team!Executing
  <1>8. runs[r].owners # {} /\ Team!Diverged(r) => Team!Diverged(r)'
    BY <1>3, <1>5 DEF Team!Diverged, Team!Runs, OwnersOK
  <1>9. OwnersOK(r)'
    BY <1>2, <1>3, <1>5, <1>8 DEF OwnersOK, Team!Runs
  <1> QED BY <1>1, <1>3, <1>4, <1>5, <1>6, <1>7, <1>9, OneMoves

\* The team a Master chose is stored (runtime/team_selection.py).
LEMMA SaveTeamKeeps ==
    ASSUME TeamInv, NEW r \in Team!Runs, Team!SaveTeam(r)
    PROVE  TeamInv'
  <1>1. /\ runs[r].at = "chosen" /\ UNCHANGED <<setup, live, Team!historyVars, edits, losses>>
        /\ runs' = [runs EXCEPT ![r].at = "planning", ![r].rec = TRUE, ![r].team = live[r]]
        /\ runs = [s \in Team!Runs |-> runs[s]] /\ IsRun(runs[r])
    BY DEF Team!SaveTeam, Team!SavedTeam, TeamInv, TeamShapes
  <1>2. runs' = [s \in Team!Runs |-> runs'[s]] /\ \A s \in Team!Runs \ {r} : runs'[s] = runs[s]
    BY <1>1
  <1>3. runs'[r] = [runs[r] EXCEPT !.at = "planning", !.rec = TRUE, !.team = live[r]]
    BY <1>1
  <1>4. runs'[r] = [at |-> "planning", kind |-> runs[r].kind, sel |-> runs[r].sel,
                    team |-> live[r], rec |-> TRUE, owners |-> runs[r].owners,
                    tries |-> runs[r].tries]
    BY <1>1, <1>3 DEF IsRun
  <1>5. TeamOK(r) /\ LiveOK(r) /\ OwnersOK(r) /\ chosen' = chosen /\ base' = base
          /\ setup' = setup /\ live' = live /\ live = [s \in Team!Runs |-> live[s]]
          /\ chosen = [s \in Team!Runs |-> chosen[s]]
    BY <1>1 DEF TeamInv, TeamShapes, Team!historyVars
  <1>6. /\ IsTeam(live[r]) /\ FromBase(r, live[r]) /\ Themselves(live[r])
        /\ Checked(live[r], setup.single) /\ Named(live[r]) /\ runs[r].kind = "adaptive"
        /\ runs[r].owners = {}
    BY <1>1, <1>5 DEF LiveOK, OwnersOK
  <1>7. IsRun(runs'[r])
    BY <1>1, <1>4, <1>6 DEF IsRun, Stages
  <1>8. TeamOK(r)'
    BY <1>4, <1>5, <1>6 DEF TeamOK, FromBase
  <1>9. LiveOK(r)'
    BY <1>4, <1>5 DEF LiveOK, Team!Executing
  <1>10. OwnersOK(r)'
    BY <1>4, <1>6 DEF OwnersOK
  <1>11. /\ UNCHANGED <<setup, base, edits, losses>> /\ runs[r].at # "none"
         /\ runs'[r].at # "none" /\ runs[r].owners = {}
         /\ live' = [s \in Team!Runs |-> live'[s]] /\ \A s \in Team!Runs \ {r} : live'[s]
                = live[s]
         /\ chosen' = [s \in Team!Runs |-> chosen'[s]] /\ \A s \in Team!Runs \ {r} : chosen'[s]
                = chosen[s]
    BY <1>1, <1>4, <1>5, <1>6
  <1> QED BY <1>2, <1>7, <1>8, <1>9, <1>10, <1>11, OneMoves

\* The owners of an acceptable plan are on the team, with a reviewer where one is needed.
LEMMA PlannableOwned ==
    ASSUME NEW r \in Team!Runs, NEW owners, Team!Plannable(r, owners), Checked(live[r],
           setup.single)
    PROVE  owners # {} /\ Owned(live[r], owners, setup.single)
  <1>1. CASE setup.single
    <2>1. Team!Of(live[r], {"builder"}) # {}
      BY <1>1, TeamCounts, FS_EmptySet DEF Checked
    <2> QED BY <1>1, <2>1 DEF Team!Plannable, Owned, Team!Ids, Team!Of
  <1>2. CASE ~setup.single
    BY <1>2 DEF Team!Plannable, Owned, Team!Ids, Team!Staffed
  <1> QED BY <1>1, <1>2

\* The plan is made for the team of the run.
LEMMA PlanTeamKeeps ==
    ASSUME TeamInv, NEW r \in Team!Runs, Team!PlanTeam(r)
    PROVE  TeamInv'
  <1>1. runs[r].at = "planning" /\ UNCHANGED <<setup, base, edits, losses>>
    BY DEF Team!PlanTeam
  <1>2. CASE chosen' = chosen /\ (Team!Ends(r, "failed") \/ Team!Refused(r))
    BY <1>1, <1>2, EndsKeeps, RefusedKeeps DEF Team!Executing, Team!historyVars
  <1>3. ASSUME NEW owners, Team!Plannable(r, owners), live' = live,
               runs' = [runs EXCEPT ![r].at = "working", ![r].owners = owners, ![r].tries = 0],
               chosen' = [chosen EXCEPT ![r] = [by |-> r, team |-> live[r]]]
        PROVE  TeamInv'
    <2>1. TeamOK(r) /\ LiveOK(r) /\ OwnersOK(r) /\ base' = base /\ setup' = setup
          /\ runs = [s \in Team!Runs |-> runs[s]] /\ live = [s \in Team!Runs |-> live[s]]
          /\ chosen = [s \in Team!Runs |-> chosen[s]] /\ IsRun(runs[r])
      BY <1>1 DEF TeamInv, TeamShapes
    <2>2. /\ live[r] = runs[r].team /\ Checked(live[r], setup.single) /\ runs[r].owners = {}
          /\ runs[r].at # "none"
      BY <1>1, <2>1 DEF LiveOK, TeamOK, OwnersOK
    <2>3. owners # {} /\ Owned(live[r], owners, setup.single)
      BY <1>3, <2>2, PlannableOwned
    <2>4. runs' = [s \in Team!Runs |-> runs'[s]] /\ \A s \in Team!Runs \ {r} : runs'[s] = runs[s]
      BY <1>3, <2>1
    <2>5. runs'[r] = [runs[r] EXCEPT !.at = "working", !.owners = owners, !.tries = 0]
      BY <1>3, <2>1
    <2>6. runs'[r] = [at |-> "working", kind |-> runs[r].kind, sel |-> runs[r].sel,
                      team |-> runs[r].team, rec |-> runs[r].rec, owners |-> owners,
                      tries |-> 0]
      BY <2>1, <2>5 DEF IsRun
    <2>7. IsRun(runs'[r])
      BY <2>1, <2>6 DEF IsRun, Stages
    <2>8. /\ chosen' = [s \in Team!Runs |-> chosen'[s]]
          /\ chosen'[r] = [by |-> r, team |-> live[r]]
          /\ \A s \in Team!Runs \ {r} : chosen'[s] = chosen[s]
      BY <1>3, <2>1
    <2>9. TeamOK(r)'
      BY <1>1, <2>1, <2>6 DEF TeamOK, FromBase
    <2>10. LiveOK(r)'
      BY <1>3, <2>2, <2>6 DEF LiveOK, Team!Executing
    <2>11. OwnersOK(r)'
      BY <2>1, <2>2, <2>3, <2>6, <2>8 DEF OwnersOK, Team!Diverged
    <2>12. /\ runs'[r].at # "none" /\ live' = [s \in Team!Runs |-> live'[s]]
           /\ \A s \in Team!Runs \ {r} : live'[s] = live[s]
      BY <1>3, <2>1, <2>6
    <2> QED BY <1>1, <2>2, <2>4, <2>7, <2>8, <2>9, <2>10, <2>11, <2>12, OneMoves
  <1> QED BY <1>2, <1>3 DEF Team!PlanTeam

\* The team that a recommendation makes of a team as configured.
LEMMA CompiledTeam ==
    ASSUME NEW r \in Team!Runs, NEW t, IsTeam(t), AsConfigured(t), FromBase(r, t), Checked(t,
           FALSE),
           NEW n, NEW ps \in [1..n -> [of : Agents, name : Given]], n \in Nat,
           Team!Recommendable(t, ps)
    PROVE  /\ IsTeam(Team!Compiled(t, ps)) /\ FromBase(r, Team!Compiled(t, ps))
           /\ Themselves(Team!Compiled(t, ps)) /\ Checked(Team!Compiled(t, ps), FALSE)
           /\ Named(Team!Compiled(t, ps))
  <1>1. PICK ids : ids = Team!IdsOf(ps)
    OBVIOUS
  <1>2. Len(ps) = n /\ DOMAIN ids = 1..n /\ \A i \in 1..n : Locked[ps[i].of] => ids[i] = ps[i].of
    BY <1>1 DEF Team!IdsOf
  <1> DEFINE template(a) == CHOOSE m \in t.members : m.of = a
             name(i) == IF Locked[ps[i].of] THEN template(ps[i].of).name ELSE ps[i].name
             member(i) == [template(ps[i].of) EXCEPT !.id = ids[i], !.name = name(i)]
             M == Team!TheMaster(t)
             new == Team!Compiled(t, ps)
  <1>3. M \in Team!On(t) /\ Role[M.of] = "master"
    BY DEF Team!Recommendable, Team!TheMaster, Team!Of
  <1>4. ASSUME NEW i \in 1..n
        PROVE  /\ template(ps[i].of) \in Team!On(t) /\ template(ps[i].of).of = ps[i].of
               /\ Role[ps[i].of] # "master"
    <2>1. PICK m \in Team!Specialists(t) : m.of = ps[i].of
      BY <1>2 DEF Team!Recommendable
    <2>2. m \in Team!On(t) /\ m \in t.members /\ Role[m.of] # "master"
      BY <2>1 DEF Team!Specialists, Team!Of, Team!On, Team!Coordinators
    <2>3. template(ps[i].of) = m
      BY <2>1, <2>2 DEF AsConfigured
    <2> QED BY <2>1, <2>2, <2>3
  <1>5. ASSUME NEW i \in 1..n
        PROVE  member(i) = [id |-> ids[i], of |-> ps[i].of, name |-> Team!NameOf(ps[i]),
              on |-> TRUE,
                            model |-> template(ps[i].of).model]
    <2>1. PICK m \in Team!On(t) : m = template(ps[i].of)
      BY <1>4
    <2>2. IsMember(m) /\ m.of = ps[i].of /\ m.name = Name[m.of] /\ m.on
      BY <1>4, <2>1 DEF Team!On, IsTeam, AsConfigured
    <2>3. name(i) = Team!NameOf(ps[i])
      BY <2>1, <2>2 DEF Team!NameOf
    <2>4. member(i) = [m EXCEPT !.id = ids[i], !.name = Team!NameOf(ps[i])]
      BY <2>1, <2>3
    <2>5. m.on = TRUE
      BY <2>2 DEF IsMember
    <2>6. PICK d, k, o : m = [id |-> d, of |-> ps[i].of, name |-> k, on |-> TRUE, model |-> o]
      BY <2>2, <2>5 DEF IsMember
    <2>7. PICK x, y, z : x = ids[i] /\ y = Team!NameOf(ps[i]) /\ z = ps[i].of
      OBVIOUS
    <2> HIDE DEF template, member, name
    <2>8. member(i) = [m EXCEPT !.id = x, !.name = y]
      BY <2>4, <2>7
    <2>9. m = [id |-> d, of |-> z, name |-> k, on |-> TRUE, model |-> o]
      BY <2>6, <2>7
    <2>10. member(i) = [id |-> x, of |-> z, name |-> y, on |-> TRUE, model |-> o]
      BY ONLY <2>8, <2>9
    <2> QED BY <2>1, <2>6, <2>7, <2>10
  <1>6. new = [members |-> {M} \cup {member(i) : i \in 1..n}, probed |-> t.probed]
    <2>1. new = [t EXCEPT !.members = {M} \cup {member(i) : i \in 1..n}]
      BY <1>1, <1>2 DEF Team!Compiled
    <2> QED BY <2>1 DEF IsTeam
  <1> DEFINE built == {member(i) : i \in 1..n}
  <1>7. \A m \in built : \E i \in 1..n : m = member(i)
    OBVIOUS
  <1>8. \A i \in 1..n : member(i) \in built
    OBVIOUS
  <1>9. new.members = {M} \cup built /\ new.probed = t.probed
    <2>1. new = [members |-> {M} \cup built, probed |-> t.probed]
      BY <1>6
    <2> HIDE DEF M, built, new
    <2> QED BY <2>1
  <1>10. ASSUME NEW i \in 1..n
         PROVE  /\ member(i).id = ids[i] /\ member(i).of = ps[i].of
                /\ member(i).name = Team!NameOf(ps[i]) /\ member(i).on
                /\ member(i).model = template(ps[i].of).model /\ IsMember(member(i))
    <2>1. ps[i].of \in Agents
      OBVIOUS
    <2> HIDE DEF template, member
    <2>2. PICK m, k : m = member(i) /\ k = template(ps[i].of).model
      OBVIOUS
    <2>3. m = [id |-> ids[i], of |-> ps[i].of, name |-> Team!NameOf(ps[i]), on |-> TRUE,
          model |-> k]
      BY <1>5, <2>2
    <2>4. /\ m.id = ids[i] /\ m.of = ps[i].of /\ m.name = Team!NameOf(ps[i]) /\ m.on = TRUE
          /\ m.model = k
      BY <2>3
    <2>5. IsMember(m)
      BY <2>1, <2>3, <2>4 DEF IsMember
    <2> QED BY <2>2, <2>4, <2>5
  <1>11. new = [members |-> new.members, probed |-> new.probed]
    BY <1>6
  <1>12. M.on /\ IsMember(M)
    BY <1>3 DEF Team!On, IsTeam
  <1> HIDE DEF template, member, built, M, new
  <1>13. Team!On(new) = {M} \cup built
    BY <1>7, <1>9, <1>10, <1>12 DEF Team!On
  <1>14. IsTeam(new)
    BY <1>7, <1>9, <1>10, <1>11, <1>12 DEF IsTeam
  <1>15. FromBase(r, new)
    BY <1>3, <1>4, <1>7, <1>10, <1>13 DEF FromBase
  <1>16. \A i, j \in 1..n : /\ ids[i] = ids[j] => i = j
                            /\ Team!NameOf(ps[i]) = Team!NameOf(ps[j]) => i = j
                            /\ ids[i] # M.id /\ Team!NameOf(ps[i]) # M.name
    BY <1>1, <1>2 DEF Team!Recommendable, Team!Distinct, M
  <1>17. Named(new)
    BY <1>7, <1>10, <1>13, <1>16 DEF Named
  <1>18. Themselves(new)
    <2>1. \A m \in Team!On(new) : Locked[m.of] => m.id = m.of /\ m.name = Name[m.of]
      BY <1>2, <1>3, <1>7, <1>10, <1>13 DEF Team!NameOf, AsConfigured, Team!On
    <2>2. \A m, k \in Team!On(new) : m.id = k.id => m = k
      BY <1>7, <1>10, <1>13, <1>16
    <2> QED BY <2>1, <2>2 DEF Themselves
  <1>19. Checked(new, FALSE)
    <2>1. \A m \in Team!On(new) : new.probed[Conn[m.of]] = m.model
      BY <1>3, <1>4, <1>7, <1>9, <1>10, <1>13 DEF Checked
    <2>2. M \in Team!Of(new, {"master"})
      BY <1>3, <1>13 DEF Team!Of
    <2> QED BY <2>1, <2>2 DEF Checked
  <1> QED BY <1>14, <1>15, <1>17, <1>18, <1>19 DEF new

\* The Master recommends a team, which is compiled or refused.
LEMMA RecommendKeeps ==
    ASSUME TeamInv, NEW r \in Team!Runs, Team!Recommend(r)
    PROVE  TeamInv'
  <1>1. runs[r].at = "choosing" /\ UNCHANGED <<setup, Team!historyVars, edits, losses>>
    BY DEF Team!Recommend
  <1>2. CASE Team!Refused(r)
    BY <1>1, <1>2, RefusedKeeps
  <1>3. ASSUME NEW ps \in Team!Proposals, Team!Recommendable(live[r], ps),
               live' = [live EXCEPT ![r] = Team!Compiled(live[r], ps)], Team!Moved(r, "chosen")
        PROVE  TeamInv'
    <2>1. /\ TeamOK(r) /\ LiveOK(r) /\ OwnersOK(r) /\ base' = base /\ setup' = setup
          /\ chosen' = chosen /\ chosen = [s \in Team!Runs |-> chosen[s]] /\ IsRun(runs[r])
      BY <1>1 DEF TeamInv, TeamShapes, Team!historyVars
    <2>2. /\ live[r] = runs[r].team /\ runs[r].kind = "adaptive" /\ ~runs[r].rec
          /\ ~setup.single /\ runs[r].owners = {}
      BY <1>1, <2>1 DEF LiveOK, OwnersOK
    <2>3. /\ IsTeam(live[r]) /\ AsConfigured(live[r]) /\ FromBase(r, live[r])
          /\ Checked(live[r], FALSE)
      BY <1>1, <2>1, <2>2 DEF TeamOK, IsRun, Checked
    <2>4. PICK n \in 1..MaxMembers : ps \in [1..n -> [of : Agents, name : Given]]
      BY <1>3 DEF Team!Proposals
    <2>5. PICK new : new = Team!Compiled(live[r], ps)
      OBVIOUS
    <2>6. IsTeam(new) /\ FromBase(r, new) /\ Themselves(new) /\ Checked(new, FALSE) /\ Named(new)
      <3>1. n \in Nat
        OBVIOUS
      <3> QED BY <1>3, <2>3, <2>4, <2>5, <3>1, CompiledTeam
    <2>7. /\ live' = [s \in Team!Runs |-> live'[s]] /\ live'[r] = new
          /\ \A s \in Team!Runs \ {r} : live'[s] = live[s]
      BY <1>3, <2>5, LiveOf
    <2>8. /\ runs' = [s \in Team!Runs |-> runs'[s]] /\ \A s \in Team!Runs \ {r} : runs'[s]
                 = runs[s]
          /\ IsRun(runs'[r]) /\ runs'[r].at = "chosen" /\ runs'[r].kind = runs[r].kind
          /\ runs'[r].sel = runs[r].sel /\ runs'[r].team = runs[r].team
          /\ runs'[r].rec = runs[r].rec /\ runs'[r].owners = runs[r].owners
      <3>1. "chosen" \in Stages
        BY DEF Stages
      <3> QED BY <1>3, <3>1, MovedIs
    <2>9. TeamOK(r)'
      BY <1>1, <2>1, <2>8 DEF TeamOK, FromBase
    <2>10. LiveOK(r)'
      BY <2>1, <2>2, <2>6, <2>7, <2>8 DEF LiveOK, FromBase, Team!Executing, Checked
    <2>11. OwnersOK(r)'
      BY <2>2, <2>8 DEF OwnersOK
    <2>12. UNCHANGED <<setup, base, edits, losses>>
      BY <1>1, <2>1
    <2> QED BY <1>1, <2>1, <2>2, <2>7, <2>8, <2>9, <2>10, <2>11, <2>12, OneMoves
  <1> QED BY <1>2, <1>3 DEF Team!Recommend

\* A record with these fields is a member.
LEMMA MemberIs ==
    ASSUME NEW i, NEW a \in Agents, NEW n, NEW b \in BOOLEAN, NEW o,
           NEW m, m = [id |-> i, of |-> a, name |-> n, on |-> b, model |-> o]
    PROVE  /\ IsMember(m) /\ m.id = i /\ m.of = a /\ m.name = n /\ m.on = b /\ m.model = o
  <1>1. m.id = i /\ m.of = a /\ m.name = n /\ m.on = b /\ m.model = o
    OBVIOUS
  <1> QED BY <1>1 DEF IsMember

\* A team with other members.
LEMMA TeamWith ==
    ASSUME NEW t, IsTeam(t), NEW X
    PROVE  [t EXCEPT !.members = X] = [members |-> X, probed |-> t.probed]
  <1>1. PICK P, Q : t = [members |-> P, probed |-> Q]
    BY DEF IsTeam
  <1> QED BY ONLY <1>1

\* Who is on two teams.
LEMMA SameWho ==
    ASSUME NEW t, NEW u,
           \A m \in Team!On(t) : \E n \in Team!On(u) : n.id = m.id /\ n.of = m.of /\ n.name = m.name,
           \A m \in Team!On(u) : \E n \in Team!On(t) : n.id = m.id /\ n.of = m.of /\ n.name = m.name
    PROVE  Team!Who(t) = Team!Who(u)
  BY DEF Team!Who

\* Owners that are on a team are on one of the same agents.
LEMMA WhoOwns ==
    ASSUME NEW t, NEW u, Team!Who(t) = Team!Who(u), NEW owners, NEW single, Owned(t, owners, single)
    PROVE  Owned(u, owners, single)
  <1>1. ASSUME NEW m \in Team!On(t) PROVE \E n \in Team!On(u) : n.id = m.id /\ n.of = m.of
    <2>1. [id |-> m.id, of |-> m.of, name |-> m.name] \in Team!Who(u)
      BY DEF Team!Who
    <2>2. PICK n \in Team!On(u) : [id |-> n.id, of |-> n.of, name |-> n.name] =
                                  [id |-> m.id, of |-> m.of, name |-> m.name]
      BY <2>1 DEF Team!Who
    <2> QED BY <2>2
  <1> QED BY <1>1 DEF Owned, Team!Ids

\* The team as it is configured.
LEMMA ConfiguredTeam ==
    ASSUME setup \in Settings
    PROVE  /\ IsTeam(Team!Configured) /\ AsConfigured(Team!Configured)
           /\ \A m \in Team!On(Team!Configured) : m.of \in setup.on /\ m.model = setup.model[m.of]
           /\ Team!Who(Team!Configured) = Plain(setup.on)
  <1> DEFINE member(a) == Team!Member(a, a, Name[a], a \in setup.on)
  <1>1. Team!Configured = [members |-> {member(a) : a \in Agents}, probed |-> setup.probed]
    BY DEF Team!Configured
  <1>2. ASSUME NEW a \in Agents
        PROVE  /\ IsMember(member(a)) /\ member(a).id = a /\ member(a).of = a
               /\ member(a).name = Name[a] /\ member(a).model = setup.model[a]
               /\ member(a).on <=> a \in setup.on
    <2>1. PICK b \in BOOLEAN : b = (a \in setup.on)
      <3>1. \E b \in BOOLEAN : b <=> a \in setup.on
        OBVIOUS
      <3> QED BY <3>1
    <2>2. PICK m : m = member(a)
      OBVIOUS
    <2>3. m = [id |-> a, of |-> a, name |-> Name[a], on |-> b, model |-> setup.model[a]]
      BY <2>1, <2>2 DEF Team!Member
    <2>4. IsMember(m) /\ m.id = a /\ m.of = a /\ m.name = Name[a] /\ m.on = b
          /\ m.model = setup.model[a]
      BY <2>3, MemberIs
    <2> HIDE DEF member
    <2> QED BY <2>1, <2>2, <2>4
  <1> HIDE DEF member
  <1>3. PICK all : all = {member(a) : a \in Agents}
    OBVIOUS
  <1>4. \A m \in all : \E a \in Agents : m = member(a)
    BY <1>3
  <1>5. Team!Configured.members = all /\ Team!Configured = [members |-> all,
        probed |-> setup.probed]
    BY <1>1, <1>3
  <1>6. IsTeam(Team!Configured)
    BY <1>2, <1>4, <1>5 DEF IsTeam
  <1>7. AsConfigured(Team!Configured)
    BY <1>2, <1>4, <1>5 DEF AsConfigured
  <1>8. \A m \in Team!On(Team!Configured) :
          m.of \in setup.on /\ m.id = m.of /\ m.name = Name[m.of]
    BY <1>2, <1>4, <1>5 DEF Team!On
  <1>9. \A a \in setup.on : \E m \in Team!On(Team!Configured) :
          m.id = a /\ m.of = a /\ m.name = Name[a]
    <2>1. setup.on \subseteq Agents
      BY DEF Settings
    <2>2. \A a \in Agents : member(a) \in all
      BY <1>3
    <2> QED BY <1>2, <1>5, <2>1, <2>2 DEF Team!On
  <1>10. Team!Who(Team!Configured) = Plain(setup.on)
    BY <1>8, <1>9 DEF Team!Who, Plain
  <1> QED BY <1>2, <1>4, <1>5, <1>6, <1>7, <1>10 DEF Team!On

\* The team that a selection makes of a team: who is on it was on it.
LEMMA SelectedTeam ==
    ASSUME NEW t, IsTeam(t), AsConfigured(t), NEW sel, Team!Selectable(t, sel)
    PROVE  /\ IsTeam(Team!Selected(t, sel)) /\ AsConfigured(Team!Selected(t, sel))
           /\ Team!On(Team!Selected(t, sel)) =
                {m \in Team!On(t) : Role[m.of] \in Team!Coordinators \/ m.id \in sel}
           /\ Team!Selected(t, sel).probed = t.probed
  <1> DEFINE is(m) == IF Role[m.of] \in Team!Coordinators THEN m ELSE [m EXCEPT !.on = m.id
          \in sel]
  <1>1. ASSUME NEW m \in t.members
        PROVE  /\ is(m).id = m.id /\ is(m).of = m.of /\ is(m).name = m.name
               /\ is(m).model = m.model /\ IsMember(is(m))
               /\ is(m).on <=> IF Role[m.of] \in Team!Coordinators THEN m.on ELSE m.id \in sel
    <2>1. IsMember(m)
      BY DEF IsTeam
    <2>2. PICK a, b, c, d, e : m = [id |-> a, of |-> b, name |-> c, on |-> d, model |-> e]
      BY <2>1 DEF IsMember
    <2>3. m.id = a /\ m.of = b /\ m.name = c /\ m.on = d /\ m.model = e
      BY <2>2
    <2>4. CASE Role[m.of] \in Team!Coordinators
      BY <2>1, <2>4
    <2>5. CASE Role[m.of] \notin Team!Coordinators
      <3>1. PICK o \in BOOLEAN : o = (m.id \in sel)
        <4>1. \E o \in BOOLEAN : o <=> m.id \in sel
          OBVIOUS
        <4> QED BY <4>1
      <3>2. PICK n : n = [m EXCEPT !.on = o]
        OBVIOUS
      <3>3. n = [id |-> a, of |-> b, name |-> c, on |-> o, model |-> e]
        BY ONLY <2>2, <3>2
      <3>4. b \in Agents
        BY <2>1, <2>3 DEF IsMember
      <3>5. IsMember(n) /\ n.id = a /\ n.of = b /\ n.name = c /\ n.on = o /\ n.model = e
        BY <3>3, <3>4, MemberIs
      <3>6. is(m) = n
        BY <2>5, <3>1, <3>2
      <3> HIDE DEF is
      <3> QED BY <2>3, <2>5, <3>1, <3>5, <3>6
    <2> QED BY <2>4, <2>5
  <1>2. Team!Selected(t, sel) = [members |-> {is(m) : m \in t.members}, probed |-> t.probed]
    BY TeamWith DEF Team!Selected
  <1> HIDE DEF is
  <1>3. PICK all : all = {is(m) : m \in t.members}
    OBVIOUS
  <1>4. (\A n \in all : \E m \in t.members : n = is(m)) /\ \A m \in t.members : is(m) \in all
    BY <1>3
  <1>5. PICK new : new = Team!Selected(t, sel)
    OBVIOUS
  <1>6. new = [members |-> all, probed |-> t.probed] /\ new.members = all
        /\ new.probed = t.probed
    BY <1>2, <1>3, <1>5
  <1>7. IsTeam(new)
    BY <1>1, <1>4, <1>6 DEF IsTeam
  <1>8. AsConfigured(new)
    BY <1>1, <1>4, <1>6 DEF AsConfigured
  <1>9. ASSUME NEW m \in t.members, is(m).on
        PROVE  m.on /\ m = is(m) /\ (Role[m.of] \in Team!Coordinators \/ m.id \in sel)
    <2>1. CASE Role[m.of] \in Team!Coordinators
      BY <1>1, <1>9, <2>1 DEF is
    <2>2. CASE Role[m.of] \notin Team!Coordinators
      <3>1. m.id \in sel /\ m.id \in Team!Ids(Team!Specialists(t))
        BY <1>1, <1>9, <2>2 DEF Team!Selectable
      <3>2. PICK k \in Team!Specialists(t) : k.id = m.id
        BY <3>1 DEF Team!Ids
      <3>3. k \in t.members /\ k.on
        BY <3>2 DEF Team!Specialists, Team!On
      <3>4. m = k
        BY <3>2, <3>3 DEF AsConfigured
      <3>5. m.on = TRUE /\ is(m).on = TRUE
        BY <1>1, <1>9, <3>3, <3>4 DEF IsMember, IsTeam
      <3>6. IsMember(m) /\ IsMember(is(m))
        BY <1>1 DEF IsTeam
      <3> QED BY <1>1, <3>1, <3>5, <3>6 DEF IsMember
    <2> QED BY <2>1, <2>2
  <1>10. ASSUME NEW m \in t.members, m.on, Role[m.of] \in Team!Coordinators \/ m.id \in sel
         PROVE  is(m).on /\ is(m) = m
    <2>1. is(m).on
      BY <1>1, <1>10
    <2> QED BY <1>9, <2>1
  <1>11. Team!On(new) = {m \in Team!On(t) : Role[m.of] \in Team!Coordinators \/ m.id \in sel}
    BY <1>4, <1>6, <1>9, <1>10 DEF Team!On
  <1> QED BY <1>5, <1>6, <1>7, <1>8, <1>11

\* The team with the model of one of its members replaced.
LEMMA OverriddenTeam ==
    ASSUME NEW t, IsTeam(t), AsConfigured(t), NEW a, NEW o
    PROVE  /\ IsTeam(Team!Overridden(t, a, o)) /\ AsConfigured(Team!Overridden(t, a, o))
           /\ \A n \in Team!On(Team!Overridden(t, a, o)) : \E m \in Team!On(t) :
                 n.id = m.id /\ n.of = m.of /\ n.name = m.name
           /\ \A m \in Team!On(t) : \E n \in Team!On(Team!Overridden(t, a, o)) : n.id = m.id
                  /\ n.of = m.of
           /\ Team!Who(Team!Overridden(t, a, o)) = Team!Who(t)
  <1> DEFINE is(m) == IF m.id = a THEN [m EXCEPT !.model = o] ELSE m
  <1>1. ASSUME NEW m \in t.members
        PROVE  /\ is(m).id = m.id /\ is(m).of = m.of /\ is(m).name = m.name
               /\ (is(m).on <=> m.on) /\ IsMember(is(m))
    <2>1. IsMember(m)
      BY DEF IsTeam
    <2>2. PICK u, b, c, d, e : m = [id |-> u, of |-> b, name |-> c, on |-> d, model |-> e]
      BY <2>1 DEF IsMember
    <2>3. [m EXCEPT !.model = o] = [id |-> u, of |-> b, name |-> c, on |-> d, model |-> o]
      BY ONLY <2>2
    <2> QED BY <2>1, <2>2, <2>3 DEF IsMember
  <1>2. Team!Overridden(t, a, o) = [members |-> {is(m) : m \in t.members}, probed |-> t.probed]
    BY TeamWith DEF Team!Overridden
  <1> HIDE DEF is
  <1>3. PICK all : all = {is(m) : m \in t.members}
    OBVIOUS
  <1>4. (\A n \in all : \E m \in t.members : n = is(m)) /\ \A m \in t.members : is(m) \in all
    BY <1>3
  <1>5. PICK new : new = Team!Overridden(t, a, o)
    OBVIOUS
  <1>6. new = [members |-> all, probed |-> t.probed] /\ new.members = all
    BY <1>2, <1>3, <1>5
  <1>7. IsTeam(new)
    BY <1>1, <1>4, <1>6 DEF IsTeam
  <1>8. AsConfigured(new)
    BY <1>1, <1>4, <1>6 DEF AsConfigured
  <1>9. \A n \in Team!On(new) : \E m \in Team!On(t) : n.id = m.id /\ n.of = m.of /\ n.name
            = m.name
    BY <1>1, <1>4, <1>6 DEF Team!On
  <1>10. \A m \in Team!On(t) : \E n \in Team!On(new) : n.id = m.id /\ n.of = m.of /\ n.name
            = m.name
    BY <1>1, <1>4, <1>6 DEF Team!On
  <1>11. Team!Who(new) = Team!Who(t)
    BY <1>9, <1>10, SameWho
  <1> QED BY <1>5, <1>7, <1>8, <1>9, <1>10, <1>11

\* The members of a configuration are themselves.
LEMMA PlainAreThemselves == ASSUME NEW t, AsConfigured(t) PROVE Themselves(t)
  BY DEF AsConfigured, Themselves, Team!On

\* A run that is made.
LEMMA NewRunIs ==
    ASSUME NEW kind, NEW sel, NEW t, IsTeam(t), NEW owners, NEW stage \in Stages
    PROVE  /\ IsRun(Team!NewRun(kind, sel, t, owners, stage))
           /\ Team!NewRun(kind, sel, t, owners, stage) =
                [at |-> stage, kind |-> kind, sel |-> sel, team |-> t, rec |-> FALSE,
                 owners |-> owners, tries |-> 0]
  <1>1. PICK x : x = Team!NewRun(kind, sel, t, owners, stage)
    OBVIOUS
  <1>2. x = [at |-> stage, kind |-> kind, sel |-> sel, team |-> t, rec |-> FALSE,
             owners |-> owners, tries |-> 0]
    BY <1>1 DEF Team!NewRun, Team!NoRun
  <1>3. /\ x.at = stage /\ x.kind = kind /\ x.sel = sel /\ x.team = t /\ x.rec = FALSE
        /\ x.owners = owners /\ x.tries = 0
    BY <1>2
  <1>4. IsRun(x)
    BY <1>2, <1>3 DEF IsRun
  <1> QED BY <1>1, <1>2, <1>4

\* An edit of the configuration leaves the runs their teams.
LEMMA TeamEditKeeps == ASSUME TeamGiven, TeamInv, Team!Edit PROVE TeamInv'
  <1>1. /\ runs' = runs /\ live' = live /\ chosen' = chosen /\ base' = base
        /\ losses' = losses /\ edits' = edits + 1 /\ edits < MaxEdits /\ setup \in Settings
    BY DEF Team!Edit, Team!historyVars, TeamInv, TeamShapes
  <1>2. setup' \in Settings /\ setup'.single = setup.single
    BY <1>1 DEF Team!Edit, Settings
  <1>3. ASSUME NEW r \in Team!Runs PROVE TeamOK(r)' /\ LiveOK(r)' /\ OwnersOK(r)'
    BY <1>1, <1>2, RunStands
  <1>4. TeamShapes'
    BY <1>1, <1>2 DEF TeamInv, TeamShapes, TeamGiven
  <1>5. FirstIsFirst'
    BY <1>1 DEF TeamInv, FirstIsFirst
  <1> QED BY <1>3, <1>4, <1>5 DEF TeamInv

\* The process ends: whatever executed is interrupted, with its team and its owners.
LEMMA TeamCrashKeeps == ASSUME TeamGiven, TeamInv, Team!Crash PROVE TeamInv'
  <1>1. /\ setup' = setup /\ chosen' = chosen /\ base' = base /\ edits' = edits
        /\ losses' = losses + 1 /\ losses < MaxCrashes
        /\ live' = [r \in Team!Runs |-> Team!NoTeam] /\ runs' = [r \in Team!Runs |-> runs'[r]]
        /\ \A r \in Team!Runs : IsRun(runs[r])
    BY DEF Team!Crash, Team!historyVars, TeamInv, TeamShapes
  <1>2. ASSUME NEW r \in Team!Runs
        PROVE  /\ IsRun(runs'[r]) /\ runs'[r].kind = runs[r].kind /\ runs'[r].sel = runs[r].sel
               /\ runs'[r].team = runs[r].team /\ runs'[r].rec = runs[r].rec
               /\ runs'[r].owners = runs[r].owners
               /\ runs'[r].at = IF Team!Executing(r) THEN "interrupted" ELSE runs[r].at
    <2>1. PICK x : x = runs[r]
      OBVIOUS
    <2>2. CASE Team!Executing(r)
      <3>1. runs'[r] = [x EXCEPT !.at = "interrupted", !.tries = 0]
        BY <2>1, <2>2 DEF Team!Crash
      <3>2. runs'[r] = [at |-> "interrupted", kind |-> x.kind, sel |-> x.sel, team |-> x.team,
                        rec |-> x.rec, owners |-> x.owners, tries |-> 0]
        BY <1>1, <2>1, <3>1 DEF IsRun
      <3>3. PICK y : y = runs'[r]
        OBVIOUS
      <3>4. /\ y.at = "interrupted" /\ y.kind = x.kind /\ y.sel = x.sel /\ y.team = x.team
            /\ y.rec = x.rec /\ y.owners = x.owners /\ y.tries = 0
        BY <3>2, <3>3
      <3>5. IsRun(x)
        BY <1>1, <2>1
      <3>6. IsRun(y)
        BY <3>2, <3>3, <3>4, <3>5 DEF IsRun, Stages
      <3> QED BY <2>1, <2>2, <3>3, <3>4, <3>6
    <2>3. CASE ~Team!Executing(r)
      BY <1>1, <2>3 DEF Team!Crash
    <2> QED BY <2>2, <2>3
  <1>3. ASSUME NEW r \in Team!Runs PROVE TeamOK(r)' /\ LiveOK(r)' /\ OwnersOK(r)'
    <2>1. TeamOK(r) /\ LiveOK(r) /\ OwnersOK(r)
      BY DEF TeamInv
    <2>2. TeamOK(r)'
      BY <1>1, <1>2, <2>1 DEF TeamOK, FromBase, Team!Executing
    <2>3. LiveOK(r)'
      BY <1>1, <1>2 DEF LiveOK, Team!Executing
    <2>4. runs[r].owners # {} /\ Team!Diverged(r) => Team!Diverged(r)'
      BY <1>1, <1>2, <2>1 DEF Team!Diverged, Team!Runs, OwnersOK
    <2>5. OwnersOK(r)'
      BY <1>1, <1>2, <2>1, <2>4 DEF OwnersOK, Team!Executing, Team!Runs
    <2> QED BY <2>2, <2>3, <2>5
  <1>4. TeamShapes'
    BY <1>1, <1>2 DEF TeamInv, TeamShapes, TeamGiven
  <1>5. FirstIsFirst'
    BY <1>2 DEF TeamInv, FirstIsFirst, Team!Runs, Team!Executing
  <1> QED BY <1>3, <1>4, <1>5 DEF TeamInv

\* What Create makes of a request.
CreatedAs(kind, sel, team, stage) ==
    /\ runs' = [runs EXCEPT !["first"] = Team!NewRun(kind, sel, team, {}, stage)]
    /\ stage \in {"queued", "blocked"}
    /\ \/ team = Team!Configured /\ (stage = "queued" => kind # "selected")
       \/ /\ kind = "selected" /\ team = Team!Selected(Team!Configured, sel)
          /\ Team!Selectable(Team!Configured, sel)
    /\ stage = "queued" => Team!Precheck(team, setup.single)

\* A run is made with the team of its kind.
LEMMA TeamCreateKeeps == ASSUME TeamInv, Team!Create PROVE TeamInv'
  <1>1. /\ runs["first"].at = "none" /\ UNCHANGED <<setup, live, chosen, edits, losses>>
        /\ base' = [base EXCEPT !["first"] = setup] /\ setup \in Settings
        /\ {"first", "fork"} = Team!Runs
    BY DEF Team!Create, TeamInv, TeamShapes, Team!Runs
  <1>2. PICK kind, sel, team, stage : CreatedAs(kind, sel, team, stage)
    <2>1. PICK kind \in Kinds, sel \in SUBSET Agents :
            LET ok == kind # "selected" \/ (~setup.single
                  /\ Team!Selectable(Team!Configured, sel))
                team == IF kind = "selected"
                      /\ ok THEN Team!Selected(Team!Configured, sel) ELSE Team!Configured
                stage == IF ok /\ Team!Precheck(team, setup.single) THEN "queued" ELSE "blocked"
            IN  runs' = [runs EXCEPT !["first"] = Team!NewRun(kind, sel, team, {}, stage)]
      BY DEF Team!Create
    <2>2. PICK ok \in BOOLEAN :
            ok <=> kind # "selected" \/ (~setup.single /\ Team!Selectable(Team!Configured, sel))
      OBVIOUS
    <2>3. PICK team : team = IF kind = "selected" /\ ok THEN Team!Selected(Team!Configured, sel)
                             ELSE Team!Configured
      OBVIOUS
    <2>4. PICK stage : stage = IF ok
                   /\ Team!Precheck(team, setup.single) THEN "queued" ELSE "blocked"
      OBVIOUS
    <2>5. runs' = [runs EXCEPT !["first"] = Team!NewRun(kind, sel, team, {}, stage)]
      BY <2>1, <2>2, <2>3, <2>4
    <2>6. CreatedAs(kind, sel, team, stage)
      BY <2>2, <2>3, <2>4, <2>5 DEF CreatedAs
    <2> QED BY <2>6
  <1>13. /\ runs' = [runs EXCEPT !["first"] = Team!NewRun(kind, sel, team, {}, stage)]
         /\ stage \in {"queued", "blocked"}
         /\ \/ team = Team!Configured /\ (stage = "queued" => kind # "selected")
            \/ /\ kind = "selected" /\ team = Team!Selected(Team!Configured, sel)
               /\ Team!Selectable(Team!Configured, sel)
         /\ stage = "queued" => Team!Precheck(team, setup.single)
    BY <1>2 DEF CreatedAs
  <1>3. IsTeam(team) /\ AsConfigured(team)
        /\ \A m \in Team!On(team) : m.of \in setup.on /\ m.model = setup.model[m.of]
    BY <1>1, <1>13, ConfiguredTeam, SelectedTeam
  <1>14. kind # "selected" => Team!Who(team) = Plain(setup.on)
    BY <1>1, <1>13, ConfiguredTeam
  <1>4. PICK x : x = Team!NewRun(kind, sel, team, {}, stage)
    OBVIOUS
  <1>5. /\ IsRun(x) /\ x.at = stage /\ x.kind = kind /\ x.sel = sel /\ x.team = team
        /\ x.rec = FALSE /\ x.owners = {}
    <2>1. stage \in Stages
      BY <1>13 DEF Stages
    <2>2. IsRun(x) /\ x = [at |-> stage, kind |-> kind, sel |-> sel, team |-> team, rec |-> FALSE,
                           owners |-> {}, tries |-> 0]
      BY <1>3, <1>4, <2>1, NewRunIs
    <2> QED BY <2>2
  <1>6. /\ runs' = [r \in Team!Runs |-> runs'[r]] /\ runs'["first"] = x /\ runs'["fork"]
               = runs["fork"]
        /\ base' = [r \in Team!Runs |-> base'[r]] /\ base'["first"] = setup
        /\ base'["fork"] = base["fork"]
    BY <1>1, <1>13, <1>4 DEF TeamInv, TeamShapes
  <1>7. TeamOK("fork")' /\ LiveOK("fork")' /\ OwnersOK("fork")'
    <2>1. runs["first"].owners = {}
      BY <1>1 DEF TeamInv, OwnersOK
    <2> QED BY <1>1, <1>6, <2>1, RunStands
  <1>8. TeamOK("first")'
    <2>1. FromBase("first", team)' /\ Themselves(team)
      BY <1>3, <1>6, PlainAreThemselves DEF FromBase
    <2>2. stage = "queued" => Checked(team, setup.single)
      BY <1>13 DEF Team!Precheck, Checked
    <2>3. stage = "queued" /\ kind = "selected" => Team!Ids(Team!Specialists(team)) \subseteq sel
      BY <1>1, <1>13, ConfiguredTeam, SelectedTeam DEF Team!Specialists, Team!Ids, Team!Of
    <2> QED BY <1>1, <1>13, <1>14, <1>3, <1>5, <1>6, <2>1, <2>2, <2>3 DEF TeamOK
  <1>9. LiveOK("first")'
    <2>1. live["first"] = Team!NoTeam
      BY <1>1 DEF TeamInv, LiveOK, Team!Executing
    <2> QED BY <1>1, <1>13, <1>5, <1>6, <2>1 DEF LiveOK, Team!Executing
  <1>10. OwnersOK("first")'
    BY <1>13, <1>5, <1>6 DEF OwnersOK
  <1>11. TeamShapes'
    <2>1. \A r \in Team!Runs : IsRun(runs'[r])
      BY <1>1, <1>5, <1>6 DEF TeamInv, TeamShapes
    <2> QED BY <1>1, <1>6, <2>1 DEF TeamInv, TeamShapes
  <1>12. FirstIsFirst'
    BY <1>1, <1>6 DEF TeamInv, FirstIsFirst
  <1> QED BY <1>1, <1>7, <1>8, <1>9, <1>10, <1>11, <1>12 DEF TeamInv

\* A fork of a selection keeps the snapshot with its owners; any other takes the
\* configuration in force, with the plan of its source.
LEMMA TeamForkKeeps == ASSUME TeamInv, Team!Fork PROVE TeamInv'
  <1>1. /\ runs["first"].at # "none" /\ runs["fork"].at = "none"
        /\ UNCHANGED <<setup, live, edits, losses>> /\ setup \in Settings
        /\ {"first", "fork"} = Team!Runs
    BY DEF Team!Fork, TeamInv, TeamShapes, Team!Runs
  <1>2. PICK src : src = runs["first"]
    OBVIOUS
  <1>3. PICK b : b = IF src.kind = "selected" THEN base["first"] ELSE setup
    OBVIOUS
  <1>4. PICK built : built = Team!ForkTeam(src)
    OBVIOUS
  <1>5. PICK core : core = IF src.kind = "selected" THEN Team!Selected(built, src.sel) ELSE built
    OBVIOUS
  <1>6. PICK a \in Agents, o \in Models :
          LET team == Team!Overridden(core, a, o)
          IN /\ Team!Precheck(team, setup.single)
             /\ runs' = [runs EXCEPT !["fork"] =
                           Team!NewRun(src.kind, src.sel, team, src.owners, "queued")]
             /\ chosen' = [chosen EXCEPT !["fork"] =
                             IF src.owners # {} THEN chosen["first"] ELSE @]
    BY <1>2, <1>4, <1>5 DEF Team!Fork
  <1>7. PICK team : team = Team!Overridden(core, a, o)
    OBVIOUS
  <1>8. base' = [base EXCEPT !["fork"] = b]
    BY <1>2, <1>3 DEF Team!Fork
  <1>9. src.kind = "selected" => Team!Selectable(built, src.sel)
    BY <1>2, <1>4 DEF Team!Fork
  <1>10. /\ TeamOK("first") /\ OwnersOK("first") /\ IsRun(src)
    BY <1>1, <1>2 DEF TeamInv, TeamShapes
  <1>11. /\ IsTeam(built) /\ AsConfigured(built) /\ \A m \in Team!On(built) : m.of \in b.on
    <2>1. CASE src.kind = "selected"
      <3>1. built = src.team /\ b = base["first"]
        BY <1>3, <1>4, <2>1 DEF Team!ForkTeam
      <3> QED BY <1>1, <1>2, <1>10, <2>1, <3>1 DEF TeamOK, FromBase, IsRun
    <2>2. CASE src.kind # "selected"
      BY <1>1, <1>3, <1>4, <2>2, ConfiguredTeam DEF Team!ForkTeam
    <2> QED BY <2>1, <2>2
  <1>12. /\ IsTeam(core) /\ AsConfigured(core) /\ Team!On(core) \subseteq Team!On(built)
         /\ src.kind = "selected" =>
              Team!On(core) = {m \in Team!On(built) : Role[m.of] \in Team!Coordinators
                    \/ m.id \in src.sel}
    BY <1>5, <1>9, <1>11, SelectedTeam
  <1>13. /\ IsTeam(team) /\ AsConfigured(team)
         /\ \A n \in Team!On(team) : \E m \in Team!On(core) : n.id = m.id /\ n.of = m.of
                /\ n.name = m.name
         /\ \A m \in Team!On(core) : \E n \in Team!On(team) : n.id = m.id /\ n.of = m.of
         /\ Team!Who(team) = Team!Who(core)
    BY <1>7, <1>12, OverriddenTeam
  <1>14. PICK x : x = Team!NewRun(src.kind, src.sel, team, src.owners, "queued")
    OBVIOUS
  <1>15. /\ IsRun(x) /\ x.at = "queued" /\ x.kind = src.kind /\ x.sel = src.sel
         /\ x.team = team /\ x.rec = FALSE /\ x.owners = src.owners
    <2>1. IsRun(x) /\ x = [at |-> "queued", kind |-> src.kind, sel |-> src.sel, team |-> team,
                           rec |-> FALSE, owners |-> src.owners, tries |-> 0]
      <3>1. "queued" \in Stages
        BY DEF Stages
      <3>2. PICK k, e, w : k = src.kind /\ e = src.sel /\ w = src.owners
        OBVIOUS
      <3>3. IsTeam(team)
        BY <1>13
      <3>4. x = Team!NewRun(k, e, team, w, "queued")
        BY <1>14, <3>2
      <3>5. IsRun(x) /\ x = [at |-> "queued", kind |-> k, sel |-> e, team |-> team, rec |-> FALSE,
                             owners |-> w, tries |-> 0]
        BY <3>1, <3>3, <3>4, NewRunIs
      <3> QED BY <3>2, <3>5
    <2> QED BY <2>1
  <1>16. /\ runs' = [runs EXCEPT !["fork"] = x]
         /\ chosen' = [chosen EXCEPT !["fork"] = IF src.owners # {} THEN chosen["first"] ELSE @]
         /\ Team!Precheck(team, setup.single)
    BY <1>6, <1>7, <1>14
  <1>17. /\ runs' = [r \in Team!Runs |-> runs'[r]] /\ runs'["fork"] = x /\ runs'["first"] = src
         /\ base' = [r \in Team!Runs |-> base'[r]] /\ base'["fork"] = b
         /\ base'["first"] = base["first"]
         /\ chosen' = [r \in Team!Runs |-> chosen'[r]]
         /\ src.owners # {} => chosen'["fork"] = chosen["first"]
         /\ chosen'["first"] = chosen["first"]
    BY <1>1, <1>2, <1>8, <1>16 DEF TeamInv, TeamShapes
  <1>18. TeamOK("first")' /\ LiveOK("first")' /\ OwnersOK("first")'
    BY <1>1, <1>2, <1>17, RunStands
  <1>19. Checked(team, setup.single)
    BY <1>16 DEF Team!Precheck, Checked
  <1>20. TeamOK("fork")'
    <2>1. FromBase("fork", team)'
      <3>1. \A n \in Team!On(team) : n.of \in b.on
        BY <1>11, <1>12, <1>13
      <3> QED BY <1>17, <3>1 DEF FromBase
    <2>2. src.kind = "selected" => Team!Ids(Team!Specialists(team)) \subseteq src.sel
      BY <1>12, <1>13 DEF Team!Specialists, Team!Ids, Team!Of
    <2>3. src.kind # "selected" => Team!Who(team) = Plain(b.on)
      BY <1>1, <1>3, <1>4, <1>5, <1>13, ConfiguredTeam DEF Team!ForkTeam
    <2> QED BY <1>1, <1>13, <1>15, <1>17, <1>19, <2>1, <2>2, <2>3, PlainAreThemselves DEF TeamOK
  <1>21. LiveOK("fork")'
    <2>1. live["fork"] = Team!NoTeam
      BY <1>1 DEF TeamInv, LiveOK, Team!Executing
    <2> QED BY <1>1, <1>15, <1>17, <2>1 DEF LiveOK, Team!Executing
  <1>22. ASSUME src.owners # {}, ~Team!Diverged("fork")'
         PROVE  /\ Team!Who(team) = Team!Who(chosen["first"].team)
                /\ Owned(team, src.owners, setup.single)
    <2>1. /\ chosen["first"].by = "first" /\ chosen["first"].team = src.team
          /\ src.at \notin {"none", "blocked"} /\ Owned(src.team, src.owners, setup.single)
      <3>1. chosen["first"].by = "first"
        BY <1>2, <1>10, <1>22 DEF OwnersOK
      <3>2. ~Team!Diverged("first")
        BY <3>1 DEF Team!Diverged
      <3> QED BY <1>2, <1>10, <1>22, <3>1, <3>2 DEF OwnersOK
    <2>2. CASE src.kind = "selected"
      <3>1. built = src.team
        BY <1>4, <2>2 DEF Team!ForkTeam
      <3>2. Team!Ids(Team!Specialists(built)) \subseteq src.sel
        BY <1>2, <1>10, <2>1, <2>2, <3>1 DEF TeamOK
      <3>3. Team!On(core) = Team!On(built)
        BY <1>12, <2>2, <3>2 DEF Team!Specialists, Team!Ids, Team!Of
      <3>4. Team!Who(team) = Team!Who(src.team)
        BY <1>13, <3>1, <3>3 DEF Team!Who
      <3> QED BY <2>1, <3>4, WhoOwns
    <2>3. CASE src.kind # "selected"
      <3>1. b.on = base["first"].on /\ ~src.rec
        BY <1>15, <1>17, <1>22, <2>1, <2>3 DEF Team!Diverged
      <3>2. Team!Who(src.team) = Plain(base["first"].on)
        BY <1>2, <1>10, <2>1, <2>3, <3>1 DEF TeamOK
      <3>3. Team!Who(team) = Plain(b.on)
        BY <1>1, <1>3, <1>4, <1>5, <1>13, <2>3, ConfiguredTeam DEF Team!ForkTeam
      <3> QED BY <2>1, <3>1, <3>2, <3>3, WhoOwns
    <2> QED BY <2>2, <2>3
  <1>23. OwnersOK("fork")'
    <2>1. src.owners # {} => chosen["first"].by = "first"
      BY <1>2, <1>10 DEF OwnersOK
    <2>2. src.owners # {} =>
            chosen'["fork"].by = "first" /\ chosen'["fork"].team = chosen["first"].team
      BY <1>17, <2>1
    <2>3. runs'["first"].owners = src.owners /\ runs'["fork"].owners = src.owners
          /\ runs'["fork"].team = team /\ runs'["fork"].at = "queued" /\ setup' = setup
      BY <1>1, <1>15, <1>17
    <2> QED BY <1>22, <2>2, <2>3 DEF OwnersOK
  <1>24. TeamShapes'
    <2>1. \A r \in Team!Runs : IsRun(runs'[r])
      BY <1>1, <1>10, <1>15, <1>17
    <2> QED BY <1>1, <1>17, <2>1 DEF TeamInv, TeamShapes
  <1>25. FirstIsFirst'
    BY <1>1, <1>2, <1>17 DEF FirstIsFirst
  <1> QED BY <1>1, <1>18, <1>20, <1>21, <1>23, <1>24, <1>25 DEF TeamInv

\* The invariant of the teams is inductive.
LEMMA TeamStep == TeamGiven /\ TeamInv /\ [Team!Next]_(Team!vars) => TeamInv'
  <1> SUFFICES ASSUME TeamGiven, TeamInv, [Team!Next]_(Team!vars) PROVE TeamInv'
    OBVIOUS
  <1>1. CASE UNCHANGED Team!vars
    <2>1. ASSUME NEW r \in Team!Runs PROVE TeamOK(r)' /\ LiveOK(r)' /\ OwnersOK(r)'
      BY <1>1, RunStands DEF Team!vars
    <2> QED BY <1>1, <2>1 DEF TeamInv, TeamShapes, FirstIsFirst, Team!vars
  <1>2. ASSUME NEW r \in Team!Runs, Team!Step(r) PROVE TeamInv'
    <2>1. CASE Team!Execute(r)
      BY <2>1, ExecuteKeeps
    <2>2. CASE Team!Recommend(r)
      BY <2>2, RecommendKeeps
    <2>3. CASE Team!SaveTeam(r)
      BY <2>3, SaveTeamKeeps
    <2>4. CASE Team!PlanTeam(r)
      BY <2>4, PlanTeamKeeps
    <2>5. CASE Team!Fail(r) \/ Team!End(r) \/ Team!Resume(r)
      BY <2>5, EndsKeeps DEF Team!Fail, Team!End, Team!Resume, Team!Executing
    <2> QED BY <1>2, <2>1, <2>2, <2>3, <2>4, <2>5 DEF Team!Step
  <1> QED BY <1>1, <1>2, TeamEditKeeps, TeamCreateKeeps, TeamForkKeeps, TeamCrashKeeps
             DEF Team!Next

\* It gives what the run checks, and the types.
LEMMA TeamHolds == TeamInv => Team!TeamsHold /\ Team!TypeOK
  <1> SUFFICES ASSUME TeamInv PROVE Team!TeamsHold /\ Team!TypeOK
    OBVIOUS
  <1>1. ASSUME NEW r \in Team!Runs, runs[r].at = "working"
        PROVE  /\ Team!TeamIsProper(r)
               /\ chosen[r].by = r => live[r] = chosen[r].team
               /\ ~Team!Diverged(r) =>
                    Team!Who(live[r]) = Team!Who(chosen[r].team) /\ Team!PlanFits(r)
    <2>1. TeamOK(r) /\ LiveOK(r) /\ OwnersOK(r)
      BY DEF TeamInv
    <2>2. /\ live[r] = runs[r].team /\ FromBase(r, live[r]) /\ Themselves(live[r])
          /\ Checked(live[r], setup.single)
          /\ runs[r].rec => Named(live[r])
      BY <1>1, <2>1 DEF TeamOK, LiveOK
    <2>3. Team!TeamIsProper(r)
      BY <2>2 DEF Team!TeamIsProper, FromBase, Themselves, Checked, Named
    <2>4. chosen[r].by = r => live[r] = chosen[r].team
      BY <1>1, <2>1, <2>2 DEF OwnersOK
    <2>5. ~Team!Diverged(r) => /\ Team!Who(live[r]) = Team!Who(chosen[r].team)
                               /\ Owned(live[r], runs[r].owners, setup.single)
      BY <1>1, <2>1, <2>2 DEF OwnersOK
    <2> QED BY <2>3, <2>4, <2>5 DEF Team!PlanFits, Owned
  <1>2. ASSUME NEW r \in Team!Runs PROVE Team!Executing(r) <=> live[r] # Team!NoTeam
    <2>1. ASSUME NEW t, Checked(t, setup.single) PROVE t # Team!NoTeam
      <3>1. Team!On(t) # {}
        BY <2>1, TeamCounts, FS_EmptySet DEF Checked, Team!Of
      <3>2. Team!On(Team!NoTeam) = {}
        BY DEF Team!On, Team!NoTeam
      <3> QED BY <3>1, <3>2
    <2>2. TeamOK(r) /\ LiveOK(r)
      BY DEF TeamInv
    <2>3. Team!Executing(r) => Checked(live[r], setup.single)
      BY <2>2 DEF TeamOK, LiveOK, Team!Executing
    <2> QED BY <2>1, <2>2, <2>3 DEF LiveOK
  <1>3. Team!TypeOK
    BY <1>2 DEF TeamInv, TeamShapes, Settings, IsRun, Stages, Team!TypeOK
  <1> QED BY <1>1, <1>3 DEF Team!TeamsHold

\* The constants are as Services assumes.
LEMMA TeamLimits == TeamGiven
  BY BoundsAssumption, PlansAssumption DEF TeamGiven

\* The invariant of the teams holds in every run.
LEMMA TeamsRun == ServicesSpec => []TeamInv
  <1>1. ServicesInit => TeamInv
    BY TeamLimits, TeamInit DEF ServicesInit
  <1>2. TeamInv /\ [ServicesNext]_allVars => TeamInv'
    BY TeamLimits, StepOfEachPart, TeamStep
  <1> QED BY <1>1, <1>2, PTL DEF ServicesSpec

\* However edits, probes and their rows interleave or fail, the last accepted edit of each
\* setting is in force, an edit replaced what its author saw unless the row of another was
\* not there, and a check is of the connection in force unless an edit overtook the
\* probe; a run works with a proper team, and with the one its plan was made for unless it
\* is a fork whose configuration differs from that (api/app.py, the configuration
\* handlers; api/service.py, save_config; runtime/team_selection.py;
\* runtime/orchestrator.py).
THEOREM SettingsAreKept == ServicesSpec => []SettingsStand
  <1>1. ConfigInv /\ HistoryInv /\ TeamInv => SettingsStand
    BY ConfigHolds, TeamHolds DEF SettingsStand
  <1> QED BY <1>1, ConfigRuns, TeamsRun, PTL

-----------------------------------------------------------------------------
(* Purge, backup and the artifact store: their modules prove what they     *)
(* promise of any values of their variables, so of these.                  *)

DataTheorems == INSTANCE RetentionProofs WITH Runs <- Dirs, Keys <- Receipts

StoreTheorems == INSTANCE ArtifactsProofs WITH
    Tasks <- Writers, stored <- blobs, outcome <- finish, crashes <- restarts

\* The two instances say the same of purge and backup.
LEMMA DataIsTheSame == Data!Next => DataTheorems!Next
  BY Zenon
  DEF
       Data!NoSnapshot, Data!EmptyDb, Data!Sites, Data!Jobs, Data!Nothing, Data!RunStatuses,
       Data!Rows, Data!Hold, Data!Write, Data!MayStart, Data!Recovered, Data!StartService,
       Data!Serving, Data!Enqueued, Data!OnlyDb, Data!Create, Data!Resume, Data!Begin,
       Data!WriteFile, Data!RecordArtifact, Data!EndRun, Data!Kill, Data!Purgeable,
       Data!PurgeSelect, Data!PurgeResume, Data!KeysOf, Data!Purged, Data!PurgeRows,
       Data!PurgeFiles, Data!PurgeFinish, Data!MayBackUp, Data!Backup, Data!BackupFiles,
       Data!Verified, Data!BackupEnd, Data!DiscardSnapshot, Data!Seal, Data!Damage,
       Data!Readable, Data!Defused, Data!Restore, Data!Service, Data!Purge, Data!Snapshots,
       Data!Next, DataTheorems!NoSnapshot, DataTheorems!EmptyDb, DataTheorems!Sites,
       DataTheorems!Jobs, DataTheorems!Nothing, DataTheorems!RunStatuses, DataTheorems!Rows,
       DataTheorems!Hold, DataTheorems!Write, DataTheorems!MayStart, DataTheorems!Recovered,
       DataTheorems!StartService, DataTheorems!Serving, DataTheorems!Enqueued,
       DataTheorems!OnlyDb, DataTheorems!Create, DataTheorems!Resume, DataTheorems!Begin,
       DataTheorems!WriteFile, DataTheorems!RecordArtifact, DataTheorems!EndRun,
       DataTheorems!Kill, DataTheorems!Purgeable, DataTheorems!PurgeSelect,
       DataTheorems!PurgeResume, DataTheorems!KeysOf, DataTheorems!Purged,
       DataTheorems!PurgeRows, DataTheorems!PurgeFiles, DataTheorems!PurgeFinish,
       DataTheorems!MayBackUp, DataTheorems!Backup, DataTheorems!BackupFiles,
       DataTheorems!Verified, DataTheorems!BackupEnd, DataTheorems!DiscardSnapshot,
       DataTheorems!Seal, DataTheorems!Damage, DataTheorems!Readable, DataTheorems!Defused,
       DataTheorems!Restore, DataTheorems!Service, DataTheorems!Purge, DataTheorems!Snapshots,
       DataTheorems!Next

\* What the service does is a behaviour of Retention.
LEMMA DataRuns == ServicesSpec => DataTheorems!Spec
  <1>1. ServicesInit => DataTheorems!Init
    <2>1. Data!Init => DataTheorems!Init
      BY Zenon DEF Data!Init, Data!EmptyDb, Data!NoSnapshot, Data!Nothing, Data!Sites,
         Data!Jobs,
         DataTheorems!Init, DataTheorems!EmptyDb, DataTheorems!NoSnapshot,
         DataTheorems!Nothing, DataTheorems!Sites, DataTheorems!Jobs
    <2> QED BY <2>1 DEF ServicesInit
  <1>2. UNCHANGED Data!vars => UNCHANGED DataTheorems!vars
    BY DEF Data!vars, DataTheorems!vars
  <1>3. [ServicesNext]_allVars => [DataTheorems!Next]_(DataTheorems!vars)
    BY <1>2, StepOfEachPart, DataIsTheSame
  <1> QED BY <1>1, <1>3, PTL DEF ServicesSpec, DataTheorems!Spec

\* The two instances say the same of the artifact store.
LEMMA StoreIsTheSame == Store!Next => StoreTheorems!Next
  BY Zenon
  DEF
       Store!Idle, Store!Start, Store!Ready, Store!Goes, Store!Write, Store!OwnedByOther,
       Store!PublishCheck, Store!Placed, Store!PublishWrite, Store!RowsWith, Store!Release,
       Store!PublishInsert, Store!Mine, Store!FinishOutputs, Store!AutoFinish, Store!Refused,
       Store!Unchanged, Store!FinishDrafts, Store!Delivers, Store!FinishDelivery,
       Store!Cancel, Store!Crash, Store!Finish, Store!Next, Store!Last, StoreTheorems!Idle,
       StoreTheorems!Start, StoreTheorems!Ready, StoreTheorems!Goes, StoreTheorems!Write,
       StoreTheorems!OwnedByOther, StoreTheorems!PublishCheck, StoreTheorems!Placed,
       StoreTheorems!PublishWrite, StoreTheorems!RowsWith, StoreTheorems!Release,
       StoreTheorems!PublishInsert, StoreTheorems!Mine, StoreTheorems!FinishOutputs,
       StoreTheorems!AutoFinish, StoreTheorems!Refused, StoreTheorems!Unchanged,
       StoreTheorems!FinishDrafts, StoreTheorems!Delivers, StoreTheorems!FinishDelivery,
       StoreTheorems!Cancel, StoreTheorems!Crash, StoreTheorems!Finish, StoreTheorems!Next,
       StoreTheorems!Last

\* What the service does is a behaviour of Artifacts.
LEMMA StoreRuns == ServicesSpec => StoreTheorems!Spec
  <1>1. ServicesInit => StoreTheorems!Init
    BY DEF ServicesInit, Store!Init, Store!Idle, StoreTheorems!Init, StoreTheorems!Idle
  <1>2. UNCHANGED Store!vars => UNCHANGED StoreTheorems!vars
    BY DEF Store!vars, StoreTheorems!vars
  <1>3. [ServicesNext]_allVars => [StoreTheorems!Next]_(StoreTheorems!vars)
    BY <1>2, StepOfEachPart, StoreIsTheSame
  <1> QED BY <1>1, <1>3, PTL DEF ServicesSpec, StoreTheorems!Spec

\* What Retention promises holds of the whole.
LEMMA DataHolds ==
    ServicesSpec => /\ []Data!FilesMatchRows /\ []Data!KeyAdmitsOnce /\ []Data!BegunOnce
                    /\ []Data!TypeOK
  <1>1. DataTheorems!IdsGiven
    BY BoundsAssumption, NamesAssumption DEF DataTheorems!IdsGiven, Data!Nothing,
       DataTheorems!Nothing
  <1>2. ServicesSpec => []DataTheorems!FilesMatchRows
    BY <1>1, DataRuns, DataTheorems!FilesAndRowsAgree, PTL
  <1>3. ServicesSpec => []DataTheorems!KeyAdmitsOnce
    BY <1>1, DataRuns, DataTheorems!KeysAdmitOnce, PTL
  <1>4. ServicesSpec => []DataTheorems!BegunOnce
    BY <1>1, DataRuns, DataTheorems!JobsBeginOnce, PTL
  <1>5. /\ DataTheorems!FilesMatchRows => Data!FilesMatchRows
        /\ DataTheorems!KeyAdmitsOnce => Data!KeyAdmitsOnce
        /\ DataTheorems!BegunOnce => Data!BegunOnce
    BY DEF DataTheorems!FilesMatchRows, DataTheorems!KeyAdmitsOnce, DataTheorems!BegunOnce,
       DataTheorems!Sites, DataTheorems!Jobs, DataTheorems!Serving, DataTheorems!Rows,
       DataTheorems!Nothing, Data!FilesMatchRows, Data!KeyAdmitsOnce, Data!BegunOnce,
       Data!Sites, Data!Jobs, Data!Serving, Data!Rows, Data!Nothing
  <1>6. ServicesSpec => []DataTheorems!TypeOK
    <2>1. MaxKills \in Nat
      BY BoundsAssumption
    <2> QED BY <1>1, <2>1, DataRuns, DataTheorems!TypeCorrect, PTL
  <1>7. DataTheorems!TypeOK => Data!TypeOK
    BY DEF DataTheorems!TypeOK, DataTheorems!Sites, DataTheorems!RunStatuses,
       DataTheorems!Nothing, Data!TypeOK, Data!Sites, Data!RunStatuses, Data!Nothing
  <1> QED BY <1>2, <1>3, <1>4, <1>5, <1>6, <1>7, PTL

\* What Artifacts promises holds of the whole.
LEMMA StoreHolds ==
    ServicesSpec => /\ []Store!RowsHaveTheirFiles /\ []Store!FinishedOutputsStand
                    /\ []Store!TypeOK
  <1>1. StoreTheorems!PlanGiven
    BY NamesAssumption, PlansAssumption DEF StoreTheorems!PlanGiven
  <1>2. ServicesSpec => []StoreTheorems!RowsHaveTheirFiles
    BY <1>1, StoreRuns, StoreTheorems!PublishedRevisionsHaveTheirFiles, PTL
  <1>3. ServicesSpec => []StoreTheorems!FinishedOutputsStand
    BY <1>1, StoreRuns, StoreTheorems!FinishedOutputsAreKept, PTL
  <1>4. /\ StoreTheorems!RowsHaveTheirFiles => Store!RowsHaveTheirFiles
        /\ StoreTheorems!FinishedOutputsStand => Store!FinishedOutputsStand
    BY Zenon DEF StoreTheorems!RowsHaveTheirFiles, StoreTheorems!FinishedOutputsStand,
       StoreTheorems!Mine, StoreTheorems!Last, Store!RowsHaveTheirFiles,
       Store!FinishedOutputsStand, Store!Mine, Store!Last
  <1>5. ServicesSpec => []StoreTheorems!TypeOK
    <2>1. StoreTheorems!BoundsGiven
      BY BoundsAssumption DEF StoreTheorems!BoundsGiven
    <2> QED BY <1>1, <2>1, StoreRuns, StoreTheorems!TypeCorrect, PTL
  <1>6. StoreTheorems!TypeOK => Store!TypeOK
    BY Zenon DEF StoreTheorems!TypeOK, Store!TypeOK
  <1> QED BY <1>2, <1>3, <1>4, <1>5, <1>6, PTL

\* Files and rows agree: no file of a deleted run is left, no artifact lacks its file,
\* and each published revision has the file that was published, wherever a purge, a
\* backup or a publication was cut off (operations/retention.py, store/artifact_store.py).
THEOREM FilesAndRows == ServicesSpec => []FilesMatchRows
  <1>1. Data!FilesMatchRows /\ Store!RowsHaveTheirFiles => FilesMatchRows
    BY DEF FilesMatchRows
  <1> QED BY <1>1, DataHolds, StoreHolds, PTL

-----------------------------------------------------------------------------
(* Requests with idempotency keys                                          *)

\* The constants of the requests.
RequestGiven ==
    /\ MaxMade \in Nat \ {0} /\ MaxCrashes \in Nat
    /\ None \notin Request!RunIds /\ Denied \notin Request!RunIds
    /\ \A r \in Request!RunIds, c \in Callers : None # [run |-> r, payload |-> PayloadOf[c]]

ReceiptsOfKeys == {[run |-> r, payload |-> PayloadOf[c]] : r \in Request!RunIds, c \in Callers}
Revisions == {0} \cup {Selections[a] : a \in Adopters}
Adoptions == [revision : Revisions, replaces : Revisions \cup {None}]
RequestShapes ==
    /\ at \in [Request!Handlers -> Request!Places] /\ inside \subseteq Request!Handlers
    /\ own \in [Callers -> Request!RunIds \cup {None}]
    /\ answer \in [Callers -> Request!RunIds \cup {None, Denied}]
    /\ admitted \in [Request!RunIds -> Request!Statuses]
    /\ active \subseteq Request!RunIds
    /\ receipt \in [Request!Keys -> ReceiptsOfKeys \cup {None}]
    /\ jobs \in [Request!Keys -> Nat] /\ failures \in 0..MaxCrashes
    /\ shown \in [Adopters -> Revisions \cup {None}] /\ adopted \in Seq(Adoptions)

\* The lock is held by the handler that is half-way, and by no other.
WithinKey == {"lookup", "admission", "make", "save", "submit", "compare", "append"}
OneInsideKey ==
    /\ \A h \in Request!Handlers : at[h] \in WithinKey => h \in inside
    /\ \A g, h \in inside : g = h

\* A key without a receipt has admitted no job; what was answered is in the receipt.
ReceiptsOK ==
    /\ \A k \in Request!Keys : jobs[k] <= 1 /\ (receipt[k] = None => jobs[k] = 0)
    /\ \A c \in Callers : at[c] \in {"save", "submit"} => own[c] \in Request!RunIds
    /\ \A c \in Callers : answer[c] \in Request!RunIds =>
         receipt[KeyOf[c]] = [run |-> answer[c], payload |-> PayloadOf[c]]

\* A handler between its comparison and its event has seen the present selection,
\* or names none.
ChainOK ==
    /\ \A a \in Adopters : at[a] = "append" => shown[a] \in {None, Request!Selected}
    /\ \A i \in 1..Len(adopted) :
         adopted[i].replaces \in {None, IF i = 1 THEN 0 ELSE adopted[i - 1].revision}
RequestInv == RequestShapes /\ OneInsideKey /\ ReceiptsOK /\ ChainOK

\* At first no key is used.
LEMMA RequestInit == RequestGiven /\ Request!Init => RequestInv
  <1> SUFFICES ASSUME RequestGiven, Request!Init PROVE RequestInv
    OBVIOUS
  <1>1. adopted \in Seq(Adoptions) /\ Len(adopted) = 0
    BY DEF Request!Init
  <1>2. RequestShapes
    BY <1>1 DEF Request!Init, RequestShapes, RequestGiven, Request!Places, Revisions,
       Request!Statuses
  <1>3. \A h \in Request!Handlers : at[h] = "idle"
    BY DEF Request!Init
  <1>4. \A c \in Callers : c \in Request!Handlers /\ KeyOf[c] \in Request!Keys /\ answer[c] = None
    BY DEF Request!Init, Request!Handlers, Request!Keys
  <1>5. ReceiptsOK
    BY <1>3, <1>4 DEF Request!Init, ReceiptsOK, RequestGiven
  <1>6. OneInsideKey
    BY <1>3 DEF Request!Init, OneInsideKey, WithinKey
  <1>7. ChainOK
    BY <1>1, <1>3 DEF ChainOK, Request!Handlers
  <1> QED BY <1>2, <1>5, <1>6, <1>7 DEF RequestInv

\* A handler that goes on, or leaves, keeps the lock as it is.
LEMMA GoKeepsLock ==
    ASSUME RequestInv, NEW h \in Request!Handlers, NEW to \in Request!Places, Request!Go(h, to),
           \/ inside' = inside /\ (to \in WithinKey => h \in inside)
           \/ Request!Leave(h) /\ to \notin WithinKey
           \/ inside = {} /\ inside' = {h}
    PROVE  /\ at' \in [Request!Handlers -> Request!Places]
              /\ inside' \subseteq Request!Handlers /\ OneInsideKey'
           /\ at'[h] = to /\ \A g \in Request!Handlers \ {h} : at'[g] = at[g]
  <1>1. /\ at' \in [Request!Handlers -> Request!Places] /\ at'[h] = to
        /\ \A g \in Request!Handlers \ {h} : at'[g] = at[g]
    BY DEF Request!Go, RequestInv, RequestShapes
  <1>2. inside' \subseteq Request!Handlers
    BY DEF RequestInv, RequestShapes, Request!Leave
  <1>3. OneInsideKey'
    BY <1>1 DEF RequestInv, RequestShapes, OneInsideKey, Request!Leave
  <1> QED BY <1>1, <1>2, <1>3

\* The keys of a request that goes on without a receipt, a job or an answer.
LEMMA GoKeepsKeys ==
    ASSUME RequestInv, NEW h \in Request!Handlers, NEW to \in Request!Places,
           at'[h] = to, \A g \in Request!Handlers \ {h} : at'[g] = at[g],
           UNCHANGED <<receipt, jobs>>,
           \A c \in Callers : answer'[c] = answer[c] \/ answer'[c] \notin Request!RunIds,
           to \in {"save", "submit"} => h \in Callers /\ own'[h] \in Request!RunIds,
           \A c \in Callers \ {h} : own'[c] = own[c],
           UNCHANGED Request!adoptVars,
           to = "append" => shown[h] \in {None, Request!Selected}
    PROVE  ReceiptsOK' /\ ChainOK'
  <1>1. Callers \subseteq Request!Handlers /\ Adopters \subseteq Request!Handlers
    BY DEF Request!Handlers
  <1>2. ReceiptsOK'
    BY <1>1 DEF RequestInv, ReceiptsOK
  <1>3. Request!Selected' = Request!Selected
    BY DEF Request!adoptVars, Request!Selected, Request!Last
  <1> QED BY <1>1, <1>2, <1>3 DEF RequestInv, ChainOK, Request!adoptVars

\* A handler enters when none is inside with its lock.
LEMMA EnterKeeps ==
    ASSUME RequestGiven, RequestInv, NEW h \in Request!Handlers, NEW first
               \in {"lookup", "compare"},
           Request!Enter(h, first)
    PROVE  RequestInv'
  <1>1. inside = {} /\ inside' = {h} /\ Request!Go(h, first) /\ first \in Request!Places
        /\ UNCHANGED <<Request!requestVars, Request!adoptVars, failures>>
    BY DEF Request!Enter, Request!MayEnter, Request!Places
  <1>2. /\ at' \in [Request!Handlers -> Request!Places] /\ inside' \subseteq Request!Handlers
               /\ OneInsideKey'
        /\ at'[h] = first /\ \A g \in Request!Handlers \ {h} : at'[g] = at[g]
    BY <1>1, GoKeepsLock
  <1>3. ReceiptsOK' /\ ChainOK'
    BY <1>1, <1>2, GoKeepsKeys DEF Request!requestVars
  <1> QED BY <1>1, <1>2, <1>3 DEF RequestInv, RequestShapes, Request!requestVars,
             Request!adoptVars

\* A request is sent, again perhaps.
LEMMA RequestSendKeeps ==
    ASSUME RequestGiven, RequestInv, NEW c \in Callers, Request!Send(c)
    PROVE  RequestInv'
  <1>1. Request!Go(c, "waiting") /\ inside' = inside /\ "waiting" \in Request!Places
            /\ "waiting" \notin WithinKey
        /\ UNCHANGED <<own, admitted, active, receipt, jobs, Request!adoptVars, failures>>
        /\ answer' = [answer EXCEPT ![c] = None] /\ c \in Request!Handlers
    BY DEF Request!Send, Request!Places, Request!Handlers, WithinKey
  <1>2. /\ at' \in [Request!Handlers -> Request!Places] /\ inside' \subseteq Request!Handlers
               /\ OneInsideKey'
        /\ at'[c] = "waiting" /\ \A g \in Request!Handlers \ {c} : at'[g] = at[g]
    BY <1>1, GoKeepsLock
  <1>3. /\ answer' \in [Callers -> Request!RunIds \cup {None, Denied}]
        /\ \A x \in Callers : answer'[x] = answer[x] \/ answer'[x] \notin Request!RunIds
    BY <1>1 DEF RequestInv, RequestShapes, RequestGiven
  <1>4. ReceiptsOK' /\ ChainOK'
    BY <1>1, <1>2, <1>3, GoKeepsKeys
  <1> QED BY <1>1, <1>2, <1>3, <1>4 DEF RequestInv, RequestShapes, Request!adoptVars

\* A request that is answered: its answer is that of the receipt.
LEMMA RequestAnswerKeeps ==
    ASSUME RequestInv, NEW c \in Callers, NEW reply \in Request!RunIds \cup {None, Denied},
           Request!Answer(c, reply), UNCHANGED <<Request!adoptVars, failures>>,
           admitted' \in [Request!RunIds -> Request!Statuses],
           active' \subseteq Request!RunIds,
           receipt' \in [Request!Keys -> ReceiptsOfKeys \cup {None}],
             jobs' \in [Request!Keys -> Nat],
           \A k \in Request!Keys : jobs'[k] <= 1 /\ (receipt'[k] = None => jobs'[k] = 0),
           \A k \in Request!Keys : receipt[k] # None => receipt'[k] = receipt[k],
           \A r \in Request!RunIds, x \in Callers : None # [run |-> r, payload |-> PayloadOf[x]],
           reply \in Request!RunIds =>
             receipt'[KeyOf[c]] = [run |-> reply, payload |-> PayloadOf[c]]
    PROVE  RequestInv'
  <1>1. Request!Go(c, "done") /\ Request!Leave(c) /\ "done" \in Request!Places
            /\ "done" \notin WithinKey /\ c \in Request!Handlers
        /\ answer' = [answer EXCEPT ![c] = reply] /\ own' = [own EXCEPT ![c] = None]
    BY DEF Request!Answer, Request!Places, Request!Handlers, WithinKey
  <1>2. /\ at' \in [Request!Handlers -> Request!Places] /\ inside' \subseteq Request!Handlers
               /\ OneInsideKey'
        /\ at'[c] = "done" /\ \A g \in Request!Handlers \ {c} : at'[g] = at[g]
    BY <1>1, GoKeepsLock
  <1>3. /\ answer' \in [Callers -> Request!RunIds \cup {None, Denied}] /\ answer'[c] = reply
        /\ \A x \in Callers \ {c} : answer'[x] = answer[x] /\ own'[x] = own[x]
        /\ own' \in [Callers -> Request!RunIds \cup {None}]
    BY <1>1 DEF RequestInv, RequestShapes
  <1>4. ASSUME NEW x \in Callers, answer'[x] \in Request!RunIds
        PROVE  receipt'[KeyOf[x]] = [run |-> answer'[x], payload |-> PayloadOf[x]]
    <2>1. CASE x = c
      BY <1>3, <1>4, <2>1
    <2>2. CASE x # c
      <3>1. receipt[KeyOf[x]] = [run |-> answer[x],
            payload |-> PayloadOf[x]] /\ KeyOf[x] \in Request!Keys
            /\ answer'[x] = answer[x]
        BY <1>3, <1>4, <2>2 DEF RequestInv, ReceiptsOK, Request!Keys
      <3>2. receipt[KeyOf[x]] # None
        BY <1>4, <3>1
      <3> QED BY <3>1, <3>2
    <2> QED BY <2>1, <2>2
  <1>5. ReceiptsOK'
    <2>1. Callers \subseteq Request!Handlers
      BY DEF Request!Handlers
    <2> QED BY <1>2, <1>3, <1>4, <2>1 DEF RequestInv, ReceiptsOK
  <1>6. ChainOK'
    <2>1. Request!Selected' = Request!Selected /\ Adopters \subseteq Request!Handlers
      BY DEF Request!adoptVars, Request!Selected, Request!Last, Request!Handlers
    <2> QED BY <1>2, <2>1 DEF RequestInv, ChainOK, Request!adoptVars
  <1> QED BY <1>2, <1>3, <1>5, <1>6 DEF RequestInv, RequestShapes, Request!adoptVars

\* The receipt of the key is looked up (api/app.py, _idempotency).
LEMMA ReceiptLookupKeeps ==
    ASSUME RequestGiven, RequestInv, NEW c \in Callers, Request!Lookup(c)
    PROVE  RequestInv'
  <1>1. UNCHANGED <<admitted, active, receipt, jobs, Request!adoptVars,
        failures>> /\ at[c] = "lookup"
        /\ KeyOf[c] \in Request!Keys /\ c \in Request!Handlers
    BY DEF Request!Lookup, Request!Keys, Request!Handlers
  <1>2. CASE receipt[KeyOf[c]] = None
    <2>1. Request!Go(c, "admission") /\ UNCHANGED <<inside, own,
          answer>> /\ c \in inside /\ "admission" \in Request!Places
      BY <1>1, <1>2 DEF Request!Lookup, Request!Places, RequestInv, OneInsideKey, WithinKey
    <2>2. /\ at' \in [Request!Handlers -> Request!Places]
                 /\ inside' \subseteq Request!Handlers /\ OneInsideKey'
          /\ at'[c] = "admission" /\ \A g \in Request!Handlers \ {c} : at'[g] = at[g]
      BY <1>1, <2>1, GoKeepsLock
    <2>3. ReceiptsOK' /\ ChainOK'
      BY <1>1, <2>1, <2>2, GoKeepsKeys
    <2> QED BY <1>1, <2>1, <2>2, <2>3 DEF RequestInv, RequestShapes, Request!adoptVars
  <1>3. CASE receipt[KeyOf[c]] # None
    <2>1. receipt[KeyOf[c]] \in ReceiptsOfKeys
      BY <1>1, <1>3 DEF RequestInv, RequestShapes
    <2>2. PICK r \in Request!RunIds, x \in Callers : receipt[KeyOf[c]] = [run |-> r,
               payload |-> PayloadOf[x]]
      BY <2>1 DEF ReceiptsOfKeys
    <2>3. PICK reply : reply = IF receipt[KeyOf[c]].payload = PayloadOf[c]
                               THEN receipt[KeyOf[c]].run ELSE Denied
      OBVIOUS
    <2>4. /\ Request!Answer(c, reply) /\ reply \in Request!RunIds \cup {None, Denied}
          /\ reply \in Request!RunIds =>
               receipt'[KeyOf[c]] = [run |-> reply, payload |-> PayloadOf[c]]
      BY <1>1, <1>3, <2>2, <2>3 DEF Request!Lookup, RequestGiven
    <2>5. /\ admitted' \in [Request!RunIds -> Request!Statuses]
          /\ active' \subseteq Request!RunIds /\ receipt'
                 \in [Request!Keys -> ReceiptsOfKeys \cup {None}]
          /\ jobs' \in [Request!Keys -> Nat]
          /\ \A k \in Request!Keys : jobs'[k] <= 1 /\ (receipt'[k] = None => jobs'[k] = 0)
          /\ \A k \in Request!Keys : receipt[k] # None => receipt'[k] = receipt[k]
      BY <1>1 DEF RequestInv, RequestShapes, ReceiptsOK
    <2> QED BY <1>1, <2>4, <2>5, RequestAnswerKeeps DEF RequestGiven
  <1> QED BY <1>2, <1>3

\* A refusal makes nothing.
LEMMA RefuseKeeps ==
    ASSUME RequestGiven, RequestInv, NEW c \in Callers, Request!Refuse(c) \/ Request!Conflict(c)
    PROVE  RequestInv'
  <1>1. UNCHANGED <<admitted, active, receipt, jobs, Request!adoptVars,
        failures>> /\ Request!Answer(c, Denied)
    BY DEF Request!Refuse, Request!Conflict
  <1>2. /\ admitted' \in [Request!RunIds -> Request!Statuses]
        /\ active' \subseteq Request!RunIds /\ receipt'
               \in [Request!Keys -> ReceiptsOfKeys \cup {None}]
        /\ jobs' \in [Request!Keys -> Nat]
        /\ \A k \in Request!Keys : jobs'[k] <= 1 /\ (receipt'[k] = None => jobs'[k] = 0)
        /\ \A k \in Request!Keys : receipt[k] # None => receipt'[k] = receipt[k]
    BY <1>1 DEF RequestInv, RequestShapes, ReceiptsOK
  <1> QED BY <1>1, <1>2, RequestAnswerKeeps DEF RequestGiven

\* The run and the receipt are made in one transaction.
LEMMA MakeKeeps ==
    ASSUME RequestGiven, RequestInv, NEW c \in Callers, Request!Admission(c) \/ Request!Make(c)
    PROVE  RequestInv'
  <1>1. at[c] \in {"admission", "make"} /\ c \in Request!Handlers
        /\ UNCHANGED <<inside, answer, active, receipt, jobs, Request!adoptVars, failures>>
    BY DEF Request!Admission, Request!Make, Request!Handlers
  <1>2. PICK to \in {"submit", "make", "save"} : Request!Go(c, to)
    BY DEF Request!Admission, Request!Make
  <1>3. /\ own' \in [Callers -> Request!RunIds \cup {None}]
        /\ \A x \in Callers \ {c} : own'[x] = own[x]
        /\ to # "make" => own'[c] \in Request!RunIds
        /\ admitted' \in [Request!RunIds -> Request!Statuses]
    <2>1. own \in [Callers -> Request!RunIds \cup {None}] /\ 1 \in Request!RunIds
          /\ admitted \in [Request!RunIds -> Request!Statuses]
          /\ at \in [Request!Handlers -> Request!Places]
      BY DEF RequestInv, RequestShapes, RequestGiven, Request!RunIds
    <2>2. CASE Request!Admission(c)
      BY <1>1, <1>2, <2>1, <2>2 DEF Request!Admission, Request!Go
    <2>3. CASE Request!Make(c)
      BY <1>1, <1>2, <2>1, <2>3 DEF Request!Make, Request!Go, Request!Statuses
    <2> QED BY <2>2, <2>3
  <1>4. c \in inside /\ to \in Request!Places
    BY <1>1, <1>2 DEF RequestInv, OneInsideKey, WithinKey, Request!Places
  <1>5. /\ at' \in [Request!Handlers -> Request!Places] /\ inside' \subseteq Request!Handlers
               /\ OneInsideKey'
        /\ at'[c] = to /\ \A g \in Request!Handlers \ {c} : at'[g] = at[g]
    BY <1>1, <1>2, <1>4, GoKeepsLock
  <1>6. ReceiptsOK' /\ ChainOK'
    BY <1>1, <1>2, <1>3, <1>4, <1>5, GoKeepsKeys
  <1> QED BY <1>1, <1>3, <1>5, <1>6 DEF RequestInv, RequestShapes, Request!adoptVars

\* The receipt is recorded, with the job or without one.
LEMMA RequestRecordKeeps ==
    ASSUME RequestGiven, RequestInv, NEW c \in Callers, Request!Save(c) \/ Request!Submit(c)
    PROVE  RequestInv'
  <1>1. /\ at[c] \in {"save", "submit"} /\ receipt[KeyOf[c]] = None /\ receipt'
               = Request!Recorded(c)
        /\ Request!Answer(c, own[c]) /\ UNCHANGED <<Request!adoptVars,
           failures>> /\ KeyOf[c] \in Request!Keys
    BY DEF Request!Save, Request!Submit, Request!Keys
  <1>2. own[c] \in Request!RunIds
    BY <1>1 DEF RequestInv, ReceiptsOK
  <1>3. PICK new : new = [run |-> own[c], payload |-> PayloadOf[c]]
    OBVIOUS
  <1>4. new \in ReceiptsOfKeys /\ new # None
    BY <1>2, <1>3 DEF ReceiptsOfKeys, RequestGiven
  <1>5. receipt' = [receipt EXCEPT ![KeyOf[c]] = new] /\ receipt
            \in [Request!Keys -> ReceiptsOfKeys \cup {None}]
    BY <1>1, <1>3 DEF Request!Recorded, RequestInv, RequestShapes
  <1>6. /\ receipt' \in [Request!Keys -> ReceiptsOfKeys \cup {None}] /\ receipt'[KeyOf[c]] = new
        /\ \A k \in Request!Keys : receipt[k] # None => receipt'[k] = receipt[k]
        /\ \A k \in Request!Keys : receipt'[k] = None => receipt[k] = None /\ k # KeyOf[c]
    BY <1>1, <1>4, <1>5
  <1>7. /\ jobs' \in [Request!Keys -> Nat]
        /\ \A k \in Request!Keys : jobs'[k] <= 1 /\ (receipt'[k] = None => jobs'[k] = 0)
    <2>1. jobs \in [Request!Keys -> Nat] /\ jobs[KeyOf[c]] = 0
          /\ \A k \in Request!Keys : jobs[k] <= 1 /\ (receipt[k] = None => jobs[k] = 0)
      BY <1>1 DEF RequestInv, RequestShapes, ReceiptsOK
    <2>2. CASE jobs' = jobs
      BY <1>6, <2>1, <2>2
    <2>3. CASE jobs' = [jobs EXCEPT ![KeyOf[c]] = @ + 1]
      BY <1>1, <1>6, <2>1, <2>3
    <2> QED BY <2>2, <2>3 DEF Request!Save, Request!Submit
  <1>8. /\ admitted' \in [Request!RunIds -> Request!Statuses]
        /\ active' \subseteq Request!RunIds
    BY <1>2 DEF RequestInv, RequestShapes, Request!Save, Request!Submit, Request!Enqueue,
       Request!Statuses
  <1> QED BY <1>1, <1>2, <1>3, <1>6, <1>7, <1>8, RequestAnswerKeeps DEF RequestGiven

\* Jobs end, answers are lost, the service dies.
LEMMA RequestLossesKeep ==
    ASSUME RequestGiven, RequestInv,
           \/ \E r \in Request!RunIds : Request!JobEnds(r) \/ Request!ResumeByDecision(r)
           \/ \E c \in Callers : Request!AnswerLost(c)
           \/ Request!Crash
    PROVE  RequestInv'
  <1>1. ASSUME NEW r \in Request!RunIds, Request!JobEnds(r) \/ Request!ResumeByDecision(r)
        PROVE  RequestInv'
    <2>1. /\ UNCHANGED <<at, inside, own, answer, receipt, jobs, Request!adoptVars, failures>>
          /\ active' \subseteq Request!RunIds
          /\ admitted' \in [Request!RunIds -> Request!Statuses]
      BY <1>1 DEF Request!JobEnds, Request!ResumeByDecision, Request!Enqueue, RequestInv,
         RequestShapes, Request!Statuses
    <2>2. Request!Selected' = Request!Selected
      BY <2>1 DEF Request!adoptVars, Request!Selected, Request!Last
    <2> QED BY <2>1, <2>2 DEF RequestInv, RequestShapes, OneInsideKey, ReceiptsOK, ChainOK,
               Request!adoptVars
  <1>2. ASSUME NEW c \in Callers, Request!AnswerLost(c) PROVE RequestInv'
    <2>1. /\ Request!Go(c, "idle") /\ inside' = inside /\ "idle" \in Request!Places
                 /\ "idle" \notin WithinKey
          /\ answer' = [answer EXCEPT ![c] = None] /\ failures' \in 0..MaxCrashes /\ c
                 \in Request!Handlers
          /\ UNCHANGED <<own, admitted, active, receipt, jobs, Request!adoptVars>>
      BY <1>2 DEF Request!AnswerLost, Request!Places, Request!Handlers, WithinKey, RequestInv,
         RequestShapes, RequestGiven
    <2>2. /\ at' \in [Request!Handlers -> Request!Places]
                 /\ inside' \subseteq Request!Handlers /\ OneInsideKey'
          /\ at'[c] = "idle" /\ \A g \in Request!Handlers \ {c} : at'[g] = at[g]
      BY <2>1, GoKeepsLock
    <2>3. /\ answer' \in [Callers -> Request!RunIds \cup {None, Denied}]
                 /\ answer'[c] \notin Request!RunIds
          /\ \A x \in Callers \ {c} : answer'[x] = answer[x]
      BY <2>1 DEF RequestInv, RequestShapes, RequestGiven
    <2>4. Request!Selected' = Request!Selected /\ Callers \subseteq Request!Handlers
              /\ Adopters \subseteq Request!Handlers
      BY <2>1 DEF Request!adoptVars, Request!Selected, Request!Last, Request!Handlers
    <2>5. ReceiptsOK'
      BY <2>1, <2>2, <2>3, <2>4 DEF RequestInv, ReceiptsOK
    <2>6. ChainOK'
      BY <2>1, <2>2, <2>4 DEF RequestInv, ChainOK, Request!adoptVars
    <2> QED BY <2>1, <2>2, <2>3, <2>5, <2>6 DEF RequestInv, RequestShapes, Request!adoptVars
  <1>3. CASE Request!Crash
    <2>1. /\ at' \in [Request!Handlers -> Request!Places] /\ inside' = {} /\ failures'
                 \in 0..MaxCrashes
          /\ \A h \in Request!Handlers : at'[h] \in {"idle", "done"}
          /\ own' \in [Callers -> Request!RunIds \cup {None}]
          /\ shown' \in [Adopters -> Revisions \cup {None}]
          /\ UNCHANGED <<answer, admitted, active, receipt, jobs, adopted>>
      BY <1>3 DEF Request!Crash, RequestInv, RequestShapes, RequestGiven, Request!Places
    <2>2. Callers \subseteq Request!Handlers /\ Adopters \subseteq Request!Handlers
      BY DEF Request!Handlers
    <2>3. ReceiptsOK'
      BY <2>1, <2>2 DEF RequestInv, ReceiptsOK
    <2>4. OneInsideKey' /\ ChainOK'
      BY <2>1, <2>2 DEF RequestInv, OneInsideKey, ChainOK, WithinKey
    <2> QED BY <2>1, <2>3, <2>4 DEF RequestInv, RequestShapes
  <1> QED BY <1>1, <1>2, <1>3

\* An adoption looks at the selection and compares it with what its user saw.
LEMMA LookKeeps ==
    ASSUME RequestGiven, RequestInv, NEW a \in Adopters, Request!Look(a) \/ Request!Compare(a)
    PROVE  RequestInv'
  <1>1. a \in Request!Handlers /\ Adopters \subseteq Request!Handlers
            /\ Callers \subseteq Request!Handlers
    BY DEF Request!Handlers
  <1>2. Request!Selected \in Revisions
    <2>1. adopted \in Seq(Adoptions)
      BY DEF RequestInv, RequestShapes
    <2>2. adopted = <<>> \/ (Len(adopted) \in 1..Len(adopted) /\ adopted[Len(adopted)]
              \in Adoptions)
      BY <2>1
    <2> QED BY <2>2 DEF Request!Selected, Request!Last, Adoptions, Revisions
  <1>3. CASE Request!Look(a)
    <2>1. /\ Request!Go(a, "waiting") /\ inside' = inside /\ "waiting" \in Request!Places
                 /\ "waiting" \notin WithinKey
          /\ UNCHANGED <<Request!requestVars, adopted, failures>>
      BY <1>3 DEF Request!Look, Request!Places, WithinKey
    <2>2. /\ at' \in [Request!Handlers -> Request!Places]
                 /\ inside' \subseteq Request!Handlers /\ OneInsideKey'
          /\ at'[a] = "waiting" /\ \A g \in Request!Handlers \ {a} : at'[g] = at[g]
      BY <1>1, <2>1, GoKeepsLock
    <2>3. /\ shown' \in [Adopters -> Revisions \cup {None}]
          /\ \A b \in Adopters \ {a} : shown'[b] = shown[b]
      BY <1>2, <1>3 DEF RequestInv, RequestShapes, Request!Look
    <2>4. Request!Selected' = Request!Selected
      BY <2>1 DEF Request!Selected, Request!Last
    <2>5. ChainOK'
      BY <1>1, <2>1, <2>2, <2>3, <2>4 DEF RequestInv, ChainOK
    <2>6. ReceiptsOK'
      BY <1>1, <2>1, <2>2 DEF RequestInv, ReceiptsOK, Request!requestVars
    <2> QED BY <2>1, <2>2, <2>3, <2>5, <2>6 DEF RequestInv, RequestShapes, Request!requestVars
  <1>4. CASE Request!Compare(a)
    <2>1. UNCHANGED <<Request!requestVars, adopted, failures>> /\ at[a] = "compare" /\ a \in inside
      BY <1>1, <1>4 DEF Request!Compare, RequestInv, OneInsideKey, WithinKey
    <2>2. PICK to \in {"append", "done"} :
            /\ Request!Go(a, to)
            /\ to = "append" => /\ shown[a] \in {None, Request!Selected}
                               /\ inside' = inside /\ shown' = shown
            /\ to = "done" => Request!Leave(a) /\ shown' = [shown EXCEPT ![a] = None]
      BY <1>4 DEF Request!Compare, Request!Forget
    <2>3. to \in Request!Places /\ (to = "done" => to \notin WithinKey)
      BY DEF Request!Places, WithinKey
    <2>4. /\ at' \in [Request!Handlers -> Request!Places]
          /\ inside' \subseteq Request!Handlers /\ OneInsideKey'
          /\ at'[a] = to /\ \A g \in Request!Handlers \ {a} : at'[g] = at[g]
      BY <1>1, <2>1, <2>2, <2>3, GoKeepsLock
    <2>5. /\ shown' \in [Adopters -> Revisions \cup {None}]
          /\ \A b \in Adopters : shown'[b] = shown[b] \/ (b = a /\ to = "done")
      BY <2>2 DEF RequestInv, RequestShapes
    <2>6. Request!Selected' = Request!Selected
      BY <2>1 DEF Request!Selected, Request!Last
    <2>7. ChainOK'
      BY <1>1, <2>1, <2>2, <2>4, <2>5, <2>6 DEF RequestInv, ChainOK
    <2>8. ReceiptsOK'
      BY <1>1, <2>1, <2>2, <2>4 DEF RequestInv, ReceiptsOK, Request!requestVars
    <2> QED BY <2>1, <2>4, <2>5, <2>7, <2>8 DEF RequestInv, RequestShapes, Request!requestVars
  <1> QED BY <1>3, <1>4

\* The event is appended by the only handler inside the lock.
LEMMA AdoptKeeps ==
    ASSUME RequestGiven, RequestInv, NEW a \in Adopters, Request!Adopt(a)
    PROVE  RequestInv'
  <1>1. a \in Request!Handlers /\ Adopters \subseteq Request!Handlers
            /\ Callers \subseteq Request!Handlers
    BY DEF Request!Handlers
  <1>2. PICK new : new = [revision |-> Selections[a], replaces |-> shown[a]]
    OBVIOUS
  <1>3. /\ at[a] = "append" /\ adopted' = Append(adopted, new) /\ Request!Go(a, "done")
               /\ Request!Leave(a)
        /\ UNCHANGED <<Request!requestVars, failures>>
        /\ shown' = [shown EXCEPT ![a] = None]
        /\ "done" \in Request!Places /\ "done" \notin WithinKey
    BY <1>2 DEF Request!Adopt, Request!Forget, Request!Places, WithinKey
  <1>4. /\ at' \in [Request!Handlers -> Request!Places] /\ inside' \subseteq Request!Handlers
               /\ OneInsideKey'
        /\ at'[a] = "done" /\ \A g \in Request!Handlers \ {a} : at'[g] = at[g]
    BY <1>1, <1>3, GoKeepsLock
  <1>5. /\ new \in Adoptions /\ new.replaces \in {None, Request!Selected}
        /\ adopted \in Seq(Adoptions)
    BY <1>2, <1>3 DEF RequestInv, RequestShapes, ChainOK, Adoptions, Revisions
  <1>6. /\ adopted' \in Seq(Adoptions) /\ Len(adopted') = Len(adopted) + 1 /\ Len(adopted) \in Nat
        /\ \A i \in 1..Len(adopted) : adopted'[i] = adopted[i]
        /\ adopted'[Len(adopted) + 1] = new
    BY <1>3, <1>5, LongerSequence
  <1>7. ASSUME NEW b \in Adopters PROVE at'[b] # "append"
    <2>1. CASE at[b] = "append"
      <3>1. a \in inside /\ b \in inside
        BY <1>1, <1>3, <2>1 DEF RequestInv, OneInsideKey, WithinKey
      <3> QED BY <1>4, <3>1 DEF RequestInv, OneInsideKey
    <2> QED BY <1>1, <1>4, <2>1
  <1>8. ASSUME NEW i \in 1..Len(adopted')
        PROVE  adopted'[i].replaces \in {None, IF i = 1 THEN 0 ELSE adopted'[i - 1].revision}
    <2>1. CASE i \in 1..Len(adopted)
      <3>1. i = 1 \/ i - 1 \in 1..Len(adopted)
        BY <1>6, <2>1
      <3> QED BY <1>6, <2>1, <3>1 DEF RequestInv, ChainOK
    <2>2. CASE i \notin 1..Len(adopted)
      <3>1. i = Len(adopted) + 1 /\ i - 1 = Len(adopted)
        BY <1>6, <2>2
      <3>2. Request!Selected = IF Len(adopted) = 0 THEN 0 ELSE adopted[Len(adopted)].revision
        BY <1>5 DEF Request!Selected, Request!Last
      <3>3. Len(adopted) = 0 \/ Len(adopted) \in 1..Len(adopted)
        BY <1>6
      <3> QED BY <1>5, <1>6, <3>1, <3>2, <3>3
    <2> QED BY <2>1, <2>2
  <1>9. ReceiptsOK'
    BY <1>1, <1>3, <1>4 DEF RequestInv, ReceiptsOK, Request!requestVars
  <1>10. ChainOK'
    BY <1>7, <1>8 DEF ChainOK
  <1>11. shown' \in [Adopters -> Revisions \cup {None}]
    BY <1>3 DEF RequestInv, RequestShapes
  <1> QED BY <1>3, <1>4, <1>6, <1>9, <1>10, <1>11 DEF RequestInv, RequestShapes,
             Request!requestVars

\* The invariant of the requests is inductive.
LEMMA RequestStep == RequestGiven /\ RequestInv /\ [Request!Next]_(Request!vars) => RequestInv'
  <1> SUFFICES ASSUME RequestGiven, RequestInv, [Request!Next]_(Request!vars) PROVE RequestInv'
    OBVIOUS
  <1>1. CASE UNCHANGED Request!vars
    <2>1. Request!Selected' = Request!Selected
      BY <1>1 DEF Request!vars, Request!adoptVars, Request!Selected, Request!Last
    <2> QED BY <1>1, <2>1 DEF Request!vars, Request!requestVars, Request!adoptVars, RequestInv,
               RequestShapes, OneInsideKey,
               ReceiptsOK, ChainOK
  <1>2. Callers \subseteq Request!Handlers /\ Adopters \subseteq Request!Handlers
    BY DEF Request!Handlers
  <1> QED BY <1>1, <1>2, RequestSendKeeps, EnterKeeps, ReceiptLookupKeeps, MakeKeeps,
             RefuseKeeps,
             RequestRecordKeeps, RequestLossesKeep, LookKeeps, AdoptKeeps DEF Request!Next

\* It gives what the run checks, and the types.
LEMMA RequestHolds == RequestInv => Request!KeyAnswersOnce /\ Request!SelectionsChain
        /\ Request!TypeOK
  <1> SUFFICES ASSUME RequestInv PROVE Request!KeyAnswersOnce /\ Request!SelectionsChain
                          /\ Request!TypeOK
    OBVIOUS
  <1>1. DOMAIN adopted = 1..Len(adopted)
    BY DEF RequestInv, RequestShapes
  <1>2. \A k \in Request!Keys : receipt[k] = None \/ receipt[k].run \in Request!RunIds
    BY DEF RequestInv, RequestShapes, ReceiptsOfKeys
  <1> QED BY <1>1, <1>2 DEF RequestInv, RequestShapes, ReceiptsOK, ChainOK,
             Request!KeyAnswersOnce,
             Request!SelectionsChain, Request!TypeOK

\* The constants are as Services assumes.
LEMMA RequestLimits == RequestGiven
  BY BoundsAssumption, NamesAssumption DEF RequestGiven

\* The invariant of the requests holds in every run.
LEMMA RequestsRun == ServicesSpec => []RequestInv
  <1>1. ServicesInit => RequestInv
    BY RequestLimits, RequestInit DEF ServicesInit
  <1>2. RequestInv /\ [ServicesNext]_allVars => RequestInv'
    BY RequestLimits, StepOfEachPart, RequestStep
  <1> QED BY <1>1, <1>2, PTL DEF ServicesSpec

\* An idempotency key does its work once, however often its request is sent and wherever
\* a process dies or refuses the job of a run it made, after a purge and after a restore,
\* and a selection that names the one its user saw replaces that one (api/app.py,
\* _idempotency and adopt; operations/retention.py and backup.py).
THEOREM KeysActOnce == ServicesSpec => []RequestsActOnce
  <1>1. RequestInv /\ Data!KeyAdmitsOnce /\ Data!BegunOnce => RequestsActOnce
    BY RequestHolds DEF RequestsActOnce
  <1> QED BY <1>1, RequestsRun, DataHolds, PTL

-----------------------------------------------------------------------------
(* The audit collector                                                     *)

\* A part of a sequence.
LEMMA Cut ==
    ASSUME NEW S, NEW s \in Seq(S), NEW m \in Nat, NEW n \in Nat, m <= n, n <= Len(s)
    PROVE  /\ SubSeq(s, m + 1, n) \in Seq(S) /\ Len(SubSeq(s, m + 1, n)) = n - m
           /\ \A i \in 1..(n - m) : SubSeq(s, m + 1, n)[i] = s[m + i]
  OBVIOUS

\* What s holds follows the first k members of t.
Follows(s, k, t) == k + Len(s) <= Len(t) /\ \A i \in 1..Len(s) : s[i] = t[k + i]

\* Nothing follows any position.
LEMMA FollowsNothing ==
    ASSUME NEW S, NEW t \in Seq(S), NEW k \in Nat, k <= Len(t), NEW s \in Seq(S), Len(s) = 0
    PROVE  Follows(s, k, t)
  BY DEF Follows

\* A part of a log follows the position before it.
LEMMA FollowsCut ==
    ASSUME NEW S, NEW t \in Seq(S), NEW m \in Nat, NEW n \in Nat, m <= n, n <= Len(t)
    PROVE  Follows(SubSeq(t, m + 1, n), m, t)
  <1>1. /\ Len(SubSeq(t, m + 1, n)) = n - m
        /\ \A i \in 1..(n - m) : SubSeq(t, m + 1, n)[i] = t[m + i]
    BY Cut
  <1> QED BY <1>1 DEF Follows

\* What follows what follows follows.
LEMMA FollowsOn ==
    ASSUME NEW S, NEW s \in Seq(S), NEW t \in Seq(S), NEW u \in Seq(S), NEW k \in Nat,
           Follows(s, k, u), Follows(t, k + Len(s), u)
    PROVE  Follows(s \o t, k, u)
  <1>1. Len(s) \in Nat /\ Len(t) \in Nat /\ Len(s \o t) = Len(s) + Len(t) /\ Len(u) \in Nat
    OBVIOUS
  <1>2. ASSUME NEW i \in 1..Len(s \o t) PROVE (s \o t)[i] = u[k + i]
    <2>2. CASE i \in 1..Len(s)
      BY <2>2, Concatenated DEF Follows
    <2>3. CASE i \notin 1..Len(s)
      <3>1. PICK j \in 1..Len(t) : i = Len(s) + j
        <4>1. i - Len(s) \in 1..Len(t) /\ i = Len(s) + (i - Len(s))
          BY <1>1, <2>3
        <4> QED BY <4>1
      <3>2. (s \o t)[i] = t[j]
        BY <3>1, Concatenated
      <3>3. k + Len(s) + j = k + i
        BY <1>1, <3>1
      <3> QED BY <3>2, <3>3 DEF Follows
    <2> QED BY <2>2, <2>3
  <1> QED BY <1>1, <1>2 DEF Follows

\* What follows in a log follows in the log that grew.
LEMMA FollowsLonger ==
    ASSUME NEW S, NEW s \in Seq(S), NEW k \in Nat, NEW t \in Seq(S), NEW e \in S, Follows(s, k, t)
    PROVE  Follows(s, k, Append(t, e))
  <1>1. Len(s) \in Nat /\ Len(t) \in Nat
    OBVIOUS
  <1>2. \A i \in 1..Len(s) : k + i \in 1..Len(t)
    BY <1>1 DEF Follows
  <1> QED BY <1>1, <1>2, LongerSequence DEF Follows

\* The constants of the audit collector.
AuditGiven == {MaxPages, MaxRecords, MaxReplaced} \subseteq Nat
      /\ {PageSize, MaxPages} \subseteq Nat \ {0}

Texts == Seq(Audit!Streams)
AuditShapes ==
    /\ log \in Texts /\ Len(log) <= MaxRecords
    /\ saved \in Texts /\ Len(saved) <= MaxRecords
    /\ restores \in Audit!Streams /\ stream = restores
    /\ truth \in [Audit!Streams -> Texts] /\ records \in [Audit!Streams -> Texts]
    /\ cursors \in [Audit!Streams -> Nat]
    /\ \A s \in Audit!Streams : Len(truth[s]) <= MaxRecords
    /\ collector \in {"idle", "paging", "storing"}
    /\ seen \in Audit!Streams /\ batch \in Texts /\ cursor \in Nat
    /\ pages \in 0..MaxPages /\ (collector = "paging" => pages < MaxPages)

\* What is kept of a stream, and what a cycle holds, is part of the log it stood for;
\* of a server that is not there yet nothing is.
KeptOK(s) ==
    /\ Len(records[s]) = cursors[s] /\ Follows(records[s], 0, truth[s])
    /\ s > stream => cursors[s] = 0
CycleOK ==
    /\ collector # "idle" => cursor = cursors[seen] + Len(batch)
           /\ Follows(batch, cursors[seen], truth[seen])
    /\ collector = "idle" => cursor = 0 /\ Len(batch) = 0
AuditInv ==
    /\ AuditShapes /\ CycleOK
    /\ truth[stream] = log /\ seen <= stream
    /\ \A s \in Audit!Streams : KeptOK(s)

\* The streams are numbered from 0.
LEMMA StreamsAreNumbers ==
    ASSUME AuditGiven
    PROVE  /\ 0 \in Audit!Streams /\ \A s \in Audit!Streams : s \in Nat
           /\ \A s \in Audit!Streams : s < MaxReplaced => s + 1 \in Audit!Streams
           /\ \A s \in Audit!Streams : s <= MaxReplaced
  BY DEF AuditGiven, Audit!Streams

\* The collector starts with nothing.
LEMMA AuditInit == AuditGiven /\ Audit!Init => AuditInv
  <1> SUFFICES ASSUME AuditGiven, Audit!Init PROVE AuditInv
    OBVIOUS
  <1> USE StreamsAreNumbers DEF AuditGiven
  <1>1. AuditShapes
    BY DEF Audit!Init, AuditShapes, Texts
  <1>2. <<>> \in Texts /\ Len(<<>>) = 0
    BY DEF Texts
  <1>3. Follows(<<>>, 0, <<>>)
    BY DEF Follows
  <1>4. \A s \in Audit!Streams : KeptOK(s)
    BY <1>2, <1>3 DEF Audit!Init, KeptOK
  <1> QED BY <1>1, <1>2, <1>4 DEF Audit!Init, AuditInv, CycleOK

\* The log of the present server grows.
LEMMA RecordKeeps ==
    ASSUME AuditGiven, AuditInv, Audit!Record
    PROVE  AuditInv'
  <1> USE StreamsAreNumbers DEF AuditGiven
  <1>1. /\ log' = Append(log, restores) /\ truth' = [truth EXCEPT ![stream] = log']
        /\ UNCHANGED <<stream, saved, restores, collector, seen, cursor, batch, pages, records,
           cursors>>
    BY DEF Audit!Record, Audit!cycleVars, Audit!storeVars
  <1>2. /\ AuditShapes /\ truth[stream] = log /\ Len(log) < MaxRecords /\ stream \in Audit!Streams
        /\ log \in Texts /\ restores \in Audit!Streams
    BY DEF AuditInv, AuditShapes, Audit!Record
  <1>3. log' \in Texts /\ Len(log') = Len(log) + 1 /\ Len(log) \in Nat
    BY <1>1, <1>2, LongerSequence DEF Texts
  <1>4. \A s \in Audit!Streams : truth'[s] = IF s = stream THEN log' ELSE truth[s]
    BY <1>1, <1>2 DEF AuditShapes
  <1>5. AuditShapes'
    <2>1. truth' \in [Audit!Streams -> Texts]
      BY <1>1, <1>2, <1>3 DEF AuditShapes
    <2>2. Len(log') <= MaxRecords
      BY <1>2, <1>3
    <2>3. \A s \in Audit!Streams : Len(truth'[s]) <= MaxRecords
      BY <1>2, <1>4, <2>2 DEF AuditShapes
    <2> QED BY <1>1, <1>2, <1>3, <2>1, <2>2, <2>3 DEF AuditShapes
  <1>6. ASSUME NEW s \in Audit!Streams, NEW k \in Nat, NEW b \in Texts, Follows(b, k, truth[s])
        PROVE  Follows(b, k, truth'[s])
    <2>1. CASE s = stream
      BY <1>1, <1>2, <1>4, <1>6, <2>1, FollowsLonger DEF Texts
    <2> QED BY <1>4, <1>6, <2>1
  <1>7. ASSUME NEW s \in Audit!Streams PROVE KeptOK(s)'
    <2>1. records[s] \in Texts /\ KeptOK(s)
      BY <1>2 DEF AuditInv, AuditShapes
    <2> QED BY <1>1, <1>6, <2>1 DEF KeptOK
  <1>8. CycleOK'
    <2>1. CycleOK /\ batch \in Texts /\ seen \in Audit!Streams /\ cursors[seen] \in Nat
      BY DEF AuditInv, AuditShapes
    <2> QED BY <1>1, <1>6, <2>1 DEF CycleOK
  <1>9. truth'[stream'] = log' /\ seen' <= stream'
    BY <1>1, <1>2, <1>4 DEF AuditInv
  <1> QED BY <1>5, <1>7, <1>8, <1>9 DEF AuditInv

\* A server is replaced by one whose stream is new.
LEMMA ReplacedKeeps ==
    ASSUME AuditGiven, AuditInv, Audit!Backup \/ Audit!Restore
    PROVE  AuditInv'
  <1> USE StreamsAreNumbers DEF AuditGiven
  <1>1. CASE Audit!Backup
    BY <1>1 DEF Audit!Backup, Audit!cycleVars, Audit!storeVars, AuditInv, AuditShapes, CycleOK,
       KeptOK
  <1>2. CASE Audit!Restore
    <2>1. /\ restores < MaxReplaced /\ restores' = restores + 1 /\ log' = saved
          /\ stream' = restores + 1 /\ truth' = [truth EXCEPT ![restores + 1] = saved]
          /\ UNCHANGED <<saved, collector, seen, cursor, batch, pages, records, cursors>>
      BY <1>2 DEF Audit!Restore, Audit!RestoredStream, Audit!cycleVars, Audit!storeVars
    <2>2. AuditShapes /\ restores + 1 \in Audit!Streams /\ restores \in Nat /\ stream = restores
      BY <2>1 DEF AuditInv, AuditShapes
    <2>3. \A s \in Audit!Streams : truth'[s] = IF s = restores + 1 THEN saved ELSE truth[s]
      BY <2>1, <2>2 DEF AuditShapes
    <2>4. AuditShapes'
      <3>1. truth' \in [Audit!Streams -> Texts]
        BY <2>1, <2>2 DEF AuditShapes
      <3>2. \A s \in Audit!Streams : Len(truth'[s]) <= MaxRecords
        BY <2>2, <2>3 DEF AuditShapes
      <3> QED BY <2>1, <2>2, <3>1, <3>2 DEF AuditShapes
    <2>5. seen \in Audit!Streams /\ seen <= restores
      BY <2>2 DEF AuditInv, AuditShapes
    <2>6. seen \in Nat /\ truth'[seen] = truth[seen]
      BY <2>2, <2>3, <2>5
    <2>7. CycleOK'
      BY <2>1, <2>6 DEF AuditInv, CycleOK
    <2>8. ASSUME NEW s \in Audit!Streams PROVE KeptOK(s)'
      <3>1. KeptOK(s) /\ records[s] \in Texts /\ saved \in Texts /\ s \in Nat
        BY <2>2 DEF AuditInv, AuditShapes
      <3>2. CASE s = restores + 1
        <4>1. Len(records[s]) = 0
          BY <2>2, <3>1, <3>2 DEF KeptOK
        <4>2. Len(saved) \in Nat
          BY <3>1 DEF Texts
        <4>3. Follows(records[s], 0, saved)
          BY <3>1, <4>1, <4>2, FollowsNothing DEF Texts
        <4> QED BY <2>1, <2>2, <2>3, <3>1, <3>2, <4>3 DEF KeptOK
      <3>3. CASE s # restores + 1
        BY <2>1, <2>2, <2>3, <3>1, <3>3 DEF KeptOK
      <3> QED BY <3>2, <3>3
    <2>9. truth'[stream'] = log' /\ seen' <= stream'
      BY <2>1, <2>2, <2>3, <2>5, <2>6
    <2> QED BY <2>4, <2>7, <2>8, <2>9 DEF AuditInv
  <1> QED BY <1>1, <1>2

\* A cycle begins at the position it stored, or is given up.
LEMMA CycleKeeps ==
    ASSUME AuditGiven, AuditInv, Audit!Begin \/ Audit!Abandon
    PROVE  AuditInv'
  <1> USE StreamsAreNumbers DEF AuditGiven
  <1>1. CASE Audit!Begin
    <2>1. /\ collector' = "paging" /\ seen' = stream /\ cursor' = cursors[stream] /\ batch'
                 = <<>> /\ pages' = 0
          /\ UNCHANGED <<log, stream, saved, restores, truth, records, cursors>>
      BY <1>1 DEF Audit!Begin, Audit!serverVars, Audit!storeVars
    <2>2. /\ stream \in Audit!Streams /\ KeptOK(stream) /\ truth[stream] \in Texts
                 /\ records[stream] \in Texts
          /\ cursors[stream] \in Nat
      BY DEF AuditInv, AuditShapes
    <2>3. batch' \in Texts /\ Len(batch') = 0 /\ cursors[stream] <= Len(truth[stream])
      BY <2>1, <2>2 DEF Texts, KeptOK, Follows
    <2>4. Follows(batch', cursors[stream], truth[stream])
      BY <2>2, <2>3, FollowsNothing DEF Texts
    <2>5. CycleOK'
      BY <2>1, <2>2, <2>3, <2>4 DEF CycleOK
    <2>6. AuditShapes'
      BY <2>1, <2>2, <2>3 DEF AuditInv, AuditShapes
    <2> QED BY <2>1, <2>2, <2>5, <2>6 DEF AuditInv, KeptOK
  <1>2. CASE Audit!Abandon
    <2>1. /\ collector' = "idle" /\ seen' = 0 /\ cursor' = 0 /\ batch' = <<>> /\ pages' = 0
          /\ UNCHANGED <<log, stream, saved, restores, truth, records, cursors>>
      BY <1>2 DEF Audit!Abandon, Audit!EndCycle, Audit!serverVars, Audit!storeVars
    <2>2. batch' \in Texts /\ Len(batch') = 0 /\ stream \in Nat
      BY <2>1 DEF Texts, AuditInv, AuditShapes
    <2> QED BY <2>1, <2>2 DEF AuditInv, AuditShapes, CycleOK, KeptOK
  <1> QED BY <1>1, <1>2

\* A page continues the batch where the log of the same server continues.
LEMMA PageKeeps ==
    ASSUME AuditGiven, AuditInv, Audit!Page
    PROVE  AuditInv'
  <1> USE StreamsAreNumbers DEF AuditGiven
  <1>1. /\ collector = "paging" /\ stream = seen /\ pages' = pages + 1
        /\ batch' = batch \o SubSeq(log, cursor + 1, Audit!PageEnd)
        /\ cursor' = (IF Audit!PageEnd > cursor THEN Audit!PageEnd ELSE cursor)
        /\ collector' \in {"paging", "storing"} /\ (pages' = MaxPages => collector' = "storing")
        /\ UNCHANGED <<log, stream, saved, restores, truth, seen, records, cursors>>
    BY DEF Audit!Page, Audit!SameSource, Audit!serverVars, Audit!storeVars
  <1>2. /\ AuditShapes /\ truth[seen] = log /\ cursor = cursors[seen] + Len(batch)
        /\ Follows(batch, cursors[seen], log)
    BY <1>1 DEF AuditInv, CycleOK
  <1>3. cursor \in Nat /\ cursors[seen] \in Nat /\ log \in Texts /\ batch \in Texts
    BY <1>2 DEF AuditShapes
  <1>4. Len(log) \in Nat /\ Len(batch) \in Nat /\ cursor <= Len(log)
    BY <1>2, <1>3 DEF Texts, Follows
  <1>5. PICK n \in Nat : n = Audit!PageEnd /\ cursor <= n /\ n <= Len(log)
    BY <1>3, <1>4 DEF Audit!PageEnd
  <1>6. cursor' = n
    BY <1>1, <1>3, <1>5
  <1>7. PICK page : page = SubSeq(log, cursor + 1, n)
    OBVIOUS
  <1>8. page \in Texts /\ Len(page) = n - cursor
    BY <1>3, <1>5, <1>7, Cut DEF Texts
  <1>9. Follows(page, cursor, log)
    BY <1>3, <1>5, <1>7, FollowsCut DEF Texts
  <1>10. batch' = batch \o page
    BY <1>1, <1>5, <1>7
  <1>11. batch' \in Texts /\ Len(batch') = Len(batch) + Len(page)
    BY <1>3, <1>8, <1>10, Concatenated DEF Texts
  <1>12. Follows(batch', cursors[seen], log)
    BY <1>2, <1>3, <1>8, <1>9, <1>10, FollowsOn DEF Texts
  <1>13. cursor' = cursors[seen] + Len(batch')
    <2>1. /\ cursor = cursors[seen] + Len(batch) /\ Len(batch) \in Nat /\ cursors[seen] \in Nat
          /\ cursor' \in Nat /\ Len(page) = cursor' - cursor
          /\ Len(batch') = Len(batch) + Len(page) /\ Len(page) \in Nat
      BY <1>2, <1>3, <1>4, <1>5, <1>6, <1>8, <1>11 DEF Texts
    <2>2. PICK a, b, c, d, e, f : a = cursor /\ b = cursors[seen] /\ c = Len(batch)
                    /\ d = cursor' /\ e = Len(page) /\ f = Len(batch')
      OBVIOUS
    <2>3. a = b + c /\ c \in Nat /\ b \in Nat /\ d \in Nat /\ e = d - a /\ f = c + e /\ e \in Nat
      BY <2>1, <2>2
    <2>4. d = b + f
      BY <2>3
    <2> QED BY <2>2, <2>4
  <1>14. AuditShapes'
    <2>1. pages' \in 0..MaxPages /\ (collector' = "paging" => pages' < MaxPages)
      BY <1>1, <1>2 DEF AuditShapes
    <2> QED BY <1>1, <1>2, <1>5, <1>6, <1>11, <2>1 DEF AuditShapes
  <1>15. CycleOK'
    BY <1>1, <1>2, <1>12, <1>13 DEF CycleOK
  <1> QED BY <1>1, <1>14, <1>15 DEF AuditInv, KeptOK

\* What is stored continues what is kept.
LEMMA StoreKeeps ==
    ASSUME AuditGiven, AuditInv, Audit!Store
    PROVE  AuditInv'
  <1> USE StreamsAreNumbers DEF AuditGiven
  <1>1. /\ collector = "storing"
        /\ records' = [records EXCEPT ![seen] =
             records[seen] \o SubSeq(batch, Len(records[seen]) - cursors[seen] + 1, Len(batch))]
        /\ cursors' = [cursors EXCEPT ![seen] = cursors[seen] + Len(batch)]
        /\ collector' = "idle" /\ seen' = 0 /\ cursor' = 0 /\ batch' = <<>> /\ pages' = 0
        /\ UNCHANGED <<log, stream, saved, restores, truth>>
    BY DEF Audit!Store, Audit!AfterBatch, Audit!EndCycle, Audit!serverVars
  <1>2. /\ AuditShapes /\ seen \in Audit!Streams /\ records[seen] \in Texts /\ batch \in Texts
        /\ KeptOK(seen) /\ truth[seen] \in Texts
        /\ Follows(batch, cursors[seen], truth[seen]) /\ cursors[seen] \in Nat
    BY <1>1 DEF AuditInv, AuditShapes, CycleOK
  <1>3. Len(records[seen]) - cursors[seen] + 1 = 1 /\ Len(records[seen]) = 0 + Len(records[seen])
    BY <1>2 DEF KeptOK
  <1>4. SubSeq(batch, 1, Len(batch)) = batch
    BY <1>2 DEF Texts
  <1>5. PICK new : new = records[seen] \o batch
    OBVIOUS
  <1>6. records' = [records EXCEPT ![seen] = new]
    BY <1>1, <1>3, <1>4, <1>5
  <1>7. new \in Texts /\ Len(new) = cursors[seen] + Len(batch) /\ Len(batch) \in Nat
    BY <1>2, <1>5, Concatenated DEF Texts, KeptOK
  <1>8. Follows(new, 0, truth[seen])
    BY <1>2, <1>3, <1>5, FollowsOn DEF Texts, KeptOK
  <1>9. batch' \in Texts /\ Len(batch') = 0 /\ stream \in Nat /\ 0 <= stream
    BY <1>1, <1>2 DEF Texts, AuditShapes
  <1>10. AuditShapes'
    <2>1. records' \in [Audit!Streams -> Texts]
      BY <1>2, <1>6, <1>7 DEF AuditShapes
    <2>2. cursors' \in [Audit!Streams -> Nat]
      BY <1>1, <1>2, <1>7 DEF AuditShapes
    <2>3. /\ log' = log /\ stream' = stream /\ saved' = saved /\ restores' = restores
          /\ truth' = truth
      BY <1>1
    <2>4. collector' = "idle" /\ seen' = 0 /\ cursor' = 0 /\ pages' = 0 /\ 0 \in Audit!Streams
      BY <1>1, StreamsAreNumbers
    <2> QED BY <1>2, <1>9, <2>1, <2>2, <2>3, <2>4 DEF AuditShapes
  <1>11. ASSUME NEW s \in Audit!Streams PROVE KeptOK(s)'
    <2>1. CASE s = seen
      <3>1. records'[s] = new /\ cursors'[s] = cursors[seen] + Len(batch)
        BY <1>1, <1>2, <1>6, <2>1 DEF AuditShapes
      <3>2. seen <= stream /\ seen \in Nat /\ stream \in Nat
        BY <1>2, <1>9 DEF AuditInv
      <3>3. truth'[s] = truth[seen] /\ stream' = stream /\ Len(records'[s]) = cursors'[s]
        BY <1>1, <1>7, <2>1, <3>1
      <3>4. Follows(records'[s], 0, truth'[s])
        BY <1>8, <3>1, <3>3
      <3> QED BY <2>1, <3>2, <3>3, <3>4 DEF KeptOK
    <2>2. CASE s # seen
      <3>1. records'[s] = records[s] /\ cursors'[s] = cursors[s]
        BY <1>1, <1>2, <1>6, <2>2 DEF AuditShapes
      <3> QED BY <1>1, <3>1 DEF AuditInv, KeptOK
    <2> QED BY <2>1, <2>2
  <1> QED BY <1>1, <1>2, <1>9, <1>10, <1>11 DEF AuditInv, CycleOK

\* The invariant of the collector is inductive.
LEMMA AuditStep == AuditGiven /\ AuditInv /\ [Audit!Next]_(Audit!vars) => AuditInv'
  <1> SUFFICES ASSUME AuditGiven, AuditInv, [Audit!Next]_(Audit!vars) PROVE AuditInv'
    OBVIOUS
  <1>1. CASE UNCHANGED Audit!vars
    BY <1>1 DEF Audit!vars, Audit!serverVars, Audit!cycleVars, Audit!storeVars, AuditInv,
       AuditShapes, CycleOK, KeptOK
  <1> QED BY <1>1, RecordKeeps, ReplacedKeeps, CycleKeeps, PageKeeps, StoreKeeps DEF Audit!Next

\* It gives what the run checks, and the types.
LEMMA AuditHolds == AuditGiven /\ AuditInv => Audit!CopiesAreTheLog /\ Audit!TypeOK
  <1> SUFFICES ASSUME AuditGiven, AuditInv PROVE Audit!CopiesAreTheLog /\ Audit!TypeOK
    OBVIOUS
  <1> USE StreamsAreNumbers DEF AuditGiven
  <1>1. ASSUME NEW s \in Audit!Streams
        PROVE  /\ records[s] \in Texts /\ truth[s] \in Texts /\ Follows(records[s], 0, truth[s])
               /\ Len(records[s]) = cursors[s] /\ Len(records[s]) \in Nat /\ Len(truth[s]) \in Nat
               /\ Len(records[s]) <= Len(truth[s]) /\ Len(truth[s]) <= MaxRecords
    <2>1. records[s] \in Texts /\ truth[s] \in Texts /\ KeptOK(s) /\ Len(truth[s]) <= MaxRecords
      BY DEF AuditInv, AuditShapes
    <2> QED BY <2>1 DEF Texts, KeptOK, Follows
  <1>2. ASSUME NEW s \in Audit!Streams PROVE Len(records[s]) = cursors[s]
                   /\ Audit!IsPrefix(records[s], truth[s])
    <2>1. \A i \in 1..Len(records[s]) : records[s][i] = truth[s][i]
      BY <1>1 DEF Follows
    <2>2. SubSeq(records[s], 1, Len(records[s])) = SubSeq(truth[s], 1, Len(records[s]))
      BY <1>1, <2>1 DEF Texts
    <2> QED BY <1>1, <2>2 DEF Audit!IsPrefix
  <1>3. ASSUME NEW s \in Texts, Len(s) <= MaxRecords PROVE s \in Audit!Logs
    <2>1. s \in [1..Len(s) -> Audit!Streams] /\ Len(s) \in 0..MaxRecords
      BY <1>3 DEF Texts
    <2> QED BY <2>1 DEF Audit!Logs, Audit!BoundedSeq, Audit!SeqOf
  <1>4. batch \in Audit!Logs /\ cursor \in 0..MaxRecords
    <2>1. batch \in Texts /\ Len(batch) \in Nat /\ cursor \in Nat /\ cursors[seen] \in Nat
          /\ Len(truth[seen]) \in Nat /\ Len(truth[seen]) <= MaxRecords
      BY <1>1 DEF AuditInv, AuditShapes, Texts
    <2>2. Len(batch) <= MaxRecords /\ cursor <= MaxRecords
      BY <2>1 DEF AuditInv, CycleOK, Follows, AuditShapes
    <2> QED BY <1>3, <2>1, <2>2
  <1>5. /\ log \in Audit!Logs /\ saved \in Audit!Logs
        /\ stream \in Audit!Streams /\ seen \in Audit!Streams /\ restores \in Audit!Streams
        /\ collector \in {"idle", "paging", "storing"} /\ pages \in 0..MaxPages
    BY <1>3 DEF AuditInv, AuditShapes
  <1>6. ASSUME NEW s \in Audit!Streams
        PROVE  truth[s] \in Audit!Logs /\ records[s] \in Audit!Logs /\ cursors[s]
                  \in 0..MaxRecords
    <2>1. Len(records[s]) <= MaxRecords
      BY <1>1
    <2> QED BY <1>1, <1>3, <2>1
  <1> QED BY <1>2, <1>4, <1>5, <1>6 DEF Audit!CopiesAreTheLog, Audit!TypeOK

\* The constants are as Services assumes.
LEMMA AuditLimits == AuditGiven
  BY BoundsAssumption DEF AuditGiven

\* The invariant of the collector holds in every run.
LEMMA AuditRuns == ServicesSpec => []AuditInv
  <1>1. ServicesInit => AuditInv
    BY AuditLimits, AuditInit DEF ServicesInit
  <1>2. AuditInv /\ [ServicesNext]_allVars => AuditInv'
    BY AuditLimits, StepOfEachPart, AuditStep
  <1> QED BY <1>1, <1>2, PTL DEF ServicesSpec

\* What the collector keeps of a server's audit log has no gap and no record of another
\* server, however its cycles fail (operations/observer.py, collect).
THEOREM CopiesAreKept == ServicesSpec => []CopiesAreTheLog
  <1>1. AuditInv => CopiesAreTheLog
    BY AuditLimits, AuditHolds DEF CopiesAreTheLog
  <1> QED BY <1>1, AuditRuns, PTL
=============================================================================
