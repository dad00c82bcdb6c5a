------------------------------ MODULE MCService ------------------------------
(* A few of everything for the parts of the service. *)
EXTENDS Services, TLC

CONSTANTS
    a, b,                           \* Session
    c1, c2, c3, u1, u2, k1, k2,     \* Requests
    t1, t2                          \* Artifacts

\* Two requests with one key and different inputs, one that resumes a run, and
\* two users that adopt a revision.
KeyOfCallers == c1 :> k1 @@ c2 :> k1 @@ c3 :> k2
Inputs == c1 :> "p" @@ c2 :> "q" @@ c3 :> "p"
OperationOfKeys == k1 :> "create" @@ k2 :> "resume"
Chosen == u1 :> 1 @@ u2 :> 2

PlanOrder == <<1, 2, 3>>

\* One task owns an output, whose content is checked; the other publishes freely.
DeclaredPaths == t1 :> {"own"} @@ t2 :> {}
PathContents == "own" :> {"good", "bad"} @@ "free" :> {"good"}

\* A Master, a builder, a reviewer, and a locked builder whose id is the first one
\* that generated members take and whose name the Master may give to another.
RoleOfAgents == "m" :> "master" @@ "b" :> "builder" @@ "r" :> "reviewer" @@ "team_1" :> "builder"
LockedAgents == "m" :> FALSE @@ "b" :> FALSE @@ "r" :> FALSE @@ "team_1" :> TRUE
NameOfAgents == "m" :> "Mi" @@ "b" :> "Bo" @@ "r" :> "Ri" @@ "team_1" :> "To"
ConnOfAgents == "m" :> "c" @@ "b" :> "c" @@ "r" :> "c" @@ "team_1" :> "d"
GeneratedIds == <<"team_1", "team_2", "team_3", "team_4">>

\* An administrator whose key is replaced, an operator whose key is revoked and whose
\* grants an administrator changes, and one identity of the token issuer.
SubjectOfKeys == [ann1 |-> "ann", bob1 |-> "bob", ann2 |-> "ann", stop |-> "bob"]
RoleOfKeys == [ann1 |-> "admin", bob1 |-> "operator", ann2 |-> "admin"]
WishesOfClients == [c1 |-> {"login", "grant", "logout"}, c2 |-> {"write", "stream"}]
=============================================================================
