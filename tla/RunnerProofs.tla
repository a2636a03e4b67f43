---------------------------- MODULE RunnerProofs ----------------------------
(***************************************************************************)
(* A verdict of the runner names the commits that were tested, these are   *)
(* no older than what was declared, the command ran on nothing else, and a *)
(* failed merge is named for what it was: for any scenario that validates, *)
(* any number of participants, commits, requests and restarts.             *)
(***************************************************************************)
EXTENDS Runner, SequenceTheorems, TLAPS

(***************************************************************************)
(* Lemmas about the scenario and the operators.                            *)
(***************************************************************************)

\* The branches are numbered from one, each has a name of its own and so has
\* its owner.
LEMMA ScenarioFacts ==
    /\ Count \in Nat \ {0}
    /\ \A j \in 1 .. Count : Scenario.agents[j].name \in Names /\ Branch(j) \in Branches
    /\ \A i, j \in 1 .. Count : Scenario.agents[i].name = Scenario.agents[j].name => i = j
<1>1. /\ Count \in Nat \ {0} /\ DOMAIN Scenario.agents = 1 .. Count
      /\ \A j \in 1 .. Count : Scenario.agents[j] \in [name : Names, branch : Branches]
  <2> DEFINE agents == Scenario.agents
             Agent == [name : Names, branch : Branches]
  <2>1. agents \in Seq(Agent) /\ agents # <<>>
    BY AgentsAssumption
  <2> HIDE DEF agents, Agent
  <2>2. Len(agents) \in Nat /\ Len(agents) # 0 /\ DOMAIN agents = 1 .. Len(agents)
        /\ \A j \in 1 .. Len(agents) : agents[j] \in Agent
    BY <2>1, EmptySeq
  <2> QED BY <2>2 DEF agents, Agent, Count
<1>2. ASSUME NEW i \in 1 .. Count, NEW j \in 1 .. Count, i # j
      PROVE  Scenario.agents[i].name # Scenario.agents[j].name
  <2> DEFINE all == Append(Scenario.agents, Scenario.runner)
  <2>1. /\ i \in DOMAIN all /\ j \in DOMAIN all
        /\ all[i] = Scenario.agents[i] /\ all[j] = Scenario.agents[j]
    BY <1>1, AgentsAssumption DEF Count
  <2>2. all[i].name # all[j].name
    <3>1. \A m, n \in DOMAIN all : m # n => all[m].name # all[n].name
      BY ScenarioAssumption DEF Validate
    <3> HIDE DEF all
    <3> QED BY <3>1, <2>1, <1>2
  <2> QED BY <2>1, <2>2
<1> QED BY <1>1, <1>2 DEF Names, Branches, Branch

\* No commits at all is a version map of the right type, and not what a run
\* that merged something reports.
LEMMA NoneFacts ==
    /\ None \in Tips
    /\ \A b \in Branches : None[b] = 0
    /\ NoVerdict \in AllVerdicts /\ NoVerdict.versions = NoVersions
    /\ ~NoVerdict.passed /\ NoVerdict.detail = "none"
    /\ NoRequest \in Requests
    /\ NoRun \in [tree : Tips, left : Litter] /\ NoRun.left = {}
<1>1. None \in Tips /\ \A b \in Branches : None[b] = 0
  BY MaxTipAssumption DEF None, Tips
<1>2. NoVerdict \in AllVerdicts /\ NoVerdict.versions = NoVersions
      /\ ~NoVerdict.passed /\ NoVerdict.detail = "none"
  BY DEF NoVerdict, Verdict, AllVerdicts, Details
<1>3. NoRun \in [tree : Tips, left : Litter] /\ NoRun.left = {}
  BY <1>1 DEF NoRun, Litter
<1> QED BY <1>1, <1>2, <1>3 DEF NoRequest, Requests

\* Of an answer its request, if it passed, and its versions are kept.
LEMMA AnswerFacts ==
    ASSUME NEW n \in Nat, NEW v \in AllVerdicts
    PROVE  /\ Answer(n, v) \in Answers
           /\ Answer(n, v).n = n
           /\ Answer(n, v).passed = v.passed
           /\ Answer(n, v).versions = v.versions
BY DEF Answer, Answers, AllVerdicts

\* What participantOf makes of the map: each participant's own branch.
LEMMA TestedFacts ==
    ASSUME merged \in Tips
    PROVE  /\ Tested \in [Names -> 0 .. MaxTip]
           /\ Tested # NoVersions
           /\ \A j \in 1 .. Count :
                  Tested[Scenario.agents[j].name] = merged[Branch(j)]
<1> DEFINE Nth(p) == CHOOSE j \in 1 .. Count : Scenario.agents[j].name = p
<1>1. ASSUME NEW p \in Names
      PROVE  Nth(p) \in 1 .. Count /\ Scenario.agents[Nth(p)].name = p
  <2>1. \E j \in 1 .. Count : Scenario.agents[j].name = p
    BY <1>1 DEF Names
  <2> QED BY <2>1
<1>2. Tested = [p \in Names |-> merged[Branch(Nth(p))]]
  BY DEF Tested
<1> HIDE DEF Nth
<1>3. ASSUME NEW p \in Names PROVE merged[Branch(Nth(p))] \in 0 .. MaxTip
  BY <1>1, <1>3, ScenarioFacts DEF Tips
<1>4. Tested \in [Names -> 0 .. MaxTip]
  BY <1>2, <1>3
<1>5. Tested # NoVersions
  <2>1. Scenario.agents[1].name \in Names
    BY ScenarioFacts
  <2>2. DOMAIN Tested = Names
    BY <1>4
  <2>3. DOMAIN NoVersions = {}
    BY DEF NoVersions
  <2> QED BY <2>1, <2>2, <2>3
<1>6. ASSUME NEW j \in 1 .. Count
      PROVE  Tested[Scenario.agents[j].name] = merged[Branch(j)]
  <2>1. Scenario.agents[j].name \in Names
    BY ScenarioFacts
  <2>2. Nth(Scenario.agents[j].name) = j
    BY <2>1, <1>1, ScenarioFacts
  <2> QED BY <2>1, <2>2, <1>2
<1> QED BY <1>4, <1>5, <1>6

(***************************************************************************)
(* Type correctness.                                                       *)
(***************************************************************************)

LEMMA TypeInit == Init => TypeOK
<1>1. 1 \in 1 .. Count
  BY ScenarioFacts
<1>2. [b \in Branches |-> 1] \in Tips
  BY MaxTipAssumption DEF Tips
<1>3. <<>> \in Seq(Requests)
  OBVIOUS
<1>4. 0 \in 0 .. MaxTip /\ {} \in Litter
  BY MaxTipAssumption DEF Litter
<1> SUFFICES ASSUME Init
             PROVE  TypeOK
  OBVIOUS
<1>5. /\ answer \in Answers
      /\ struck \in [cause : {"none", "conflict", "other"}, seen : BOOLEAN]
      /\ ran \in [tree : Tips, left : Litter]
  BY <1>4, NoneFacts, AnswerFacts DEF Init, Struck
<1> QED BY <1>1, <1>2, <1>3, <1>4, <1>5, NoneFacts DEF Init, TypeOK, Litter

\* When mergeAll is over, and when the handler returns.
LEMMA LeaveFacts ==
    /\ Merged => nth' \in 1 .. Count /\ sha' \in 0 .. MaxTip /\ merged' \in Tips
    /\ Leave => /\ Merged /\ hand' \in Requests /\ verdict' \in AllVerdicts
                /\ fouled' \in BOOLEAN /\ ran' \in [tree : Tips, left : Litter]
                /\ struck' \in [cause : {"none", "conflict", "other"}, seen : BOOLEAN]
<1>1. Merged => nth' \in 1 .. Count /\ sha' \in 0 .. MaxTip /\ merged' \in Tips
  BY NoneFacts, ScenarioFacts, MaxTipAssumption DEF Merged
<1>2. ASSUME Leave
      PROVE  /\ Merged /\ hand' \in Requests /\ verdict' \in AllVerdicts
             /\ fouled' \in BOOLEAN /\ ran' \in [tree : Tips, left : Litter]
  BY <1>2, NoneFacts DEF Leave
<1>3. ASSUME Leave
      PROVE  struck' \in [cause : {"none", "conflict", "other"}, seen : BOOLEAN]
  BY <1>3 DEF Leave, Struck
<1> QED BY <1>1, <1>2, <1>3

\* Behind a position of the log are requests of the log.
LEMMA BehindFacts ==
    ASSUME NEW k \in 0 .. Len(log), log \in Seq(Requests)
    PROVE  /\ Behind(k) \in Seq(Requests)
           /\ \A i \in DOMAIN Behind(k) : \E j \in DOMAIN log : Behind(k)[i] = log[j]
<1>1. /\ Len(log) \in Nat /\ DOMAIN log = 1 .. Len(log)
      /\ k + 1 \in Nat /\ k + 1 >= 1
  OBVIOUS
<1>2. Behind(k) = [i \in 1 .. Len(log) - k |-> log[k + i]]
  BY <1>1 DEF Behind
<1>3. ASSUME NEW i \in 1 .. Len(log) - k
      PROVE  k + i \in DOMAIN log /\ log[k + i] \in Requests
  <2>1. k + i \in 1 .. Len(log)
    BY <1>1
  <2> QED BY <1>1, <2>1
<1>4. Len(log) - k \in Nat
  BY <1>1
<1>5. Behind(k) \in Seq(Requests)
  BY <1>2, <1>3, <1>4
<1> QED BY <1>2, <1>3, <1>5

\* What the bus hands over again was asked.
LEMMA RefillFacts ==
    ASSUME TypeOK, Redeliver \/ StartRunner
    PROVE  /\ inbox' \in Seq(Requests)
           /\ \A i \in DOMAIN inbox' :
                  \/ \E j \in DOMAIN inbox : inbox'[i] = inbox[j]
                  \/ \E j \in DOMAIN log : inbox'[i] = log[j]
<1>0. inbox \in Seq(Requests) /\ log \in Seq(Requests) /\ Len(log) \in Nat
  BY DEF TypeOK
<1>1. CASE Redeliver
  <2>0. PICK k \in 0 .. Len(log) - 1 : inbox' = inbox \o Behind(k)
    BY <1>1 DEF Redeliver
  <2>1. inbox' = inbox \o Behind(k) /\ k \in 0 .. Len(log)
    BY <1>0, <2>0
  <2> DEFINE more == Behind(k)
  <2>2. more \in Seq(Requests) /\ \A i \in DOMAIN more : \E j \in DOMAIN log : more[i] = log[j]
    BY <1>0, <2>1, BehindFacts
  <2>3. inbox' = inbox \o more
    BY <2>1
  <2> HIDE DEF more
  <2>4. inbox' \in Seq(Requests)
    BY <1>0, <2>2, <2>3
  <2>5. ASSUME NEW i \in DOMAIN inbox'
        PROVE  \/ i \in DOMAIN inbox /\ inbox'[i] = inbox[i]
               \/ i - Len(inbox) \in DOMAIN more /\ inbox'[i] = more[i - Len(inbox)]
    BY <1>0, <2>2, <2>3, <2>5
  <2> QED BY <2>2, <2>4, <2>5
<1>2. CASE StartRunner
  <2>1. PICK k \in 0 .. Len(log) : inbox' = Behind(k)
    BY <1>2 DEF StartRunner
  <2> QED BY <1>0, <2>1, BehindFacts
<1> QED BY <1>1, <1>2

\* What a branch or the worktree is after one commit more.
LEMMA TipsExcept ==
    ASSUME NEW f \in Tips, NEW b \in Branches, NEW n \in 0 .. MaxTip
    PROVE  [f EXCEPT ![b] = n] \in Tips
BY DEF Tips

LEMMA TypeStep == TypeOK /\ [Next]_vars => TypeOK'
<1> SUFFICES ASSUME TypeOK, [Next]_vars
             PROVE  TypeOK'
  OBVIOUS
<1> USE DEF workspace, requests, merging, history
<1>1. ASSUME NEW b \in Branches, Commit(b)
      PROVE  TypeOK'
  <2>1. tip[b] + 1 \in 0 .. MaxTip /\ tip \in Tips
    BY <1>1, MaxTipAssumption DEF Commit, TypeOK, Tips
  <2>2. tip' \in Tips
    BY <1>1, <2>1, TipsExcept DEF Commit
  <2> QED BY <1>1, <2>2 DEF Commit, TypeOK
<1>2. CASE Ask
  <2> DEFINE q == [n |-> Len(log) + 1, declared |-> tip]
  <2>1. q \in Requests
    BY DEF TypeOK, Requests
  <2>2. log' = Append(log, q) /\ inbox' \in {inbox, Append(inbox, q)}
    BY <1>2 DEF Ask
  <2> HIDE DEF q
  <2>3. inbox' \in Seq(Requests) /\ log' \in Seq(Requests)
    <3>1. inbox \in Seq(Requests) /\ log \in Seq(Requests)
      BY DEF TypeOK
    <3>2. Append(inbox, q) \in Seq(Requests) /\ Append(log, q) \in Seq(Requests)
      BY <2>1, <3>1
    <3> QED BY <2>2, <3>1, <3>2
  <2> QED BY <1>2, <2>3 DEF Ask, TypeOK
<1>3. CASE StrayWrites
  <2>1. litter' \in Litter /\ fouled' \in BOOLEAN /\ strays' \in BOOLEAN
    <3>1. CASE /\ litter' \in Written /\ UNCHANGED strays
               /\ fouled' = (at \in {"clean", "resolve", "merge", "test"})
      <4>1. litter' \in Litter /\ strays' \in BOOLEAN
        BY <3>1 DEF Written, TypeOK, Litter
      <4>2. fouled' \in BOOLEAN
        <5>1. CASE at \in {"clean", "resolve", "merge", "test"}
          BY <3>1, <5>1
        <5>2. CASE at \notin {"clean", "resolve", "merge", "test"}
          BY <3>1, <5>2
        <5> QED BY <5>1, <5>2
      <4> QED BY <4>1, <4>2
    <3>2. CASE strays' = FALSE /\ UNCHANGED <<litter, fouled>>
      BY <3>2 DEF TypeOK
    <3> QED BY <1>3, <3>1, <3>2 DEF StrayWrites
  <2> QED BY <1>3, <2>1 DEF StrayWrites, TypeOK
<1>4. CASE Shutdown
  <2>1. litter' \in Litter /\ unmerged' \in BOOLEAN /\ strays' \in BOOLEAN
    <3>1. litter \in Litter /\ unmerged \in BOOLEAN /\ strays \in BOOLEAN
          /\ litter \cup {"tracked"} \in Litter /\ \A w \in Written : w \in Litter
      BY DEF Written, TypeOK, Litter, Kinds
    <3>2. litter' \in {litter, litter \cup {"tracked"}} \/ litter' \in Written
      BY <1>4 DEF Shutdown
    <3> QED BY <1>4, <3>1, <3>2 DEF Shutdown
  <2>2. inbox' \in Seq(Requests)
    BY <1>4 DEF Shutdown
  <2> QED BY <1>4, <2>1, <2>2, LeaveFacts DEF Shutdown, TypeOK
<1>5. CASE StartRunner \/ Redeliver
  <2>1. inbox' \in Seq(Requests)
    BY <1>5, RefillFacts
  <2> QED BY <1>5, <2>1 DEF StartRunner, Redeliver, TypeOK
<1>6. CASE TakeRequest
  <2>1. hand' \in Requests /\ inbox' \in Seq(Requests)
    BY <1>6 DEF TakeRequest, TypeOK
  <2> QED BY <1>6, <2>1 DEF TakeRequest, TypeOK
<1>7. CASE Reset
  BY <1>7, NoneFacts DEF Reset, TypeOK, Litter
<1>8. CASE Clean
  BY <1>8 DEF Clean, TypeOK, Litter
<1>9. CASE Resolve
  <2>1. sha' \in 0 .. MaxTip
    BY <1>9, ScenarioFacts DEF Resolve, TypeOK, Tips
  <2> QED BY <1>9, <2>1 DEF Resolve, TypeOK
<1>10. CASE SetupFails
  <2>1. verdict' \in AllVerdicts
    BY <1>10 DEF SetupFails, Fail, Verdict, AllVerdicts, Details
  <2> QED BY <1>10, <2>1, LeaveFacts DEF SetupFails, Fail, TypeOK
<1>11. CASE Merge
  <2>1. tree' \in Tips /\ merged' \in Tips
    BY <1>11, TipsExcept, ScenarioFacts DEF Merge, TypeOK
  <2>2. nth' \in 1 .. Count /\ at' \in {"resolve", "test"}
    BY <1>11, ScenarioFacts DEF Merge, NextBranch, TypeOK
  <2> QED BY <1>11, <2>1, <2>2 DEF Merge, TypeOK
<1>12. CASE MergeFails
  <2>1. struck' \in [cause : {"none", "conflict", "other"}, seen : BOOLEAN]
    <3>1. \E cause \in {"conflict", "other"}, says \in BOOLEAN :
             struck' = Struck(cause, says)
      BY <1>12 DEF MergeFails
    <3> QED BY <3>1 DEF Struck
  <2>2. unmerged' \in BOOLEAN
    BY <1>12 DEF MergeFails, TypeOK
  <2> QED BY <1>12, <2>1, <2>2 DEF MergeFails, TypeOK
<1>13. CASE Classify
  <2>1. verdict' \in AllVerdicts /\ unmerged' \in BOOLEAN /\ at' = "reply"
    BY <1>13 DEF Classify, Fail, Verdict, AllVerdicts, Detail, Details
  <2>2. struck' \in [cause : {"none", "conflict", "other"}, seen : BOOLEAN]
    <3>1. \E works \in BOOLEAN : struck' = [struck EXCEPT !.seen = @ \/ works]
      BY <1>13 DEF Classify
    <3> QED BY <3>1 DEF TypeOK
  <2> QED BY <1>13, <2>1, <2>2, LeaveFacts DEF Classify, Fail, TypeOK
<1>14. CASE RunShell
  <2>1. ran' \in [tree : Tips, left : Litter]
    BY <1>14 DEF RunShell, TypeOK, Litter
  <2> QED BY <1>14, <2>1 DEF RunShell, TypeOK
<1>15. CASE Timeout
  <2>1. verdict' \in AllVerdicts
    BY <1>15, TestedFacts DEF Timeout, Verdict, AllVerdicts, Details, TypeOK
  <2> QED BY <1>15, <2>1, LeaveFacts DEF Timeout, Written, TypeOK, Litter
<1>16. CASE Reply \/ ReplyIsLost
  <2>1. hand.n \in Nat
    BY DEF TypeOK, Requests
  <2>2. answer' \in Answers /\ lost' \in Nat
    BY <1>16, <2>1, AnswerFacts DEF Reply, ReplyIsLost, TypeOK
  <2> QED BY <1>16, <2>2, LeaveFacts DEF Reply, ReplyIsLost, TypeOK
<1>17. CASE CommandEnds
  <2>1. verdict' \in AllVerdicts
    BY <1>17, TestedFacts DEF CommandEnds, Verdict, AllVerdicts, Details, TypeOK
  <2> QED BY <1>17, <2>1, LeaveFacts DEF CommandEnds, Written, TypeOK, Litter
<1>18. CASE SurvivorsEnd
  BY <1>18 DEF SurvivorsEnd, TypeOK
<1>19. CASE UNCHANGED vars
  BY <1>19 DEF vars, TypeOK
<1> QED
  BY <1>1, <1>2, <1>3, <1>4, <1>5, <1>6, <1>7, <1>8, <1>9, <1>10, <1>11, <1>12,
     <1>13, <1>14, <1>15, <1>16, <1>17, <1>18, <1>19
     DEF Next, Environment, Handler, Git, Loop

\* Every variable of the runner has its type, whatever the agents, the
\* coordinator and the commands do (rungate.go:118).
THEOREM TypeCorrect == Spec => []TypeOK
<1> QED BY TypeInit, TypeStep, PTL DEF Spec

\* However a command ends, the verdict names what was merged.
LEMMA EndFacts ==
    ASSUME Timeout \/ CommandEnds
    PROVE  /\ at = "testing" /\ at' \in {"reply", "held"}
           /\ verdict'.versions = Tested /\ verdict'.detail \in {"none", "tests"}
           /\ Merged /\ UNCHANGED <<tip, inbox, log, hand, unmerged, struck>>
<1>1. CASE Timeout
  BY <1>1 DEF Timeout, Verdict, requests, merging, history
<1>2. CASE CommandEnds
  <2>1. PICK ok \in BOOLEAN :
            verdict' = Verdict(ok, IF ok THEN "none" ELSE "tests", Tested)
    BY <1>2 DEF CommandEnds
  <2>2. verdict'.versions = Tested /\ verdict'.detail \in {"none", "tests"}
    BY <2>1 DEF Verdict
  <2> QED BY <1>2, <2>2 DEF CommandEnds, requests, merging, history
<1> QED BY <1>1, <1>2

(***************************************************************************)
(* What a verdict names.                                                   *)
(***************************************************************************)

LEMMA MapInit == Init => MapInv
BY NoneFacts DEF Init, MapInv, ReportNamesWhatRan

LEMMA MapStep == TypeOK /\ MapInv /\ [Next]_vars => MapInv'
<1> SUFFICES ASSUME TypeOK, MapInv, [Next]_vars
             PROVE  MapInv'
  OBVIOUS
<1> USE DEF workspace, requests, merging, history
<1>1. ASSUME NEW b \in Branches, Commit(b)
      PROVE  MapInv'
  BY <1>1 DEF Commit, MapInv, ReportNamesWhatRan
<1>2. CASE Ask
  BY <1>2 DEF Ask, MapInv, ReportNamesWhatRan
<1>3. CASE StrayWrites
  BY <1>3 DEF StrayWrites, MapInv, ReportNamesWhatRan
<1>4. CASE Shutdown
  BY <1>4, NoneFacts DEF Shutdown, Leave, Merged, MapInv, ReportNamesWhatRan
<1>5. CASE StartRunner \/ Redeliver
  BY <1>5 DEF StartRunner, Redeliver, MapInv, ReportNamesWhatRan
<1>6. CASE TakeRequest
  BY <1>6 DEF TakeRequest, MapInv, ReportNamesWhatRan
<1>7. CASE Reset
  BY <1>7 DEF Reset, MapInv, ReportNamesWhatRan
<1>8. CASE Clean
  BY <1>8 DEF Clean, MapInv, ReportNamesWhatRan
<1>9. CASE Resolve
  BY <1>9 DEF Resolve, MapInv, ReportNamesWhatRan
<1>10. CASE SetupFails
  BY <1>10 DEF SetupFails, Fail, Verdict, MapInv, ReportNamesWhatRan
<1>11. CASE Merge
  BY <1>11 DEF Merge, NextBranch, MapInv, ReportNamesWhatRan
<1>12. CASE MergeFails
  BY <1>12 DEF MergeFails, MapInv, ReportNamesWhatRan
<1>13. CASE Classify
  BY <1>13 DEF Classify, Fail, Verdict, MapInv, ReportNamesWhatRan
<1>14. CASE RunShell
  BY <1>14, NoneFacts DEF RunShell, MapInv, ReportNamesWhatRan
<1>15. ASSUME at = "testing", verdict'.versions = Tested, UNCHANGED ran,
              at' \in {"held", "reply"}
       PROVE  MapInv'
  <2>1. merged \in Tips /\ ran.tree = merged
    BY <1>15 DEF TypeOK, MapInv
  <2> QED BY <1>15, <2>1, TestedFacts DEF MapInv, ReportNamesWhatRan
<1>16. CASE Timeout
  BY <1>15, <1>16 DEF Timeout, Verdict
<1>17. CASE Reply \/ ReplyIsLost
  BY <1>17, NoneFacts DEF Reply, ReplyIsLost, Leave, Merged, MapInv, ReportNamesWhatRan
<1>18. CASE CommandEnds
  BY <1>15, <1>18 DEF CommandEnds, Verdict
<1>19. CASE SurvivorsEnd
  BY <1>19 DEF SurvivorsEnd, MapInv, ReportNamesWhatRan
<1>20. CASE UNCHANGED vars
  BY <1>20 DEF vars, MapInv, ReportNamesWhatRan
<1> QED
  BY <1>1, <1>2, <1>3, <1>4, <1>5, <1>6, <1>7, <1>8, <1>9, <1>10, <1>11, <1>12,
     <1>13, <1>14, <1>16, <1>17, <1>18, <1>19, <1>20
     DEF Next, Environment, Handler, Git, Loop

(***************************************************************************)
(* What a command runs on.                                                 *)
(***************************************************************************)

LEMMA CleanStep == TypeOK /\ CleanInv /\ [Next]_vars => CleanInv'
<1> SUFFICES ASSUME TypeOK, CleanInv, [Next]_vars
             PROVE  CleanInv'
  OBVIOUS
<1> USE DEF workspace, requests, merging, history, CleanInv, RunsStartClean
<1>1. ASSUME UNCHANGED <<litter, fouled, ran>>,
             at' \in {at, "idle", "reset", "classify", "reply", "off"}
      PROVE  CleanInv'
  BY <1>1
<1>2. CASE \/ \E b \in Branches : Commit(b)
           \/ Ask \/ Redeliver \/ StartRunner \/ TakeRequest \/ SetupFails
           \/ MergeFails \/ Classify \/ SurvivorsEnd \/ UNCHANGED vars
  BY <1>1, <1>2
     DEF Commit, Ask, Redeliver, StartRunner, TakeRequest, SetupFails, Fail, MergeFails,
         Classify, SurvivorsEnd, vars
<1>3. CASE StrayWrites
  <2>1. /\ UNCHANGED <<at, ran>>
        /\ \/ UNCHANGED <<litter, fouled>>
           \/ fouled' = (at \in {"clean", "resolve", "merge", "test"})
    BY <1>3 DEF StrayWrites
  <2>2. CASE at \in {"clean", "resolve", "merge", "test"}
    BY <2>1, <2>2
  <2>3. CASE at \notin {"clean", "resolve", "merge", "test"}
    BY <2>1, <2>3
  <2> QED BY <2>2, <2>3
<1>4. CASE Shutdown \/ Reply \/ ReplyIsLost
  BY <1>4, NoneFacts DEF Shutdown, Reply, ReplyIsLost, Leave
<1>5. CASE Reset
  BY <1>5 DEF Reset
<1>6. CASE Clean
  BY <1>6 DEF Clean, TypeOK, Litter, Kinds
<1>7. CASE Resolve \/ Merge
  BY <1>7 DEF Resolve, Merge, NextBranch
<1>8. CASE RunShell
  BY <1>8 DEF RunShell
<1>9. CASE Timeout \/ CommandEnds
  BY <1>9 DEF Timeout, CommandEnds
<1> QED
  BY <1>2, <1>3, <1>4, <1>5, <1>6, <1>7, <1>8, <1>9 DEF Next, Environment, Handler, Git, Loop

(***************************************************************************)
(* How old it is.                                                          *)
(***************************************************************************)

\* What was declared stays declared when branches only move on.
LEMMA DeclaredStands ==
    ASSUME TypeOK, NEW q \in Requests, Declared(q), tip' \in Tips,
           \A b \in Branches : tip[b] <= tip'[b]
    PROVE  Declared(q)'
BY DEF Declared, TypeOK, Tips, Requests

\* An action that serves no request leaves the requests as they were, or
\* puts one more behind or before them that was declared all right.
LEMMA DeclaredSame ==
    ASSUME TypeOK, DeclaredInv,
           UNCHANGED <<tip, inbox, log, hand>>,
           UNCHANGED <<nth, sha, merged>> \/ at' = "reply",
           \/ UNCHANGED <<at, verdict>>
           \/ UNCHANGED verdict /\ at' \in {"idle", "clean", "reset", "classify", "reply", "off"}
           \/ UNCHANGED verdict /\ at = "test" /\ at' = "testing"
           \/ at' \in {"reply", "held"} /\ verdict'.versions = NoVersions
    PROVE  DeclaredInv'
BY DEF DeclaredInv, Declared, UpToDate, NothingOlderThanDeclared

LEMMA DeclaredInit == Init => DeclaredInv
<1> SUFFICES ASSUME Init
             PROVE  DeclaredInv
  OBVIOUS
<1>1. \A b \in Branches : hand.declared[b] = 0 /\ tip[b] = 1
  BY NoneFacts DEF Init, NoRequest
<1> QED BY <1>1, NoneFacts DEF Init, DeclaredInv, Declared, NothingOlderThanDeclared

LEMMA DeclaredStep == TypeOK /\ MapInv /\ DeclaredInv /\ [Next]_vars => DeclaredInv'
<1> SUFFICES ASSUME TypeOK, MapInv, DeclaredInv, [Next]_vars
             PROVE  DeclaredInv'
  OBVIOUS
<1> USE DEF workspace, requests, merging, history
<1>1. ASSUME NEW b \in Branches, Commit(b)
      PROVE  DeclaredInv'
  <2>1. tip' \in Tips
    BY <1>1, TypeStep DEF Next, Environment, TypeOK
  <2>2. \A c \in Branches : tip[c] <= tip'[c]
    BY <1>1 DEF Commit, TypeOK, Tips
  <2>3. \A q \in Requests : Declared(q) => Declared(q)'
    BY <2>1, <2>2, DeclaredStands
  <2>4. /\ hand \in Requests
        /\ \A i \in DOMAIN inbox : inbox[i] \in Requests
        /\ \A i \in DOMAIN log : log[i] \in Requests
    BY DEF TypeOK
  <2> QED BY <1>1, <2>3, <2>4
          DEF Commit, DeclaredInv, Declared, UpToDate, NothingOlderThanDeclared
<1>2. CASE Ask
  <2> DEFINE q == [n |-> Len(log) + 1, declared |-> tip]
  <2>1. Declared(q)
    <3>1. \A c \in Branches : tip[c] <= tip[c]
      BY DEF TypeOK, Tips
    <3> QED BY <3>1 DEF Declared
  <2>2. /\ inbox \in Seq(Requests) /\ log \in Seq(Requests) /\ q \in Requests
        /\ log' = Append(log, q) /\ inbox' \in {inbox, Append(inbox, q)}
    BY <1>2 DEF Ask, TypeOK, Requests
  <2> HIDE DEF q
  <2>3. ASSUME NEW s \in Seq(Requests), \A i \in DOMAIN s : Declared(s[i])
        PROVE  \A i \in DOMAIN Append(s, q) : Declared(Append(s, q)[i])
    <3>1. ASSUME NEW i \in DOMAIN Append(s, q)
          PROVE  Append(s, q)[i] = q \/ (i \in DOMAIN s /\ Append(s, q)[i] = s[i])
      BY <2>2, <3>1
    <3> QED BY <2>1, <2>3, <3>1
  <2>4. /\ \A i \in DOMAIN inbox' : Declared(inbox'[i])
        /\ \A i \in DOMAIN log' : Declared(log'[i])
    BY <2>2, <2>3 DEF DeclaredInv
  <2> QED BY <1>2, <2>4
          DEF Ask, DeclaredInv, Declared, UpToDate, NothingOlderThanDeclared
<1>3. CASE StrayWrites
  BY <1>3, DeclaredSame DEF StrayWrites
<1>4. CASE StartRunner \/ Redeliver
  <2>1. \A i \in DOMAIN inbox' : Declared(inbox'[i])
    BY <1>4, RefillFacts DEF DeclaredInv
  <2>2. UNCHANGED <<tip, log, hand, merging, verdict>> /\ (at' = at \/ at' = "idle")
    BY <1>4 DEF StartRunner, Redeliver
  <2> QED BY <2>1, <2>2
          DEF DeclaredInv, Declared, UpToDate, NothingOlderThanDeclared
<1>5. CASE Shutdown \/ Reply \/ ReplyIsLost
  <2>1. /\ hand' = NoRequest /\ verdict' = NoVerdict /\ at' \in {"idle", "off"}
        /\ UNCHANGED <<tip, log>> /\ inbox' \in {inbox, <<>>}
    BY <1>5 DEF Shutdown, Reply, ReplyIsLost, Leave
  <2>2. Declared(hand)' /\ verdict'.versions = NoVersions
    BY <2>1, NoneFacts DEF Declared, NoRequest, TypeOK, Tips
  <2> QED BY <2>1, <2>2 DEF DeclaredInv, Declared, UpToDate, NothingOlderThanDeclared
<1>6. CASE TakeRequest
  <2>1. /\ inbox \in Seq(Requests) /\ inbox # <<>>
        /\ \A i \in DOMAIN inbox : Declared(inbox[i])
    BY <1>6 DEF TakeRequest, TypeOK, DeclaredInv
  <2>2. Declared(Head(inbox)) /\ \A i \in DOMAIN Tail(inbox) : Declared(Tail(inbox)[i])
    BY <2>1
  <2>3. verdict'.versions = NoVersions
    BY <1>6, NoneFacts DEF TakeRequest, MapInv
  <2> QED BY <1>6, <2>2, <2>3
          DEF TakeRequest, DeclaredInv, Declared, UpToDate, NothingOlderThanDeclared
<1>7. CASE Reset
  BY <1>7, DeclaredSame DEF Reset
<1>8. CASE Clean
  <2>1. nth = 1
    BY <1>8 DEF Clean, MapInv
  <2> QED BY <1>8, <2>1 DEF Clean, DeclaredInv, Declared, UpToDate, NothingOlderThanDeclared
<1>9. CASE Resolve
  <2>1. tip[Branch(nth)] >= hand.declared[Branch(nth)]
    BY ScenarioFacts DEF TypeOK, DeclaredInv, Declared, Tips, Requests
  <2> QED BY <1>9, <2>1
          DEF Resolve, DeclaredInv, Declared, UpToDate, NothingOlderThanDeclared
<1>10. CASE SetupFails
  BY <1>10, DeclaredSame DEF SetupFails, Fail, Verdict
<1>11. CASE Merge
  <2>1. nth \in 1 .. Count /\ merged \in Tips /\ \A j \in 1 .. Count : Branch(j) \in Branches
    BY ScenarioFacts DEF TypeOK
  <2>2. \A j \in 1 .. nth : merged'[Branch(j)] >= hand.declared[Branch(j)]
    <3>1. /\ \A j \in 1 .. nth - 1 : merged[Branch(j)] >= hand.declared[Branch(j)]
          /\ sha >= hand.declared[Branch(nth)]
          /\ merged' = [merged EXCEPT ![Branch(nth)] = sha]
      BY <1>11 DEF Merge, DeclaredInv, UpToDate
    <3>2. ASSUME NEW j \in 1 .. nth
          PROVE  merged'[Branch(j)] >= hand.declared[Branch(j)]
      <4>1. CASE Branch(j) = Branch(nth)
        BY <4>1, <3>1, <2>1 DEF Tips
      <4>2. CASE Branch(j) # Branch(nth)
        <5>1. j \in 1 .. nth - 1
          BY <4>2, <2>1
        <5>2. merged'[Branch(j)] = merged[Branch(j)]
          BY <4>2, <3>1, <2>1 DEF Tips
        <5> QED BY <5>1, <5>2, <3>1
      <4> QED BY <4>1, <4>2
    <3> QED BY <3>2
  <2>3. \/ at' = "resolve" /\ nth' = nth + 1
        \/ at' = "test" /\ nth = Count
    BY <1>11, <2>1, ScenarioFacts DEF Merge, NextBranch
  <2>4. nth' - 1 = nth \/ at' = "test"
    BY <2>3, <2>1
  <2> QED BY <1>11, <2>2, <2>3, <2>4
          DEF Merge, DeclaredInv, Declared, UpToDate, NothingOlderThanDeclared
<1>12. CASE MergeFails
  BY <1>12, DeclaredSame DEF MergeFails
<1>13. CASE Classify
  BY <1>13, DeclaredSame DEF Classify, Fail, Verdict
<1>14. CASE RunShell
  BY <1>14, DeclaredSame DEF RunShell
<1>15. CASE Timeout \/ CommandEnds
  <2>1. /\ verdict'.versions = Tested /\ at' \in {"reply", "held"} /\ at = "testing"
        /\ UNCHANGED <<tip, inbox, log, hand>>
    BY <1>15, EndFacts
  <2>2. \A j \in 1 .. Count :
            Tested[Scenario.agents[j].name] >= hand.declared[Branch(j)]
    BY <2>1, TestedFacts DEF TypeOK, DeclaredInv, UpToDate
  <2> QED BY <2>1, <2>2 DEF DeclaredInv, Declared, UpToDate, NothingOlderThanDeclared
<1>16. CASE SurvivorsEnd
  BY <1>16, DeclaredSame DEF SurvivorsEnd
<1>17. CASE UNCHANGED vars
  BY <1>17, DeclaredSame DEF vars
<1> QED
  BY <1>1, <1>2, <1>3, <1>4, <1>5, <1>6, <1>7, <1>8, <1>9, <1>10, <1>11, <1>12,
     <1>13, <1>14, <1>15, <1>16, <1>17 DEF Next, Environment, Handler, Git, Loop

(***************************************************************************)
(* What a failure is called.                                               *)
(***************************************************************************)

LEMMA CauseStep == TypeOK /\ MapInv /\ CauseInv /\ [Next]_vars => CauseInv'
<1> SUFFICES ASSUME TypeOK, MapInv, CauseInv, [Next]_vars
             PROVE  CauseInv'
  OBVIOUS
<1> USE DEF workspace, requests, merging, history, CauseInv, FailureNamesItsCause
<1>1. CASE (\E b \in Branches : Commit(b)) \/ Ask \/ Redeliver \/ StrayWrites \/ UNCHANGED vars
  BY <1>1 DEF Commit, Ask, Redeliver, StrayWrites, vars
<1>2. CASE Shutdown \/ Reply \/ ReplyIsLost
  <2>1. at' \in {"idle", "off"} /\ verdict' = NoVerdict /\ struck' = Struck("none", FALSE)
    BY <1>2 DEF Shutdown, Reply, ReplyIsLost, Leave
  <2>2. struck'.cause = "none"
    BY <2>1 DEF Struck
  <2> QED BY <2>1, <2>2, NoneFacts
<1>3. CASE StartRunner
  BY <1>3 DEF StartRunner, MapInv
<1>4. CASE TakeRequest
  BY <1>4 DEF TakeRequest
<1>5. CASE Reset \/ Clean \/ Resolve \/ RunShell
  BY <1>5 DEF Reset, Clean, Resolve, RunShell
<1>6. CASE SetupFails
  BY <1>6 DEF SetupFails, Fail, Verdict
<1>7. CASE Merge
  BY <1>7 DEF Merge, NextBranch
<1>8. CASE MergeFails
  <2>1. /\ at = "merge" /\ at' = "classify" /\ ~unmerged /\ verdict' = NoVerdict
        /\ \/ unmerged' = TRUE /\ \E says \in BOOLEAN : struck' = Struck("conflict", says)
           \/ unmerged' = FALSE /\ struck' = Struck("other", FALSE)
    <3>1. at = "merge" /\ ~unmerged /\ unmerged = FALSE /\ verdict = NoVerdict
      BY <1>8 DEF MergeFails, MapInv, TypeOK
    <3>2. at' = "classify" /\ verdict' = verdict
      BY <1>8 DEF MergeFails
    <3>3. \/ unmerged' = TRUE /\ \E says \in BOOLEAN : struck' = Struck("conflict", says)
          \/ unmerged' = unmerged /\ struck' = Struck("other", FALSE)
      BY <1>8 DEF MergeFails
    <3> QED BY <3>1, <3>2, <3>3
  <2> QED BY <2>1, NoneFacts DEF Struck
<1>9. CASE Classify
  <2>1. PICK works \in BOOLEAN :
            /\ Fail(Detail(struck.seen \/ (works /\ unmerged)))
            /\ struck' = [struck EXCEPT !.seen = @ \/ works]
    BY <1>9 DEF Classify
  <2>2. struck'.cause = struck.cause /\ struck'.seen = (struck.seen \/ works)
    BY <2>1 DEF TypeOK
  <2>3. (struck.cause = "conflict" <=> unmerged) /\ (struck.seen => unmerged)
    BY <1>9 DEF Classify, TypeOK
  <2>4. at' = "reply" /\ verdict'.detail = Detail(struck.seen \/ (works /\ unmerged))
    BY <2>1 DEF Fail, Verdict
  <2> QED BY <2>2, <2>3, <2>4 DEF Detail
<1>10. CASE Timeout \/ CommandEnds
  BY <1>10, EndFacts
<1>11. CASE SurvivorsEnd
  BY <1>11 DEF SurvivorsEnd
<1> QED
  BY <1>1, <1>2, <1>3, <1>4, <1>5, <1>6, <1>7, <1>8, <1>9, <1>10, <1>11
     DEF Next, Environment, Handler, Git, Loop

(***************************************************************************)
(* The invariant and what follows from it.                                 *)
(***************************************************************************)

LEMMA InvInit == Init => RunnerInv
<1>1. Init => CleanInv /\ CauseInv
  BY NoneFacts DEF Init, CleanInv, RunsStartClean, CauseInv, FailureNamesItsCause, Struck
<1> QED BY <1>1, TypeInit, MapInit, DeclaredInit DEF RunnerInv

LEMMA InvStep == RunnerInv /\ [Next]_vars => RunnerInv'
BY TypeStep, MapStep, CleanStep, DeclaredStep, CauseStep DEF RunnerInv

\* The conjunction of what the runner keeps true at every step
\* (rungate.go:118).
THEOREM InvCorrect == Spec => []RunnerInv
<1> QED BY InvInit, InvStep, PTL DEF Spec

\* A verdict names the commits that were in the worktree when the command
\* ran, whatever the agents commit meanwhile (rungate.go:139).
THEOREM ReportTruthful == Spec => []ReportNamesWhatRan
<1>1. RunnerInv => ReportNamesWhatRan
  BY DEF RunnerInv, MapInv
<1> QED BY <1>1, InvCorrect, PTL

\* What is tested is no older than what was declared (rungate.go:109).
THEOREM NothingOlder == Spec => []NothingOlderThanDeclared
<1>1. RunnerInv => NothingOlderThanDeclared
  BY DEF RunnerInv, DeclaredInv
<1> QED BY <1>1, InvCorrect, PTL

\* A command runs on main and the branches; of what an earlier run left it
\* sees no more than the ignored files and nested repositories that git clean
\* keeps (rungate.go:122).  What is written after the reset, by something that
\* still runs there, is not counted: see RunShell.
THEOREM StartsClean == Spec => []RunsStartClean
<1>1. RunnerInv => RunsStartClean
  BY DEF RunnerInv, CleanInv
<1> QED BY <1>1, InvCorrect, PTL

\* A conflict is reported if and only if one was seen (rungate.go:155).
THEOREM CauseNamed == Spec => []FailureNamesItsCause
<1>1. RunnerInv => FailureNamesItsCause
  BY DEF RunnerInv, CauseInv
<1> QED BY <1>1, InvCorrect, PTL

(***************************************************************************)
(* What an answer names, and that the runner does not go back.             *)
(***************************************************************************)

Floors == [1 .. Count -> 0 .. MaxTip]

\* The actions that neither merge nor report a commit.
LEMMA FloorSame ==
    ASSUME NEW floor, AtLeast(floor), UNCHANGED tip,
           UNCHANGED verdict \/ verdict'.versions = NoVersions,
           \/ at' \notin {"resolve", "merge", "test", "testing"}
           \/ UNCHANGED <<at, nth, sha, merged>>
           \/ at = "test" /\ at' = "testing" /\ UNCHANGED merged
           \/ at' = "resolve" /\ nth' = 1
    PROVE  AtLeast(floor)'
BY DEF AtLeast, Of

\* A branch has one more merged commit, none older than it was resolved to.
LEMMA MergeFacts ==
    ASSUME TypeOK, Merge
    PROVE  /\ nth \in 1 .. Count
           /\ merged'[Branch(nth)] = sha
           /\ \A b \in Branches : merged'[b] = merged[b] \/ merged'[b] = sha
           /\ \A j \in 1 .. Count : Branch(j) # Branch(nth) => merged'[Branch(j)] = merged[Branch(j)]
           /\ \/ at' = "resolve" /\ nth' = nth + 1
              \/ at' = "test" /\ nth = Count
<1>1. nth \in 1 .. Count /\ merged \in Tips /\ \A j \in 1 .. Count : Branch(j) \in Branches
  BY ScenarioFacts DEF TypeOK
<1>2. merged' = [merged EXCEPT ![Branch(nth)] = sha]
  BY DEF Merge
<1>3. \/ at' = "resolve" /\ nth' = nth + 1
      \/ at' = "test" /\ nth = Count
  BY <1>1, ScenarioFacts DEF Merge, NextBranch
<1> QED BY <1>1, <1>2, <1>3 DEF Tips

\* No two participants share a branch.
LEMMA BranchFacts ==
    \A i, j \in 1 .. Count : Branch(i) = Branch(j) => i = j
<1> SUFFICES ASSUME NEW i \in 1 .. Count, NEW j \in 1 .. Count, i # j
             PROVE  Branch(i) # Branch(j)
  OBVIOUS
<1> DEFINE all == Append(Scenario.agents, Scenario.runner)
<1>1. /\ i \in DOMAIN all /\ j \in DOMAIN all
      /\ all[i] = Scenario.agents[i] /\ all[j] = Scenario.agents[j]
  BY AgentsAssumption DEF Count
<1>2. \A m, n \in DOMAIN all : m # n => all[m].branch # all[n].branch
  BY ScenarioAssumption DEF Validate
<1> HIDE DEF all
<1> QED BY <1>1, <1>2 DEF Branch

LEMMA FloorStep ==
    ASSUME NEW floor \in Floors, TypeOK, MapInv, AtLeast(floor), [Next]_vars
    PROVE  AtLeast(floor)'
<1> USE DEF workspace, requests, merging, history
<1>0. \A k \in 1 .. Count : floor[k] \in Nat /\ floor[k] <= tip[Branch(k)]
  BY MaxTipAssumption DEF Floors, AtLeast
<1>1. ASSUME NEW b \in Branches, Commit(b)
      PROVE  AtLeast(floor)'
  <2>1. \A c \in Branches : tip[c] \in Nat /\ tip'[c] \in Nat /\ tip[c] <= tip'[c]
    BY <1>1, MaxTipAssumption DEF Commit, TypeOK, Tips
  <2>2. \A k \in 1 .. Count : floor[k] <= tip'[Branch(k)]
    BY <1>0, <2>1, ScenarioFacts
  <2> QED BY <1>1, <2>2 DEF Commit, AtLeast, Of
<1>2. CASE \/ Ask \/ Redeliver \/ StrayWrites \/ Shutdown \/ StartRunner
           \/ TakeRequest \/ Reset
  BY <1>2, FloorSame, NoneFacts
     DEF Ask, Redeliver, StrayWrites, Shutdown, StartRunner, TakeRequest, Reset, Leave
<1>3. CASE Clean
  BY <1>3, FloorSame DEF Clean, MapInv
<1>4. CASE Resolve
  BY <1>0, <1>4 DEF Resolve, AtLeast, Of, TypeOK
<1>5. CASE SetupFails \/ Classify
  BY <1>5, FloorSame DEF SetupFails, Classify, Fail, Verdict
<1>6. CASE Merge
  <2>1. \A k \in 1 .. nth : merged'[Branch(k)] >= floor[k]
    <3>1. /\ \A k \in 1 .. nth - 1 : merged[Branch(k)] >= floor[k]
          /\ sha >= floor[nth]
      BY <1>6 DEF Merge, AtLeast
    <3>2. ASSUME NEW k \in 1 .. nth, k # nth
          PROVE  /\ k \in 1 .. nth - 1
                 /\ merged'[Branch(k)] = merged[Branch(k)]
      <4>1. k \in 1 .. Count /\ nth \in 1 .. Count /\ k \in 1 .. nth - 1
        BY <1>6, <3>2, MergeFacts, ScenarioFacts
      <4>2. Branch(k) # Branch(nth)
        BY <3>2, <4>1, BranchFacts
      <4> QED BY <1>6, <4>1, <4>2, MergeFacts
    <3> QED BY <1>6, <3>1, <3>2, MergeFacts
  <2>2. (at' = "resolve" /\ nth' - 1 = nth) \/ (at' = "test" /\ nth = Count)
    BY <1>6, MergeFacts
  <2> QED BY <1>6, <2>1, <2>2 DEF Merge, AtLeast, Of
<1>7. CASE MergeFails \/ RunShell \/ SurvivorsEnd \/ Reply \/ ReplyIsLost
  BY <1>7, FloorSame, NoneFacts
     DEF MergeFails, RunShell, SurvivorsEnd, Reply, ReplyIsLost, Leave
<1>8. CASE Timeout \/ CommandEnds
  <2>1. /\ verdict'.versions = Tested /\ at' \in {"reply", "held"} /\ at = "testing"
        /\ UNCHANGED tip
    BY <1>8, EndFacts
  <2>2. \A k \in 1 .. Count : Tested[Scenario.agents[k].name] >= floor[k]
    BY <2>1, TestedFacts DEF TypeOK, AtLeast
  <2> QED BY <2>1, <2>2 DEF AtLeast, Of
<1>9. CASE UNCHANGED vars
  BY <1>9, FloorSame DEF vars
<1> QED
  BY <1>1, <1>2, <1>3, <1>4, <1>5, <1>6, <1>7, <1>8, <1>9
     DEF Next, Environment, Handler, Git, Loop

\* Every version map in the runner's hands gives each participant a commit.
LEMMA ReportedType ==
    ASSUME TypeOK, answer.versions # NoVersions
    PROVE  Reported \in Floors
<1>1. answer.versions \in [Names -> 0 .. MaxTip]
  BY DEF TypeOK, Answers
<1> QED BY <1>1, ScenarioFacts DEF Reported, Of, Floors

\* The actions that leave the inbox, the request and the answer alone.
LEMMA Untouched ==
    ASSUME [Next]_vars
    PROVE  /\ ~Reply => UNCHANGED answer
           /\ ~Ask => UNCHANGED log
           /\ \/ Ask \/ Redeliver \/ Shutdown \/ StartRunner \/ TakeRequest \/ Reply
              \/ ReplyIsLost \/ UNCHANGED <<inbox, log, again, hand>>
           /\ \/ Shutdown \/ StartRunner \/ TakeRequest \/ Reply \/ ReplyIsLost
              \/ /\ UNCHANGED hand /\ (at = "off" <=> at' = "off")
                 /\ at \in {"idle", "off"} <=> at' \in {"idle", "off"}
<1> USE DEF workspace, requests, merging, history
<1>1. ASSUME NEW b \in Branches, Commit(b) PROVE UNCHANGED <<answer, inbox, log, again, hand, at>>
  BY <1>1 DEF Commit
<1>2. CASE StrayWrites \/ UNCHANGED vars
  BY <1>2 DEF StrayWrites, vars
<1>3. CASE Ask \/ Redeliver \/ Shutdown \/ StartRunner \/ TakeRequest \/ Reply \/ ReplyIsLost
  BY <1>3 DEF Ask, Redeliver, Shutdown, StartRunner, TakeRequest, Reply, ReplyIsLost
<1>4. CASE Reset \/ Clean \/ Resolve \/ SetupFails
  BY <1>4 DEF Reset, Clean, Resolve, SetupFails, Fail
<1>5. CASE Merge \/ MergeFails \/ Classify
  BY <1>5 DEF Merge, NextBranch, MergeFails, Classify, Fail
<1>6. CASE RunShell \/ Timeout \/ CommandEnds \/ SurvivorsEnd
  BY <1>6 DEF RunShell, Timeout, CommandEnds, SurvivorsEnd
<1> QED
  BY <1>1, <1>2, <1>3, <1>4, <1>5, <1>6 DEF Next, Environment, Handler, Git, Loop

LEMMA CommitInit == Init => CommitInv
<1> SUFFICES ASSUME Init PROVE CommitInv
  OBVIOUS
<1>1. \A b \in Branches : merged[b] = 0 /\ tip[b] = 1
  BY NoneFacts DEF Init
<1>2. AtLeast([k \in 1 .. Count |-> 1])
  BY <1>1, NoneFacts, ScenarioFacts DEF Init, AtLeast
<1>3. answer.versions = NoVersions /\ ~answer.passed
  BY NoneFacts DEF Init, Answer
<1> QED BY <1>1, <1>2, <1>3, NoneFacts DEF Init, CommitInv

\* The actions that neither merge nor report a commit.
LEMMA CommitSame ==
    ASSUME TypeOK, \A b \in Branches : merged[b] <= tip[b], UNCHANGED tip,
           UNCHANGED merged \/ merged' = None,
           UNCHANGED verdict \/ verdict'.versions = NoVersions,
           verdict.versions # NoVersions =>
               \A k \in 1 .. Count : Of(verdict, k) <= tip[Branch(k)],
           at' # "merge"
    PROVE  /\ \A b \in Branches : merged'[b] <= tip'[b]
           /\ at' = "merge" => sha' <= tip'[Branch(nth')]
           /\ verdict'.versions # NoVersions =>
                  \A k \in 1 .. Count : Of(verdict', k) <= tip'[Branch(k)]
<1>1. \A b \in Branches : tip[b] \in Nat
  BY DEF TypeOK, Tips
<1>2. \A b \in Branches : merged'[b] <= tip'[b]
  <2>1. CASE UNCHANGED merged
    BY <2>1
  <2>2. CASE merged' = None
    BY <1>1, <2>2, NoneFacts
  <2> QED BY <2>1, <2>2
<1>3. ASSUME verdict'.versions # NoVersions, NEW k \in 1 .. Count
      PROVE  Of(verdict', k) <= tip'[Branch(k)]
  <2>1. UNCHANGED verdict
    BY <1>3
  <2> QED BY <1>3, <2>1 DEF Of
<1> QED BY <1>2, <1>3

LEMMA CommitStep == TypeOK /\ MapInv /\ CommitInv /\ [Next]_vars => CommitInv'
<1> SUFFICES ASSUME TypeOK, MapInv, CommitInv, [Next]_vars
             PROVE  CommitInv'
  OBVIOUS
<1> DEFINE Old ==
               /\ \A b \in Branches : merged[b] <= tip[b]
               /\ at = "merge" => sha <= tip[Branch(nth)]
               /\ verdict.versions # NoVersions =>
                      \A k \in 1 .. Count : Of(verdict, k) <= tip[Branch(k)]
           Some == [k \in 1 .. Count |-> 1]
<1>0. /\ Old /\ AtLeast(Some)
      /\ answer.versions # NoVersions =>
             AtLeast(Reported) /\ \A k \in 1 .. Count : Reported[k] >= 1
      /\ answer.passed => answer.versions # NoVersions
  BY DEF CommitInv
<1>1. Old'
  <2> USE DEF workspace, requests, merging, history
  <2>1. ASSUME NEW b \in Branches, Commit(b)
        PROVE  Old'
    <3>1. \A c \in Branches : tip[c] \in Nat /\ tip'[c] \in Nat /\ tip[c] <= tip'[c]
                              /\ merged[c] \in Nat
      BY <2>1, MaxTipAssumption DEF Commit, TypeOK, Tips
    <3>2. \A c \in Branches : merged[c] <= tip'[c]
      BY <1>0, <3>1
    <3>3. nth \in 1 .. Count /\ sha \in Nat
      BY MaxTipAssumption DEF TypeOK
    <3>4. at = "merge" => sha <= tip'[Branch(nth)]
      BY <1>0, <3>1, <3>3, ScenarioFacts
    <3>5. verdict.versions # NoVersions =>
              \A k \in 1 .. Count : Of(verdict, k) \in Nat
      <4>1. verdict.versions # NoVersions => verdict.versions \in [Names -> 0 .. MaxTip]
        BY DEF TypeOK, AllVerdicts
      <4> QED BY <4>1, ScenarioFacts, MaxTipAssumption DEF Of
    <3>6. verdict.versions # NoVersions =>
              \A k \in 1 .. Count : Of(verdict, k) <= tip'[Branch(k)]
      BY <1>0, <3>1, <3>5, ScenarioFacts
    <3> QED BY <2>1, <3>2, <3>4, <3>6 DEF Commit, Of
  <2>2. CASE Ask \/ Redeliver \/ StrayWrites
    BY <1>0, <2>2 DEF Ask, Redeliver, StrayWrites, Of
  <2>3. CASE Shutdown \/ StartRunner \/ TakeRequest \/ Reset \/ Clean
    BY <1>0, <2>3, CommitSame, NoneFacts
       DEF Shutdown, StartRunner, TakeRequest, Reset, Clean, Leave, Merged, Of
  <2>9. CASE SetupFails \/ Classify
    BY <1>0, <2>9, CommitSame DEF SetupFails, Classify, Fail, Merged, Verdict, Of
  <2>4. CASE Resolve
    BY <1>0, <2>4, ScenarioFacts, MaxTipAssumption DEF Resolve, Of, TypeOK, Tips
  <2>5. CASE Merge
    <3>1. \A b \in Branches : merged'[b] <= tip[b]
      <4>1. ASSUME NEW b \in Branches PROVE merged'[b] <= tip[b]
        <5>1. CASE b = Branch(nth)
          BY <1>0, <2>5, <5>1, MergeFacts DEF Merge
        <5>2. CASE b # Branch(nth)
          BY <1>0, <2>5, <5>2 DEF Merge, TypeOK, Tips
        <5> QED BY <5>1, <5>2
      <4> QED BY <4>1
    <3>2. at' # "merge"
      BY <2>5, MergeFacts
    <3> QED BY <1>0, <2>5, <3>1, <3>2 DEF Merge, Of
  <2>6. CASE MergeFails \/ RunShell \/ SurvivorsEnd \/ Reply \/ ReplyIsLost
    BY <1>0, <2>6, CommitSame, NoneFacts
       DEF MergeFails, RunShell, SurvivorsEnd, Reply, ReplyIsLost, Leave, Merged, Of
  <2>7. CASE Timeout \/ CommandEnds
    <3>1. /\ verdict'.versions = Tested /\ at' \in {"reply", "held"} /\ at = "testing"
          /\ UNCHANGED tip /\ merged' = None
      BY <2>7, EndFacts DEF Merged
    <3>2. \A k \in 1 .. Count : Tested[Scenario.agents[k].name] <= tip[Branch(k)]
      BY <1>0, TestedFacts, ScenarioFacts DEF TypeOK
    <3>3. \A b \in Branches : merged'[b] <= tip'[b]
      BY <3>1, NoneFacts DEF TypeOK, Tips
    <3> QED BY <1>0, <3>1, <3>2, <3>3 DEF Of
  <2>8. CASE UNCHANGED vars
    BY <1>0, <2>8 DEF vars, Of
  <2> QED
    BY <2>1, <2>2, <2>3, <2>4, <2>5, <2>6, <2>7, <2>8, <2>9
       DEF Next, Environment, Handler, Git, Loop
<1> HIDE DEF Old
<1>2. AtLeast(Some)'
  <2>1. Some \in Floors
    BY MaxTipAssumption DEF Floors
  <2> HIDE DEF Some
  <2> QED BY <1>0, <2>1, FloorStep
<1>3. CASE ~Reply
  <2>1. UNCHANGED answer
    BY <1>3, Untouched
  <2>2. answer'.versions # NoVersions =>
            AtLeast(Reported)' /\ \A k \in 1 .. Count : Reported'[k] >= 1
    <3> SUFFICES ASSUME answer'.versions # NoVersions
                 PROVE  AtLeast(Reported)' /\ \A k \in 1 .. Count : Reported'[k] >= 1
      OBVIOUS
    <3>1. Reported \in Floors /\ AtLeast(Reported) /\ Reported' = Reported
      BY <1>0, <2>1, ReportedType DEF Reported, Of
    <3>2. PICK f \in Floors : f = Reported
      BY <3>1
    <3>3. AtLeast(f)
      BY <3>1, <3>2
    <3>4. AtLeast(f)'
      BY <3>3, FloorStep
    <3>5. f = Reported'
      BY <3>1, <3>2
    <3>6. AtLeast(Reported)'
      BY <3>4, <3>5 DEF AtLeast
    <3> QED BY <1>0, <2>1, <3>1, <3>6
  <2> QED BY <1>0, <1>1, <1>2, <2>1, <2>2 DEF CommitInv, Old
<1>4. CASE Reply
  <2>1. /\ answer'.versions = verdict.versions /\ answer'.passed = verdict.passed
        /\ at = "reply" /\ at' = "idle" /\ UNCHANGED tip
        /\ verdict'.versions = NoVersions
    <3>1. hand.n \in Nat /\ verdict \in AllVerdicts
      BY DEF TypeOK, Requests
    <3> QED BY <1>4, <3>1, NoneFacts, AnswerFacts DEF Reply, Leave
  <2>2. answer'.versions # NoVersions =>
            \A k \in 1 .. Count : Reported'[k] <= tip'[Branch(k)] /\ Reported'[k] >= 1
    BY <1>0, <2>1 DEF Reported, Of, Old, AtLeast
  <2>3. answer'.versions # NoVersions => AtLeast(Reported)'
    BY <2>1, <2>2 DEF AtLeast
  <2>4. answer'.passed => answer'.versions # NoVersions
    BY <2>1 DEF MapInv, ReportNamesWhatRan
  <2> QED BY <1>1, <1>2, <2>2, <2>3, <2>4 DEF CommitInv, Old
<1> QED BY <1>3, <1>4

\* What is served and what waits are requests that were asked.
LEMMA TurnInit == Init => AskedInv /\ TurnInv
<1> SUFFICES ASSUME Init PROVE AskedInv /\ TurnInv
  OBVIOUS
<1>1. answer.n = 0 /\ hand = NoRequest /\ at = "idle" /\ inbox = <<>> /\ log = <<>>
  BY NoneFacts, AnswerFacts DEF Init
<1> QED BY <1>1 DEF AskedInv, TurnInv

LEMMA NumberFacts ==
    ASSUME TypeOK
    PROVE  /\ inbox \in Seq(Requests) /\ log \in Seq(Requests) /\ hand \in Requests
           /\ DOMAIN log = 1 .. Len(log) /\ Len(log) \in Nat
           /\ hand.n \in Nat /\ answer.n \in Nat /\ again \in Nat /\ NoRequest.n = 0
           /\ \A i \in DOMAIN inbox : inbox[i] \in Requests /\ inbox[i].n \in Nat
<1>1. \A q \in Requests : q.n \in Nat
  BY DEF Requests
<1>2. /\ inbox \in Seq(Requests) /\ \A i \in DOMAIN inbox : inbox[i] \in Requests
      /\ log \in Seq(Requests) /\ DOMAIN log = 1 .. Len(log) /\ Len(log) \in Nat
  BY DEF TypeOK
<1>3. answer.n \in Nat /\ hand \in Requests /\ again \in Nat
  BY DEF TypeOK, Answers
<1> QED BY <1>1, <1>2, <1>3 DEF NoRequest

LEMMA AskedStep == TypeOK /\ AskedInv /\ [Next]_vars => AskedInv'
<1> SUFFICES ASSUME TypeOK, AskedInv, [Next]_vars
             PROVE  AskedInv'
  OBVIOUS
<1> USE DEF workspace, requests, merging, history
<1>1. CASE Ask
  <2> DEFINE q == [n |-> Len(log) + 1, declared |-> tip]
  <2>1. /\ log' = Append(log, q) /\ inbox' \in {inbox, Append(inbox, q)}
        /\ (at = "off" => inbox' = inbox)
        /\ q.n = Len(log) + 1 /\ q \in Requests /\ UNCHANGED <<hand, at, answer>>
    BY <1>1 DEF Ask, TypeOK, Requests
  <2> HIDE DEF q
  <2>2. DOMAIN log' = 1 .. Len(log) + 1 /\ Len(log') = Len(log) + 1
    BY <2>1, NumberFacts
  <2>3. ASSUME NEW i \in DOMAIN log' PROVE log'[i].n = i
    <3>1. CASE i = Len(log) + 1
      BY <2>1, <3>1, NumberFacts
    <3>2. CASE i # Len(log) + 1
      <4>1. i \in DOMAIN log /\ log'[i] = log[i]
        BY <2>1, <2>2, <3>2, NumberFacts
      <4> QED BY <4>1 DEF AskedInv
    <3> QED BY <3>1, <3>2
  <2>4. ASSUME NEW i \in DOMAIN inbox' PROVE inbox'[i].n \in DOMAIN log'
    <3>1. inbox'[i] = q \/ (i \in DOMAIN inbox /\ inbox'[i] = inbox[i])
      BY <2>1, NumberFacts
    <3>2. \A j \in DOMAIN inbox : inbox[j].n \in 1 .. Len(log)
      BY NumberFacts DEF AskedInv
    <3> QED BY <2>1, <2>2, <3>1, <3>2, NumberFacts
  <2>5. (hand # NoRequest => hand.n \in DOMAIN log') /\ answer.n <= Len(log')
    BY <2>2, NumberFacts DEF AskedInv
  <2> QED BY <2>1, <2>3, <2>4, <2>5 DEF AskedInv
<1>2. CASE Redeliver \/ StartRunner
  <2>1. \A i \in DOMAIN inbox' : inbox'[i].n \in DOMAIN log
    BY <1>2, RefillFacts DEF AskedInv
  <2>2. /\ UNCHANGED <<log, hand, answer>>
        /\ (at' = at /\ at # "off") \/ (at = "off" /\ at' = "idle")
    BY <1>2 DEF Redeliver, StartRunner
  <2> QED BY <2>1, <2>2 DEF AskedInv
<1>3. CASE TakeRequest
  <2>1. /\ hand' = inbox[1] /\ at' = "reset" /\ UNCHANGED <<log, answer>>
        /\ 1 \in DOMAIN inbox /\ inbox' = Tail(inbox)
    BY <1>3, NumberFacts DEF TakeRequest
  <2>2. \A i \in DOMAIN inbox' : i + 1 \in DOMAIN inbox /\ inbox'[i] = inbox[i + 1]
    BY <2>1, NumberFacts
  <2>3. hand'.n \in DOMAIN log /\ hand' # NoRequest
    <3>1. hand'.n \in 1 .. Len(log)
      BY <2>1, NumberFacts DEF AskedInv
    <3> QED BY <3>1, NumberFacts
  <2> QED BY <2>1, <2>2, <2>3 DEF AskedInv
<1>4. CASE Shutdown \/ Reply \/ ReplyIsLost
  <2>1. /\ hand' = NoRequest /\ at' \in {"idle", "off"} /\ UNCHANGED log
        /\ inbox' \in {inbox, <<>>} /\ (at' = "off" => inbox' = <<>>)
    BY <1>4 DEF Shutdown, Reply, ReplyIsLost, Leave
  <2>2. answer'.n <= Len(log)
    <3>1. CASE ~Reply
      BY <3>1, Untouched DEF AskedInv
    <3>2. CASE Reply
      <4>1. answer'.n = hand.n /\ at = "reply"
        BY <3>2, NumberFacts, AnswerFacts DEF Reply, TypeOK
      <4> QED BY <4>1, NumberFacts DEF AskedInv
    <3> QED BY <3>1, <3>2
  <2> QED BY <2>1, <2>2 DEF AskedInv
<1>5. CASE ~Ask /\ ~Redeliver /\ ~StartRunner /\ ~TakeRequest
           /\ ~Shutdown /\ ~Reply /\ ~ReplyIsLost
  <2>1. /\ UNCHANGED <<inbox, log, hand, answer>>
        /\ (at = "off" <=> at' = "off")
        /\ at \in {"idle", "off"} <=> at' \in {"idle", "off"}
    BY <1>5, Untouched
  <2> QED BY <2>1 DEF AskedInv
<1> QED BY <1>1, <1>2, <1>3, <1>4, <1>5

LEMMA TurnStep == TypeOK /\ AskedInv /\ TurnInv /\ [Next]_vars => TurnInv'
<1> SUFFICES ASSUME TypeOK, AskedInv, TurnInv, [Next]_vars, again' = 0
             PROVE  TurnInv'
  BY DEF TurnInv, NoneRepeated
<1> USE DEF workspace, requests, merging, history
<1>0. ~Redeliver /\ ~StartRunner
  BY NumberFacts DEF Redeliver, StartRunner
<1>1. again = 0
  <2>1. CASE Ask \/ Shutdown \/ TakeRequest \/ Reply \/ ReplyIsLost
    BY <2>1 DEF Ask, Shutdown, TakeRequest, Reply, ReplyIsLost
  <2> QED BY <1>0, <2>1, Untouched
<1>2. /\ hand # NoRequest => hand.n > answer.n
      /\ \A i \in DOMAIN inbox : inbox[i].n > answer.n /\ inbox[i].n > hand.n
      /\ \A i, j \in DOMAIN inbox : i < j => inbox[i].n < inbox[j].n
  BY <1>1 DEF TurnInv, NoneRepeated
<1>3. CASE Ask
  <2> DEFINE q == [n |-> Len(log) + 1, declared |-> tip]
  <2>1. /\ inbox' \in {inbox, Append(inbox, q)} /\ UNCHANGED <<hand, answer>>
        /\ q.n = Len(log) + 1 /\ q \in Requests
    BY <1>3 DEF Ask, TypeOK, Requests
  <2> HIDE DEF q
  <2>2. CASE inbox' = inbox
    BY <1>2, <2>1, <2>2 DEF TurnInv
  <2>3. CASE inbox' = Append(inbox, q)
    <3>1. /\ \A i \in DOMAIN inbox : i \in DOMAIN inbox' /\ inbox'[i] = inbox[i]
          /\ \A i \in DOMAIN inbox' :
                 \/ i \in DOMAIN inbox
                 \/ inbox'[i] = q /\ \A j \in DOMAIN inbox' : ~(i < j)
      BY <2>1, <2>3, NumberFacts
    <3>2. /\ q.n > answer.n /\ q.n > hand.n
          /\ \A i \in DOMAIN inbox : inbox[i].n < q.n
      BY <2>1, NumberFacts DEF AskedInv
    <3>3. \A i \in DOMAIN inbox' : inbox'[i].n > answer.n /\ inbox'[i].n > hand.n
      BY <1>2, <3>1, <3>2
    <3>4. \A i, j \in DOMAIN inbox' : i < j => inbox'[i].n < inbox'[j].n
      BY <1>2, <3>1, <3>2
    <3> QED BY <1>2, <2>1, <3>3, <3>4 DEF TurnInv
  <2> QED BY <2>1, <2>2, <2>3
<1>4. CASE TakeRequest
  <2>1. /\ hand' = inbox[1] /\ UNCHANGED answer
        /\ 1 \in DOMAIN inbox /\ inbox' = Tail(inbox)
    BY <1>4, NumberFacts DEF TakeRequest
  <2>2. \A i \in DOMAIN inbox' :
            i \in Nat /\ 1 < i + 1 /\ i + 1 \in DOMAIN inbox /\ inbox'[i] = inbox[i + 1]
    BY <2>1, NumberFacts
  <2>3. \A i \in DOMAIN inbox' : inbox'[i].n > answer.n /\ inbox'[i].n > inbox[1].n
    <3> SUFFICES ASSUME NEW i \in DOMAIN inbox'
                 PROVE  inbox'[i].n > answer.n /\ inbox'[i].n > inbox[1].n
      OBVIOUS
    <3>1. inbox'[i] = inbox[i + 1] /\ i + 1 \in DOMAIN inbox /\ 1 < i + 1
      BY <2>2
    <3>2. inbox[1].n < inbox[i + 1].n
      BY <1>2, <2>1, <3>1
    <3>3. inbox[1].n \in Nat /\ inbox[i + 1].n \in Nat
      BY <2>1, <3>1, NumberFacts
    <3> QED BY <1>2, <3>1, <3>2, <3>3
  <2>4. \A i, j \in DOMAIN inbox' : i < j => inbox'[i].n < inbox'[j].n
    <3> SUFFICES ASSUME NEW i \in DOMAIN inbox', NEW j \in DOMAIN inbox', i < j
                 PROVE  inbox'[i].n < inbox'[j].n
      OBVIOUS
    <3>1. /\ inbox'[i] = inbox[i + 1] /\ i + 1 \in DOMAIN inbox
          /\ inbox'[j] = inbox[j + 1] /\ j + 1 \in DOMAIN inbox
          /\ i + 1 < j + 1
      BY <2>2
    <3> QED BY <1>2, <3>1
  <2>5. hand'.n > answer'.n
    BY <1>2, <2>1
  <2> QED BY <2>1, <2>3, <2>4, <2>5 DEF TurnInv
<1>5. CASE Shutdown \/ Reply \/ ReplyIsLost
  <2>1. hand' = NoRequest /\ inbox' \in {inbox, <<>>}
    BY <1>5 DEF Shutdown, Reply, ReplyIsLost, Leave
  <2>2. answer'.n \in {answer.n, hand.n}
    <3>1. CASE Reply
      BY <3>1, NumberFacts, AnswerFacts DEF Reply, TypeOK
    <3> QED BY <3>1, Untouched
  <2>3. \A i \in DOMAIN inbox : inbox[i].n > answer'.n /\ inbox[i].n > 0
    BY <1>2, <2>2, NumberFacts
  <2> QED BY <1>2, <2>1, <2>3, NumberFacts DEF TurnInv
<1>6. CASE ~Ask /\ ~TakeRequest /\ ~Shutdown /\ ~Reply /\ ~ReplyIsLost
  <2>1. UNCHANGED <<inbox, hand, answer>>
    BY <1>0, <1>6, Untouched
  <2> QED BY <1>2, <2>1 DEF TurnInv
<1> QED BY <1>3, <1>4, <1>5, <1>6

\* The inductive invariant of what follows.
LEMMA AnswersCorrect == Spec => [](RunnerInv /\ CommitInv /\ AskedInv /\ TurnInv)
<1>1. Init => CommitInv /\ AskedInv /\ TurnInv
  BY CommitInit, TurnInit
<1>2. RunnerInv /\ CommitInv /\ AskedInv /\ TurnInv /\ [Next]_vars =>
          (CommitInv /\ AskedInv /\ TurnInv)'
  BY CommitStep, AskedStep, TurnStep DEF RunnerInv
<1> QED BY <1>1, <1>2, InvInit, InvStep, PTL DEF Spec

\* A report that reaches the coordinator is what it takes it for: with
\* versions, it names a commit of every participant's branch, and a pass has
\* versions (rungate.go:139).  GateSystem assumes the same of Reports.
THEOREM AnswersComplete == Spec => []AnswersNameCommits
<1>1. RunnerInv /\ CommitInv => AnswersNameCommits
  <2> SUFFICES ASSUME RunnerInv, CommitInv, answer.versions # NoVersions
               PROVE  /\ DOMAIN answer.versions = Names
                      /\ \A k \in 1 .. Count : Of(answer, k) \in 1 .. tip[Branch(k)]
    BY DEF AnswersNameCommits, CommitInv
  <2>1. answer.versions \in [Names -> 0 .. MaxTip] /\ tip \in Tips
    BY DEF RunnerInv, TypeOK, Answers
  <2>2. \A k \in 1 .. Count :
            Of(answer, k) <= tip[Branch(k)] /\ Of(answer, k) >= 1
    BY DEF CommitInv, AtLeast, Reported
  <2>3. \A k \in 1 .. Count : Of(answer, k) \in Nat /\ tip[Branch(k)] \in Nat
    BY <2>1, ScenarioFacts, MaxTipAssumption DEF Of, Tips
  <2> QED BY <2>1, <2>2, <2>3
<1> QED BY <1>1, AnswersCorrect, PTL

\* Unless the bus hands requests over again, none is answered twice or out of
\* turn; and in any case, a request answered once more too, the runner never
\* reports an older commit than before (gate.go:54, rungate.go:139,
\* sqlite.go:312).
THEOREM AnswersInTurn == Spec => AnswersComeInTurn
<1> DEFINE Later ==
               answer' # answer =>
                   /\ NoneRepeated => answer'.n > answer.n
                   /\ NoVersions \notin {answer.versions, answer'.versions} =>
                          \A k \in 1 .. Count : Of(answer', k) >= Of(answer, k)
<1>1. RunnerInv /\ CommitInv /\ AskedInv /\ TurnInv /\ [Next]_vars => [Later]_vars
  <2> SUFFICES ASSUME RunnerInv, CommitInv, AskedInv, TurnInv, [Next]_vars,
                      answer' # answer
               PROVE  Later
    OBVIOUS
  <2>1. Reply
    BY Untouched
  <2>2. /\ answer'.n = hand.n /\ answer'.versions = verdict.versions /\ at = "reply"
    <3>1. hand.n \in Nat /\ verdict \in AllVerdicts
      BY NumberFacts DEF RunnerInv, TypeOK
    <3> QED BY <2>1, <3>1, AnswerFacts DEF Reply
  <2>3. NoneRepeated => answer'.n > answer.n
    BY <2>2 DEF AskedInv, TurnInv
  <2>4. ASSUME answer.versions # NoVersions, verdict.versions # NoVersions,
               NEW k \in 1 .. Count
        PROVE  Of(answer', k) >= Of(answer, k)
    BY <2>2, <2>4 DEF CommitInv, AtLeast, Reported, Of
  <2> QED BY <2>2, <2>3, <2>4
<1> QED BY <1>1, AnswersCorrect, PTL DEF Spec, AnswersComeInTurn

\* Steps are counted in numbers.
LEMMA StepsFacts ==
    ASSUME TypeOK
    PROVE  /\ StepsAtMost \in Nat /\ WorkLeft \in Nat /\ Len(inbox) \in Nat
           /\ Count \in Nat /\ nth \in 1 .. Count
           /\ StepsAtMost <= 2 * Count + 6
<1>1. Count \in Nat \ {0} /\ nth \in 1 .. Count /\ Len(inbox) \in Nat
  BY ScenarioFacts DEF TypeOK
<1>2. StepsAtMost \in Nat /\ StepsAtMost <= 2 * Count + 6
  <2>1. at \in {"idle", "reset", "clean", "resolve", "merge", "classify", "test",
                "testing", "held", "reply", "off"}
    BY DEF TypeOK
  <2> HIDE DEF Count
  <2> QED BY <1>1, <2>1 DEF StepsAtMost
<1>3. \A m, n, s \in Nat : (2 * m + 7) * n + s \in Nat
  OBVIOUS
<1> QED BY <1>1, <1>2, <1>3 DEF WorkLeft

LEMMA StepsStayNat == TypeOK' => (WorkLeft \in Nat)' /\ (StepsAtMost \in Nat)'
<1>1. TypeOK => WorkLeft \in Nat /\ StepsAtMost \in Nat
  BY StepsFacts
<1> QED BY <1>1, PTL

\* With the inbox as it was, less to do for the request is less to do.
LEMMA LessWork ==
    ASSUME TypeOK, TypeOK', UNCHANGED inbox
    PROVE  /\ StepsAtMost' < StepsAtMost => WorkLeft' < WorkLeft
           /\ StepsAtMost' <= StepsAtMost => WorkLeft' <= WorkLeft
<1>1. /\ Count \in Nat /\ Len(inbox) \in Nat
      /\ StepsAtMost \in Nat /\ StepsAtMost' \in Nat
  BY StepsFacts, StepsStayNat
<1>2. \A c, n, s, t \in Nat :
          /\ s < t => (2 * c + 7) * n + s < (2 * c + 7) * n + t
          /\ s <= t => (2 * c + 7) * n + s <= (2 * c + 7) * n + t
  <2> SUFFICES ASSUME NEW c \in Nat, NEW n \in Nat, NEW s \in Nat, NEW t \in Nat
               PROVE  /\ s < t => (2 * c + 7) * n + s < (2 * c + 7) * n + t
                      /\ s <= t => (2 * c + 7) * n + s <= (2 * c + 7) * n + t
    BY Zenon
  <2>1. (2 * c + 7) * n \in Nat
    OBVIOUS
  <2> QED BY <2>1
<1>3. /\ WorkLeft = (2 * Count + 7) * Len(inbox) + StepsAtMost
      /\ WorkLeft' = (2 * Count + 7) * Len(inbox) + StepsAtMost'
  BY DEF WorkLeft, Count
<1> QED BY <1>1, <1>2, <1>3, Zenon

\* A step of the handler on its request, and of what it waits for.
LEMMA HandlerSteps ==
    ASSUME TypeOK, MapInv, Handler \/ CommandEnds \/ SurvivorsEnd, ~TakeRequest
    PROVE  StepsAtMost' < StepsAtMost
<1>0. Count \in Nat /\ nth \in 1 .. Count /\ Count' = Count
  BY StepsFacts DEF Count
<1> HIDE DEF Count
<1>1. CASE Reset \/ MergeFails
  <2>1. \/ at = "reset" /\ at' = "clean"
        \/ at = "merge" /\ at' = "classify"
    BY <1>1 DEF Reset, MergeFails
  <2>2. CASE at = "reset" /\ at' = "clean"
    BY <1>0, <2>2 DEF StepsAtMost
  <2>3. CASE at = "merge" /\ at' = "classify"
    BY <1>0, <2>3 DEF StepsAtMost
  <2> QED BY <2>1, <2>2, <2>3
<1>2. CASE Clean
  BY <1>0, <1>2 DEF Clean, StepsAtMost, MapInv, merging
<1>3. CASE Resolve
  BY <1>0, <1>3 DEF Resolve, StepsAtMost, merging
<1>4. CASE Merge
  <2>1. /\ at = "merge"
        /\ (at' = "resolve" /\ nth' = nth + 1) \/ (at' = "test" /\ nth = Count)
    BY <1>4, MergeFacts DEF Merge
  <2> QED BY <1>0, <2>1 DEF StepsAtMost
<1>5. CASE SetupFails \/ Classify
  <2>1. at \in {"reset", "clean", "resolve", "classify"} /\ at' = "reply"
    BY <1>5 DEF SetupFails, Classify, Fail
  <2>2. StepsAtMost' = 1
    BY <2>1 DEF StepsAtMost
  <2>3. StepsAtMost > 1
    BY <1>0, <2>1 DEF StepsAtMost
  <2> QED BY <2>2, <2>3
<1>6. CASE RunShell \/ Timeout \/ CommandEnds \/ SurvivorsEnd \/ Reply \/ ReplyIsLost
  <2>1. \/ at = "test" /\ at' = "testing"
        \/ at = "testing" /\ at' \in {"held", "reply"}
        \/ at = "held" /\ at' = "reply"
        \/ at = "reply" /\ at' = "idle"
    BY <1>6 DEF RunShell, Timeout, CommandEnds, SurvivorsEnd, Reply, ReplyIsLost
  <2> QED BY <2>1 DEF StepsAtMost
<1> QED BY <1>1, <1>2, <1>3, <1>4, <1>5, <1>6 DEF Handler, Git, Loop

\* One request fewer is worth all the steps that serving it takes.
LEMMA TakeWork ==
    ASSUME TypeOK, TakeRequest
    PROVE  WorkLeft' < WorkLeft
<1>1. /\ Len(inbox) \in Nat /\ Len(inbox') = Len(inbox) - 1
      /\ at = "idle" /\ at' = "reset"
  BY DEF TakeRequest, TypeOK
<1>2. StepsAtMost = 0 /\ StepsAtMost' = 2 * Count + 6 /\ Count \in Nat
  BY <1>1, StepsFacts DEF StepsAtMost
<1>3. \A c, n \in Nat :
          (2 * c + 7) * (n - 1) + (2 * c + 6) < (2 * c + 7) * n + 0
  <2> SUFFICES ASSUME NEW c \in Nat, NEW n \in Nat
               PROVE  (2 * c + 7) * (n - 1) + (2 * c + 6) < (2 * c + 7) * n + 0
    BY Zenon
  <2>1. (2 * c + 7) * (n - 1) = (2 * c + 7) * n - (2 * c + 7) /\ (2 * c + 7) * n \in Nat
    OBVIOUS
  <2> QED BY <2>1
<1>4. WorkLeft' = (2 * Count + 7) * Len(inbox') + StepsAtMost'
  BY DEF WorkLeft, Count
<1>5. WorkLeft' = (2 * Count + 7) * (Len(inbox) - 1) + (2 * Count + 6)
  BY <1>1, <1>2, <1>4
<1>6. WorkLeft = (2 * Count + 7) * Len(inbox) + 0
  BY <1>2 DEF WorkLeft
<1> QED BY <1>1, <1>2, <1>3, <1>5, <1>6, Zenon

\* The handler takes a bounded number of steps for what it was asked, for any
\* number of participants, and no request is passed over: with the fairness
\* and the hypotheses of EveryRequestIsAnswered each gets its answer, unless it
\* is lost or the runner stops (rungate.go:42, 118, agent.go:115).
THEOREM RequestsTakeTurns == Spec => [](WorkLeft \in Nat) /\ RequestsGetTheirTurn
<1> DEFINE Kept ==
               \A n \in Nat \ {0} :
                   Waits(n) => Waits(n)' \/ answer'.n = n \/ lost' = n \/ at' = "off"
           Bounded ==
               /\ Handler \/ CommandEnds \/ SurvivorsEnd => WorkLeft' < WorkLeft
               /\ ~Ask /\ ~Redeliver /\ ~StartRunner => WorkLeft' <= WorkLeft
<1>1. RunnerInv /\ AskedInv /\ [Next]_vars => Kept
  <2> SUFFICES ASSUME RunnerInv, AskedInv, [Next]_vars, NEW n \in Nat \ {0}, Waits(n),
                      at' # "off"
               PROVE  Waits(n)' \/ answer'.n = n \/ lost' = n
    OBVIOUS
  <2>0. inbox \in Seq(Requests) /\ log \in Seq(Requests) /\ ~Shutdown
    BY DEF RunnerInv, TypeOK, Shutdown
  <2>1. CASE Ask \/ Redeliver
    <3>1. \E s \in Seq(Requests) : inbox' \in {inbox, inbox \o s}
      <4>1. CASE Ask
        <5> DEFINE q == [n |-> Len(log) + 1, declared |-> tip]
        <5>1. inbox' \in {inbox, Append(inbox, q)} /\ q \in Requests
          BY <4>1 DEF Ask, Requests, RunnerInv, TypeOK
        <5> HIDE DEF q
        <5>2. Append(inbox, q) = inbox \o <<q>> /\ <<q>> \in Seq(Requests)
          BY <2>0, <5>1
        <5> QED BY <5>1, <5>2
      <4>2. CASE Redeliver
        <5>0. PICK k \in 0 .. Len(log) - 1 : inbox' = inbox \o Behind(k)
          BY <4>2 DEF Redeliver
        <5>1. inbox' = inbox \o Behind(k) /\ k \in 0 .. Len(log)
          BY <2>0, <5>0
        <5> QED BY <2>0, <5>1, BehindFacts
      <4> QED BY <2>1, <4>1, <4>2
    <3>2. PICK s \in Seq(Requests) : inbox' \in {inbox, inbox \o s}
      BY <3>1
    <3>3. \A i \in DOMAIN inbox : i \in DOMAIN inbox' /\ inbox'[i] = inbox[i]
      BY <2>0, <3>2
    <3>4. hand' = hand
      BY <2>1 DEF Ask, Redeliver
    <3> QED BY <3>3, <3>4 DEF Waits
  <2>2. CASE TakeRequest
    <3>1. hand.n = 0 /\ hand' = inbox[1] /\ inbox' = Tail(inbox) /\ inbox # <<>>
      BY <2>0, <2>2 DEF TakeRequest, AskedInv, NoRequest
    <3>2. PICK i \in DOMAIN inbox : inbox[i].n = n
      BY <3>1 DEF Waits
    <3>3. CASE i = 1
      BY <3>1, <3>2, <3>3 DEF Waits
    <3>4. CASE i # 1
      <4>1. i - 1 \in DOMAIN inbox' /\ inbox'[i - 1] = inbox[i]
        BY <2>0, <3>1, <3>4
      <4> QED BY <3>2, <4>1 DEF Waits
    <3> QED BY <3>3, <3>4
  <2>3. CASE Reply
    <3>1. answer'.n = hand.n /\ inbox' = inbox
      BY <2>3, NumberFacts, AnswerFacts DEF Reply, requests, RunnerInv, TypeOK
    <3> QED BY <3>1 DEF Waits
  <2>4. CASE ReplyIsLost
    BY <2>4 DEF ReplyIsLost, Waits
  <2>5. CASE StartRunner
    BY <2>5 DEF StartRunner, AskedInv, Waits, NoRequest
  <2>6. CASE ~Ask /\ ~Redeliver /\ ~StartRunner /\ ~TakeRequest /\ ~Reply /\ ~ReplyIsLost
    <3>1. UNCHANGED <<inbox, hand>>
      BY <2>0, <2>6, Untouched
    <3> QED BY <3>1 DEF Waits
  <2> QED BY <2>1, <2>2, <2>3, <2>4, <2>5, <2>6
<1>2. RunnerInv /\ RunnerInv' /\ [Next]_vars => [Bounded]_vars
  <2> SUFFICES ASSUME RunnerInv, RunnerInv', Next PROVE Bounded
    OBVIOUS
  <2>0. /\ TypeOK /\ TypeOK' /\ MapInv
        /\ WorkLeft \in Nat /\ WorkLeft' \in Nat
        /\ StepsAtMost \in Nat /\ StepsAtMost' \in Nat
    <3>1. TypeOK /\ MapInv /\ WorkLeft \in Nat /\ StepsAtMost \in Nat /\ TypeOK'
      BY StepsFacts DEF RunnerInv
    <3> QED BY <3>1, StepsStayNat
  <2> HIDE DEF WorkLeft
  <2>1. CASE TakeRequest
    BY <2>0, <2>1, TakeWork
  <2>2. CASE (Handler \/ CommandEnds \/ SurvivorsEnd) /\ ~TakeRequest
    <3>1. inbox' = inbox
      BY <2>2 DEF Handler, Git, Loop, Reset, Clean, Resolve, SetupFails,
         Merge, MergeFails, Classify, RunShell, Timeout, CommandEnds, SurvivorsEnd, Reply,
         ReplyIsLost, requests
    <3>2. StepsAtMost' < StepsAtMost
      BY <2>0, <2>2, HandlerSteps
    <3>3. WorkLeft' < WorkLeft
      BY <2>0, <3>1, <3>2, LessWork
    <3> QED BY <2>0, <3>3
  <2>3. ASSUME StrayWrites \/ \E b \in Branches : Commit(b),
               ~(Handler \/ CommandEnds \/ SurvivorsEnd)
        PROVE  Bounded
    <3>1. UNCHANGED <<inbox, at, nth>>
      BY <2>3 DEF StrayWrites, Commit, requests, merging
    <3>2. StepsAtMost' = StepsAtMost
      BY <3>1 DEF StepsAtMost, Count
    <3> QED BY <2>0, <2>3, <3>1, <3>2, LessWork
  <2>4. ASSUME Shutdown, ~(Handler \/ CommandEnds \/ SurvivorsEnd)
        PROVE  Bounded
    <3>1. inbox' = <<>> /\ at' = "off"
      BY <2>4 DEF Shutdown
    <3>2. StepsAtMost' = 0 /\ Len(inbox') = 0
      BY <3>1 DEF StepsAtMost
    <3>3. Len(inbox) \in Nat /\ Count \in Nat
      BY <2>0, StepsFacts
    <3>4. \A c, m, t \in Nat : (2 * c + 7) * 0 + 0 <= (2 * c + 7) * m + t
      <4> SUFFICES ASSUME NEW c \in Nat, NEW m \in Nat, NEW t \in Nat
                   PROVE  (2 * c + 7) * 0 + 0 <= (2 * c + 7) * m + t
        BY Zenon
      <4>1. (2 * c + 7) * m \in Nat /\ (2 * c + 7) * 0 = 0
        OBVIOUS
      <4> QED BY <4>1
    <3>5. WorkLeft' = (2 * Count + 7) * Len(inbox') + StepsAtMost'
      BY DEF WorkLeft, Count
    <3>6. WorkLeft = (2 * Count + 7) * Len(inbox) + StepsAtMost
      BY DEF WorkLeft
    <3>7. WorkLeft' <= WorkLeft
      BY <2>0, <3>2, <3>3, <3>4, <3>5, <3>6, Zenon
    <3> QED BY <2>4, <3>7
  <2>5. ASSUME Ask \/ Redeliver \/ StartRunner, ~(Handler \/ CommandEnds \/ SurvivorsEnd)
        PROVE  Bounded
    BY <2>5
  <2> QED BY <2>1, <2>2, <2>3, <2>4, <2>5 DEF Next, Environment
<1>3. Kept /\ [Bounded]_vars => [Kept /\ Bounded]_vars
  OBVIOUS
<1>4. TypeOK => WorkLeft \in Nat
  BY StepsFacts
<1> QED
  BY <1>1, <1>2, <1>3, <1>4, AnswersCorrect, TypeCorrect, PTL
     DEF Spec, RequestsGetTheirTurn
=============================================================================
