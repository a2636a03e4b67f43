------------------------------- MODULE Runner -------------------------------
(***************************************************************************)
(* The gate runner: internal/pcops/rungate.go on top of gate.ServeRunner   *)
(* (pkg/gate/gate.go).  For every request of the coordinator it resets its *)
(* own worktree to main, merges the participants' branches one after the   *)
(* other, runs the spanning test and answers with a verdict.               *)
(*                                                                         *)
(* Each git invocation is a step: the agents commit in between.  A branch  *)
(* is the number of its last commit, the worktree the commit it has of     *)
(* each branch on top of main, 0 for none.                                 *)
(*                                                                         *)
(* Operators named Mutant* are faulty variants of the definition below     *)
(* them; they show that a property can fail and are used nowhere.          *)
(***************************************************************************)
EXTENDS Naturals, Sequences

CONSTANTS
    Scenario,   \* the configuration, see Validate
    MaxTip,     \* bound: commits of a branch
    MaxAsked,   \* bound: requests
    MaxAgain    \* bound: times the bus goes back, at a restart or without

-----------------------------------------------------------------------------
(***************************************************************************)
(* The scenario (internal/pcops/config.go).                                *)
(***************************************************************************)

\* validate: no two participants share a name or a branch, the runner among
\* them; and so a name in required may be the runner's.
Validate(s) ==
    LET all == Append(s.agents, s.runner)
    IN  /\ s.gateRunner = s.runner.name
        /\ s.required # <<>>
        /\ \A j, k \in DOMAIN all :
               j # k => /\ all[j].name # all[k].name
                        /\ all[j].branch # all[k].branch
        /\ \A k \in DOMAIN s.required :
               \E j \in DOMAIN all : all[j].name = s.required[k]
        /\ \A j, k \in DOMAIN s.required : j # k => s.required[j] # s.required[k]
        /\ s.submitTimeout > s.runnerTimeout

ASSUME ScenarioAssumption == Validate(Scenario)

\* What mergeAll merges: the branches of the participants, in their order.
Count == Len(Scenario.agents)
Branch(k) == Scenario.agents[k].branch
Branches == {Branch(k) : k \in 1 .. Count}
Names == {Scenario.agents[k].name : k \in 1 .. Count}

ASSUME AgentsAssumption ==
    Scenario.agents \in Seq([name : Names, branch : Branches]) \ {<<>>}
ASSUME MaxTipAssumption == MaxTip \in Nat \ {0}

VARIABLES
    tip,        \* the last commit of each branch
    tree,       \* what is merged in the worktree
    litter,     \* what else lies there, see Kinds
    unmerged,   \* the index has unmerged paths
    strays,     \* what a command left behind still runs in the worktree
    inbox,      \* requests handed over and not taken yet
    log,        \* requests so far, as the bus keeps them
    again,      \* times it took up some other place in them
    lost,       \* history: the request just served whose reply is not published
    at,         \* where the runner stands
    hand,       \* the request it serves
    nth,        \* the branch it is at
    sha,        \* what rev-parse said of it
    merged,     \* mergeAll's map
    verdict,    \* what it is going to answer
    answer,     \* its last answer
    struck,     \* history: why a merge failed, and if a conflict would be seen
    fouled,     \* history: what was left behind wrote between reset and command
    ran         \* history: what the command ran on, and what was left there

workspace == <<tree, litter, unmerged>>
requests == <<inbox, log, again, lost>>
merging == <<nth, sha, merged>>
history == <<struck, fouled, ran>>
vars == <<tip, workspace, strays, requests, at, hand, merging, verdict,
          answer, history>>

\* Changes of tracked files, untracked files, and what git clean -qfd keeps:
\* ignored files and nested repositories.
Kinds == {"tracked", "untracked", "ignored"}

None == [b \in Branches |-> 0]
NoRequest == [n |-> 0, declared |-> None]
NoVersions == <<>>
Verdict(ok, detail, versions) ==
    [passed |-> ok, detail |-> detail, versions |-> versions]
NoVerdict == Verdict(FALSE, "none", NoVersions)
Answer(n, v) == [n |-> n, passed |-> v.passed, versions |-> v.versions]
NoRun == [tree |-> None, left |-> {}]
Struck(cause, seen) == [cause |-> cause, seen |-> seen]

\* A runner's worktree may have been used before.
Init ==
    /\ tip = [b \in Branches |-> 1]
    /\ tree = None
    /\ litter \in SUBSET Kinds
    /\ unmerged \in BOOLEAN
    /\ strays = FALSE
    /\ inbox = <<>> /\ log = <<>> /\ again = 0 /\ lost = 0
    /\ at = "idle" /\ hand = NoRequest
    /\ nth = 1 /\ sha = 0 /\ merged = None
    /\ verdict = NoVerdict
    /\ answer = Answer(0, NoVerdict)
    /\ struck = Struck("none", FALSE)
    /\ ran = NoRun
    /\ fouled = FALSE

-----------------------------------------------------------------------------
(***************************************************************************)
(* The environment.                                                        *)
(***************************************************************************)

\* An agent commits, whatever the runner is doing.
Commit(b) ==
    /\ tip[b] < MaxTip
    /\ tip' = [tip EXCEPT ![b] = @ + 1]
    /\ UNCHANGED <<workspace, strays, requests, at, hand, merging, verdict,
                   answer, history>>

\* The coordinator asks, also when it has given up on the request before.
\* What the participants declared is no newer than their branches; here it is
\* as new.
Ask ==
    /\ Len(log) < MaxAsked
    /\ LET q == [n |-> Len(log) + 1, declared |-> tip]
       IN  /\ log' = Append(log, q)
           /\ inbox' = IF at = "off" THEN inbox ELSE Append(inbox, q)
    /\ UNCHANGED <<tip, workspace, strays, again, lost, at, hand, merging,
                   verdict, answer, history>>

\* The requests after the k-th.
Behind(k) == SubSeq(log, k + 1, Len(log))

\* The bus fails halfway through its rows and sends them again, also those
\* that are answered.
Redeliver ==
    /\ at # "off" /\ again < MaxAgain
    /\ again' = again + 1
    /\ \E k \in 0 .. Len(log) - 1 : inbox' = inbox \o Behind(k)
    /\ UNCHANGED <<tip, workspace, strays, log, lost, at, hand, merging, verdict,
                   answer, history>>

\* What is in the worktree after a command wrote there.
Written == {litter \cup more : more \in SUBSET Kinds}

\* What a command left behind writes in the worktree, or ends.
StrayWrites ==
    /\ strays
    /\ \/ /\ litter' \in Written
          /\ fouled' = (at \in {"clean", "resolve", "merge", "test"})
          /\ UNCHANGED strays
       \/ strays' = FALSE /\ UNCHANGED <<litter, fouled>>
    /\ UNCHANGED <<tip, tree, unmerged, requests, at, hand, merging, verdict,
                   answer, struck, ran>>

\* mergeAll is over, and its map read.
Merged == nth' = 1 /\ sha' = 0 /\ merged' = None

\* The handler returns.
Leave ==
    /\ hand' = NoRequest
    /\ Merged
    /\ verdict' = NoVerdict
    /\ struck' = Struck("none", FALSE)
    /\ fouled' = FALSE
    /\ ran' = NoRun

\* The runner's ctx ends: git is killed halfway, a command too and may leave
\* something behind, and everything the handler still calls fails at once.
\* What was handed over and not served is lost with the process.
Shutdown ==
    /\ at # "off"
    /\ at' = "off"
    /\ unmerged' \in IF at = "merge" THEN BOOLEAN ELSE {unmerged}
    /\ litter' \in CASE at = "merge" -> {litter, litter \cup {"tracked"}}
                     [] at = "testing" -> Written
                     [] OTHER -> {litter}
    /\ strays' \in IF at = "testing" THEN {strays, TRUE} ELSE {strays}
    /\ inbox' = <<>> /\ lost' = 0
    /\ Leave
    /\ UNCHANGED <<tip, tree, log, again, answer>>

\* A runner is started in the same worktree.  The bus goes on behind any
\* request: the cursor is saved before the requests are served, or saving it
\* failed, or there is none and the bus starts at the head.
StartRunner ==
    /\ at = "off" /\ again < MaxAgain
    /\ again' = again + 1
    /\ at' = "idle"
    /\ \E k \in 0 .. Len(log) : inbox' = Behind(k)
    /\ UNCHANGED <<tip, workspace, strays, log, lost, hand, merging, verdict, answer,
                   history>>

Environment ==
    \/ \E b \in Branches : Commit(b)
    \/ Ask \/ Redeliver \/ StrayWrites \/ Shutdown \/ StartRunner

-----------------------------------------------------------------------------
(***************************************************************************)
(* The handler, one request at a time.                                     *)
(***************************************************************************)

TakeRequest ==
    /\ at = "idle" /\ inbox # <<>>
    /\ hand' = Head(inbox)
    /\ inbox' = Tail(inbox)
    /\ at' = "reset"
    /\ lost' = 0
    /\ UNCHANGED <<tip, workspace, strays, log, again, merging, verdict, answer,
                   history>>

\* mergeAll gives up: the verdict names no versions.
Fail(detail) ==
    /\ at' = "reply"
    /\ verdict' = Verdict(FALSE, detail, NoVersions)
    /\ Merged

\* git reset --hard -q main
MutantResetIndexOnly ==
    /\ at = "reset"
    /\ tree' = None /\ unmerged' = FALSE
    /\ at' = "clean"
    /\ fouled' = FALSE
    /\ UNCHANGED <<tip, litter, strays, requests, hand, merging, verdict,
                   answer, struck, ran>>

Reset ==
    /\ at = "reset"
    /\ tree' = None /\ unmerged' = FALSE
    /\ litter' = litter \ {"tracked"}
    /\ at' = "clean"
    /\ fouled' = FALSE
    /\ UNCHANGED <<tip, strays, requests, hand, merging, verdict, answer,
                   struck, ran>>

\* git clean -qfd: without -x it leaves what is ignored.
Clean ==
    /\ at = "clean"
    /\ litter' = litter \ {"untracked"}
    /\ at' = "resolve"
    /\ UNCHANGED <<tip, tree, unmerged, strays, requests, hand, merging, verdict,
                   answer, history>>

\* Resolved once, when the runner first needs the branch.
MutantResolveOnce ==
    /\ at = "resolve"
    /\ sha' = IF answer.versions = NoVersions THEN tip[Branch(nth)]
              ELSE answer.versions[Scenario.agents[nth].name]
    /\ at' = "merge"
    /\ UNCHANGED <<tip, workspace, strays, requests, hand, nth, merged, verdict,
                   answer, history>>

\* git rev-parse
Resolve ==
    /\ at = "resolve"
    /\ sha' = tip[Branch(nth)]
    /\ at' = "merge"
    /\ UNCHANGED <<tip, workspace, strays, requests, hand, nth, merged, verdict,
                   answer, history>>

\* Any of the three fails, on a lock for example.
SetupFails ==
    /\ at \in {"reset", "clean", "resolve"}
    /\ Fail(IF at = "resolve" THEN "failed" ELSE "setup")
    /\ UNCHANGED <<tip, workspace, strays, requests, hand, answer, history>>

NextBranch ==
    IF nth < Count THEN nth' = nth + 1 /\ at' = "resolve"
    ELSE nth' = nth /\ at' = "test"

\* git merge of the branch, which may have moved on (rungate.go:139).
MutantMergeByName ==
    /\ at = "merge" /\ ~unmerged
    /\ tree' = [tree EXCEPT ![Branch(nth)] = tip[Branch(nth)]]
    /\ merged' = [merged EXCEPT ![Branch(nth)] = sha]
    /\ NextBranch
    /\ UNCHANGED <<tip, litter, unmerged, strays, requests, hand, sha, verdict,
                   answer, history>>

\* git merge of the resolved commit; git refuses with unmerged paths about.
Merge ==
    /\ at = "merge" /\ ~unmerged
    /\ tree' = [tree EXCEPT ![Branch(nth)] = sha]
    /\ merged' = [merged EXCEPT ![Branch(nth)] = sha]
    /\ NextBranch
    /\ UNCHANGED <<tip, litter, unmerged, strays, requests, hand, sha, verdict,
                   answer, history>>

\* The merge fails: by a conflict, which git may or may not name in the way
\* isMergeConflict knows, or by something else.
MergeFails ==
    /\ at = "merge"
    /\ at' = "classify"
    /\ \/ /\ ~unmerged
          /\ unmerged' = TRUE
          /\ \E says \in BOOLEAN : struck' = Struck("conflict", says)
       \/ /\ struck' = Struck("other", FALSE)
          /\ UNCHANGED unmerged
    /\ UNCHANGED <<tip, tree, litter, strays, requests, hand, merging, verdict,
                   answer, fouled, ran>>

Detail(conflict) == IF conflict THEN "conflict" ELSE "failed"

\* merge --abort first (rungate.go:158).
MutantClassifyAfterAbort ==
    /\ at = "classify"
    /\ \E aborted \in BOOLEAN : unmerged' = (unmerged /\ ~aborted)
    /\ Fail(Detail(struck.seen \/ unmerged'))
    /\ struck' = [struck EXCEPT !.seen = TRUE]
    /\ UNCHANGED <<tip, tree, litter, strays, requests, hand, answer, fouled, ran>>

\* isMergeConflict, or hasUnmergedPaths, which may fail; then merge --abort,
\* whose error is ignored.
Classify ==
    /\ at = "classify"
    /\ \E works \in BOOLEAN :
           /\ Fail(Detail(struck.seen \/ (works /\ unmerged)))
           /\ struck' = [struck EXCEPT !.seen = @ \/ works]
    /\ \E aborted \in BOOLEAN : unmerged' = (unmerged /\ ~aborted)
    /\ UNCHANGED <<tip, tree, litter, strays, requests, hand, answer, fouled, ran>>

\* runShell starts the command.  What lies in the worktree was left there by
\* an earlier run, unless something wrote there since the reset.
RunShell ==
    /\ at = "test"
    /\ ran' = [tree |-> tree, left |-> IF fouled THEN {} ELSE litter]
    /\ fouled' = FALSE
    /\ at' = "testing"
    /\ UNCHANGED <<tip, workspace, strays, requests, hand, merging, verdict,
                   answer, struck>>

\* participantOf: the commits merged, by participant.
Tested ==
    [p \in Names |->
        merged[Branch(CHOOSE j \in 1 .. Count : Scenario.agents[j].name = p)]]

\* The command ends by itself; what it wrote stays.
CommandEnds ==
    /\ at = "testing"
    /\ at' = "reply"
    /\ \E ok \in BOOLEAN :
           verdict' = Verdict(ok, IF ok THEN "none" ELSE "tests", Tested)
    /\ litter' \in Written
    /\ strays' \in {strays, TRUE}
    /\ Merged
    /\ UNCHANGED <<tip, tree, unmerged, requests, hand, answer, history>>

\* The shell has no deadline.
MutantTimeoutNever == FALSE /\ UNCHANGED vars

\* The shell is killed after runner_timeout.  runShell returns then, unless
\* something the shell started is left that holds its output.
Timeout ==
    /\ at = "testing"
    /\ at' \in {"reply", "held"}
    /\ verdict' = Verdict(FALSE, "tests", Tested)
    /\ litter' \in Written
    /\ strays' \in {strays, TRUE}
    /\ Merged
    /\ UNCHANGED <<tip, tree, unmerged, requests, hand, answer, history>>

\* What held the output ends.
SurvivorsEnd ==
    /\ at = "held"
    /\ at' = "reply"
    /\ UNCHANGED <<tip, workspace, strays, requests, hand, merging, verdict,
                   answer, history>>

\* ServeRunner's reply.
Reply ==
    /\ at = "reply"
    /\ answer' = Answer(hand.n, verdict)
    /\ at' = "idle"
    /\ Leave
    /\ UNCHANGED <<tip, workspace, strays, requests>>

\* The reply cannot be published; dispatch drops the error.
ReplyIsLost ==
    /\ at = "reply"
    /\ lost' = hand.n
    /\ at' = "idle"
    /\ Leave
    /\ UNCHANGED <<tip, workspace, strays, inbox, log, again, answer>>

\* What ends when git does, and what the runner does by itself.
Git == Reset \/ Clean \/ Resolve \/ SetupFails \/ Merge \/ MergeFails \/ Classify
Loop == TakeRequest \/ RunShell \/ Timeout \/ Reply \/ ReplyIsLost

Handler == Git \/ Loop

Next == Environment \/ Handler \/ CommandEnds \/ SurvivorsEnd

Spec == Init /\ [][Next]_vars

\* The runner's goroutine runs, and the shell's deadline comes.
FairSpec == Spec /\ WF_vars(Loop)

\* Git commands end.  Git may wait forever for a lock that nobody holds any
\* more, and nothing but the end of the runner's ctx stops it (rungate.go:196).
GitEnds == WF_vars(Git)

\* What holds the output of a killed shell ends.
OutputIsReleased == WF_vars(SurvivorsEnd)

-----------------------------------------------------------------------------
(***************************************************************************)
(* Properties.                                                             *)
(***************************************************************************)

Tips == [Branches -> 0 .. MaxTip]
Litter == SUBSET Kinds
Requests == [n : Nat, declared : Tips]
Details == {"none", "setup", "failed", "conflict", "tests"}
AllVerdicts ==
    [passed : BOOLEAN, detail : Details,
     versions : {NoVersions} \cup [Names -> 0 .. MaxTip]]
Answers ==
    [n : Nat, passed : BOOLEAN, versions : {NoVersions} \cup [Names -> 0 .. MaxTip]]

\* The type of the runner, of its worktree and of the branches it merges
\* (rungate.go:118).
TypeOK ==
    /\ tip \in Tips /\ tree \in Tips /\ merged \in Tips /\ sha \in 0 .. MaxTip
    /\ litter \in Litter /\ unmerged \in BOOLEAN /\ strays \in BOOLEAN
    /\ inbox \in Seq(Requests) /\ log \in Seq(Requests) /\ hand \in Requests
    /\ again \in Nat /\ lost \in Nat
    /\ at \in {"idle", "reset", "clean", "resolve", "merge", "classify", "test",
               "testing", "held", "reply", "off"}
    /\ nth \in 1 .. Count
    /\ verdict \in AllVerdicts /\ answer \in Answers
    /\ struck \in [cause : {"none", "conflict", "other"}, seen : BOOLEAN]
    /\ ran \in [tree : Tips, left : Litter]
    /\ fouled \in BOOLEAN

\* A verdict with versions names, for every participant, the commit of its
\* branch that was in the worktree when the command ran, however often the
\* agents commit meanwhile; a pass names all of them (rungate.go:139).
ReportNamesWhatRan ==
    /\ verdict.versions # NoVersions =>
           \A j \in 1 .. Count :
               verdict.versions[Scenario.agents[j].name] = ran.tree[Branch(j)]
    /\ verdict.passed => verdict.versions # NoVersions

\* The commits tested are no older than those declared when the coordinator
\* asked: a fix that was submitted is in (rungate.go:109).
NothingOlderThanDeclared ==
    verdict.versions # NoVersions =>
        \A j \in 1 .. Count :
            verdict.versions[Scenario.agents[j].name] >= hand.declared[Branch(j)]

\* A command runs on main and the branches, and on nothing an earlier run or
\* an earlier runner left.  There are two exceptions: what git clean keeps,
\* ignored files and nested repositories, and what something that runs on in
\* the worktree put there since the reset, see RunShell (rungate.go:122).
RunsStartClean == ran.left \subseteq {"ignored"}

\* Agents are told of a conflict only when one happened, and are told of each
\* that git named or that could be looked for (rungate.go:155).
FailureNamesItsCause ==
    /\ verdict.detail = "conflict" => struck.cause = "conflict"
    /\ at = "reply" /\ verdict.detail = "failed" /\ struck.cause = "conflict" =>
           ~struck.seen

\* What request q declares is no newer than the branches.
Declared(q) == \A b \in Branches : q.declared[b] <= tip[b]

\* The first m branches are merged, as declared or newer.
UpToDate(m) ==
    \A j \in 1 .. m : merged[Branch(j)] >= hand.declared[Branch(j)]

\* The invariant that makes these four inductive.  While branches are merged
\* the worktree holds what the map says, ...
MapInv ==
    /\ at \notin {"held", "reply"} => verdict = NoVerdict
    /\ at \in {"idle", "off", "reset", "clean"} => nth = 1 /\ merged = None
    /\ at \in {"clean", "resolve", "merge", "test", "testing"} => tree = merged
    /\ at = "testing" => ran.tree = tree
    /\ ReportNamesWhatRan

\* ... and nothing else that git clean removes ...
CleanInv ==
    /\ ~fouled /\ at = "clean" => "tracked" \notin litter
    /\ ~fouled /\ at \in {"resolve", "merge", "test"} => litter \subseteq {"ignored"}
    /\ RunsStartClean

\* ... and the map is no older than what was declared; ...
DeclaredInv ==
    /\ Declared(hand)
    /\ \A i \in DOMAIN inbox : Declared(inbox[i])
    /\ \A i \in DOMAIN log : Declared(log[i])
    /\ at \in {"resolve", "merge"} => UpToDate(nth - 1)
    /\ at = "merge" => sha >= hand.declared[Branch(nth)]
    /\ at \in {"test", "testing"} => UpToDate(Count)
    /\ NothingOlderThanDeclared

\* ... a failed merge has left unmerged paths just if it was a conflict.
CauseInv ==
    /\ at \in {"clean", "resolve", "merge", "test"} => ~unmerged
    /\ at \notin {"classify", "reply"} => struck.cause = "none"
    /\ at = "classify" => struck.cause = IF unmerged THEN "conflict" ELSE "other"
    /\ at = "classify" /\ struck.seen => struck.cause = "conflict"
    /\ FailureNamesItsCause

RunnerInv == TypeOK /\ MapInv /\ CleanInv /\ DeclaredInv /\ CauseInv

Waits(n) == hand.n = n \/ \E i \in DOMAIN inbox : inbox[i].n = n

\* If git ends and the output of a killed shell is released, every request
\* that a runner gets is answered in the end, also when the command hangs:
\* unless the reply cannot be published or the runner is stopped, as it is
\* when the wall budget ends (rungate.go:42, 196, 205, agent.go:115).
EveryRequestIsAnswered ==
    GitEnds /\ OutputIsReleased =>
        \A n \in 1 .. MaxAsked :
            Waits(n) ~> (answer.n = n \/ lost = n \/ at = "off")

-----------------------------------------------------------------------------
(***************************************************************************)
(* What that comes to, and what an answer says.                            *)
(***************************************************************************)

\* No request has been handed over again.
NoneRepeated == again = 0

\* What is served and what waits was asked.
AskedInv ==
    /\ (hand = NoRequest) <=> at \in {"idle", "off"}
    /\ hand # NoRequest => hand.n \in DOMAIN log
    /\ answer.n <= Len(log)
    /\ \A i \in DOMAIN log : log[i].n = i
    /\ \A i \in DOMAIN inbox : inbox[i].n \in DOMAIN log
    /\ at = "off" => inbox = <<>>

\* As long as nothing is handed over again, it comes in the order of the
\* asking, behind what is answered.
TurnInv ==
    NoneRepeated =>
        /\ hand # NoRequest => hand.n > answer.n
        /\ \A i \in DOMAIN inbox : inbox[i].n > answer.n /\ inbox[i].n > hand.n
        /\ \A i, j \in DOMAIN inbox : i < j => inbox[i].n < inbox[j].n

\* What was reported of participant k, and of the last answer.
Of(v, k) == v.versions[Scenario.agents[k].name]
Reported == [k \in 1 .. Count |-> Of(answer, k)]

\* Whatever is merged and reported now has at least commit floor[k] of every
\* participant k.
AtLeast(floor) ==
    /\ \A k \in 1 .. Count : floor[k] <= tip[Branch(k)]
    /\ at \in {"resolve", "merge"} =>
           \A k \in 1 .. nth - 1 : merged[Branch(k)] >= floor[k]
    /\ at = "merge" => sha >= floor[nth]
    /\ at \in {"test", "testing"} =>
           \A k \in 1 .. Count : merged[Branch(k)] >= floor[k]
    /\ verdict.versions # NoVersions =>
           \A k \in 1 .. Count : Of(verdict, k) >= floor[k]

\* Commits are those of the branches, and the runner does not go back.
CommitInv ==
    /\ \A b \in Branches : merged[b] <= tip[b]
    /\ at = "merge" => sha <= tip[Branch(nth)]
    /\ verdict.versions # NoVersions =>
           \A k \in 1 .. Count : Of(verdict, k) <= tip[Branch(k)]
    /\ AtLeast([k \in 1 .. Count |-> 1])
    /\ answer.versions # NoVersions =>
           AtLeast(Reported) /\ \A k \in 1 .. Count : Reported[k] >= 1
    /\ answer.passed => answer.versions # NoVersions

\* An answer with versions names, of every participant, a commit that its
\* branch has; one that passes has versions.  GateSystem takes this for
\* granted of the reports that reach the coordinator (rungate.go:139).
AnswersNameCommits ==
    /\ answer.versions # NoVersions =>
           /\ DOMAIN answer.versions = Names
           /\ \A k \in 1 .. Count : Of(answer, k) \in 1 .. tip[Branch(k)]
    /\ answer.passed => answer.versions # NoVersions

\* As long as the bus hands nothing over again, no request is answered twice
\* or out of turn; and even when it does, and an old request is answered once
\* more, no answer reports an older commit than the answer before
\* (gate.go:54, rungate.go:139, sqlite.go:312).
AnswersComeInTurn ==
    [][answer' # answer =>
           /\ NoneRepeated => answer'.n > answer.n
           /\ NoVersions \notin {answer.versions, answer'.versions} =>
                  \A k \in 1 .. Count :
                      Of(answer', k) >= Of(answer, k)]_vars

\* The steps until the handler returns, and those until the inbox is empty.
StepsAtMost ==
    CASE at \in {"idle", "off"} -> 0
      [] at = "reply" -> 1
      [] at \in {"held", "classify"} -> 2
      [] at = "testing" -> 3
      [] at = "test" -> 4
      [] at = "merge" -> 2 * (Count - nth) + 5
      [] at = "resolve" -> 2 * (Count - nth) + 6
      [] at = "clean" -> 2 * Count + 5
      [] OTHER -> 2 * Count + 6
WorkLeft == (2 * Count + 7) * Len(inbox) + StepsAtMost

\* What EveryRequestIsAnswered comes to, with the handler running: a request
\* waits until it is answered, or its answer is lost, or the runner stops;
\* every step of the handler, and of what it waits for, leaves less to do,
\* however many participants are merged; and only a request, a repeated one
\* too, or a restart gives it more (rungate.go:42, 118).
RequestsGetTheirTurn ==
    [][/\ \A n \in Nat \ {0} :
              Waits(n) => Waits(n)' \/ answer'.n = n \/ lost' = n \/ at' = "off"
       /\ Handler \/ CommandEnds \/ SurvivorsEnd => WorkLeft' < WorkLeft
       /\ ~Ask /\ ~Redeliver /\ ~StartRunner => WorkLeft' <= WorkLeft]_vars
=============================================================================
