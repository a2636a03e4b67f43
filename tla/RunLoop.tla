------------------------------ MODULE RunLoop ------------------------------
(***************************************************************************)
(* One scenario: Run of internal/pcops/run.go.                             *)
(*                                                                         *)
(* Run leases a worktree per participant, starts the sessions, and then    *)
(* waits on four channels at once: verdicts from the coordinator's hook,   *)
(* terminal session events from the drainers, fenced leases from the       *)
(* heartbeats, and its own budget.  Whatever it picks first decides how    *)
(* the scenario ends; the deferred calls then unwind, last lease first.    *)
(*                                                                         *)
(* Sessions, heartbeats and the coordinator run concurrently with Run; one *)
(* channel operation, or one call of Run, is one action.                   *)
(*                                                                         *)
(* Operators named Mutant* are faulty variants of the definition below     *)
(* them; they show that a property can fail and are used nowhere.          *)
(***************************************************************************)
EXTENDS Integers, Sequences, FiniteSets, Functions

CONSTANTS
    Agents,         \* cfg.Agents
    Runner,         \* cfg.Runner, which holds a lease but no session
    Required,       \* cfg.Gate.Required
    Versions,       \* version strings
    Verdicts,       \* [passed, versions] verdicts the gate may resolve
    MaxRounds,      \* maxRounds
    Buffer,         \* capacity of the verdicts channel (4 in the code)
    Wall            \* whether the scenario has a wall budget

ASSUME AgentsAssumption ==
    IsFiniteSet(Agents) /\ Agents # {} /\ Runner \notin Agents
ASSUME RequiredAssumption ==
    IsFiniteSet(Required) /\ Required # {} /\ Required \subseteq Agents \cup {Runner}
ASSUME RoundsAssumption == MaxRounds \in Nat \ {0} /\ Buffer \in Nat
ASSUME WallAssumption == Wall \in BOOLEAN

VersionMaps == UNION {[D -> Versions] : D \in SUBSET Required}

ASSUME VerdictsAssumption ==
    Verdicts \subseteq [passed : BOOLEAN, versions : VersionMaps]

Leases == Agents \cup {Runner}
Nobody == "nobody"

VARIABLES
    phase,      \* where Run stands
    held,       \* the leases whose deferred calls are pending, last on top
    session,    \* each agent's session
    beat,       \* each lease's heartbeat goroutine
    informed,   \* a broadcast verdict whose hook is still to be called
    told,       \* a passing verdict has been broadcast to the sessions
    verdicts,   \* chan gate.Verdict
    failures,   \* chan sessionFailure
    lost,       \* chan leaseLoss
    started, base, moved,   \* fixCycle
    rounds,     \* rounds counted against the cap
    fails,      \* history: failing verdicts Run has taken
    outcome     \* what Run returns, and whom it names

cycle == <<started, base, moved>>
loop == <<cycle, rounds, fails>>
chans == <<verdicts, failures, lost>>
gate == <<informed, told>>
vars == <<phase, held, session, beat, gate, chans, loop, outcome>>

NoVerdict == [none |-> TRUE]
NoVersions == [p \in {} |-> p]
Outcome(kind, who) == [kind |-> kind, who |-> who]

Init ==
    /\ phase = "starting"
    /\ held = <<>>
    /\ session = [a \in Agents |-> "none"]
    /\ beat = [l \in Leases |-> "off"]
    /\ informed = NoVerdict /\ told = FALSE
    /\ verdicts = <<>> /\ failures = <<>> /\ lost = <<>>
    /\ started = FALSE /\ base = NoVersions /\ moved = {}
    /\ rounds = 0 /\ fails = 0
    /\ outcome = Outcome("none", Nobody)

\* The send of a verdict, a failure or a loss never finds its channel full.
MutantOfferAlways(chan, value, cap) == Append(chan, value)

\* A send in a select with a default: a full channel drops the value.
Offer(chan, value, cap) == IF Len(chan) < cap THEN Append(chan, value) ELSE chan

Top == held[Len(held)]

\* Run still starts or waits.
Running == phase \in {"starting", "waiting"}
-----------------------------------------------------------------------------
(***************************************************************************)
(* Starting.                                                               *)
(***************************************************************************)

\* The runner's lease comes first, then one lease and one session per agent.
Acquire(l) ==
    /\ phase = "starting" /\ l \notin Range(held)
    /\ held = <<>> <=> l = Runner
    /\ \A a \in Agents \cap Range(held) : session[a] # "none"
    /\ held' = Append(held, l)
    /\ beat' = [beat EXCEPT ![l] = "on"]
    /\ UNCHANGED <<phase, session, gate, chans, loop, outcome>>

StartSession(a) ==
    /\ phase = "starting" /\ held # <<>> /\ a = Top /\ session[a] = "none"
    /\ session' = [session EXCEPT ![a] = "live"]
    /\ phase' = IF Range(held) = Leases THEN "waiting" ELSE "starting"
    /\ UNCHANGED <<held, beat, gate, chans, loop, outcome>>

\* Run leaves its loop.  Its locals are gone and nothing reads the channels
\* any more; what the gate still broadcasts from then on is left out.
Return(kind, who) ==
    /\ outcome' = Outcome(kind, who)
    /\ phase' = "close"
    /\ informed' = NoVerdict /\ told' = FALSE
    /\ verdicts' = <<>> /\ failures' = <<>> /\ lost' = <<>>
    /\ started' = FALSE /\ base' = NoVersions /\ moved' = {} /\ rounds' = 0

\* A lease, a session or a courier cannot be had, or the budget ran out.
StartFails ==
    /\ phase = "starting"
    /\ Return("not started", Nobody)
    /\ UNCHANGED <<held, session, beat, fails>>

-----------------------------------------------------------------------------
(***************************************************************************)
(* The other goroutines.                                                   *)
(***************************************************************************)

\* The coordinator broadcasts a verdict once every required participant has
\* a session to declare itself ready ...
Broadcast ==
    /\ Running /\ informed = NoVerdict
    /\ \A a \in Required \cap Agents : session[a] # "none"
    /\ \E v \in Verdicts : informed' = v /\ told' = (told \/ v.passed)
    /\ UNCHANGED <<phase, held, session, beat, chans, loop, outcome>>

\* ... and then calls the hook that Run installed.
OnVerdict ==
    /\ informed # NoVerdict
    /\ verdicts' = Offer(verdicts, informed, Buffer)
    /\ informed' = NoVerdict
    /\ UNCHANGED <<phase, held, session, beat, told, failures, lost, loop, outcome>>

\* Nothing is forwarded for a session that ends (the defect described at
\* run.go:362).
MutantDiscardEvent(a) == failures

\* The drainer names the agent that was started last (a captured variable).
MutantForwardLast(a) == Offer(failures, Top, Cardinality(Agents) + 1)

\* drainEvents forwards a terminal event.
Forward(a) == Offer(failures, a, Cardinality(Agents) + 1)

\* A session ends, or reports an error, untold that the gate passes, ...
SessionDies(a) ==
    /\ Running /\ session[a] = "live"
    /\ session' = [session EXCEPT ![a] = "died"]
    /\ failures' = Forward(a)
    /\ UNCHANGED <<phase, held, beat, gate, verdicts, lost, loop, outcome>>

\* ... or finishes because its pc submit reported a pass.
SessionFinishes(a) ==
    /\ Running /\ session[a] = "live" /\ told
    /\ session' = [session EXCEPT ![a] = "finished"]
    /\ failures' = Forward(a)
    /\ UNCHANGED <<phase, held, beat, gate, verdicts, lost, loop, outcome>>

\* One slot for a loss, whoever loses a lease (run.go:215).
MutantReportToNobody(l) == Offer(lost, l, 0)

Report(l) == Offer(lost, l, 1 + Cardinality(Agents))

\* heartbeatLease: a renewal finds that the lease is another holder's.  One
\* that goes through, or fails for the moment, leaves no trace here.
Fenced(l) ==
    /\ Running /\ beat[l] = "on"
    /\ lost' = Report(l)
    /\ beat' = [beat EXCEPT ![l] = "fenced"]
    /\ UNCHANGED <<phase, held, session, gate, verdicts, failures, loop, outcome>>

-----------------------------------------------------------------------------
(***************************************************************************)
(* The wait for a verdict.                                                 *)
(***************************************************************************)

\* The required participants v names at another version than the base.
MovedNow(v) ==
    {p \in Required \cap DOMAIN v.versions :
        p \notin DOMAIN base \/ v.versions[p] # base[p]}

\* An unchanged re-run is free (the rule rejected at run.go:65).
MutantCompletesFreeRerun(v) ==
    \/ ~started
    \/ MovedNow(v) = Required
    \/ MovedNow(v) # {} /\ MovedNow(v) \subseteq moved

\* fixCycle.completes: the first failing verdict, one by which the whole
\* quorum has moved, or one that contributes nothing new.
Completes(v) ==
    \/ ~started
    \/ MovedNow(v) = Required
    \/ MovedNow(v) \subseteq moved

\* The most failing verdicts Run can take before it gives up (see GivesUpInTime).
Limit == 1 + (MaxRounds - 1) * (Cardinality(Required) + 1)

TakePass ==
    /\ phase = "waiting" /\ verdicts # <<>> /\ Head(verdicts).passed
    /\ Return("passed", Nobody)
    /\ UNCHANGED <<held, session, beat, fails>>

\* A failing verdict that ends a fix cycle counts, ...
CountRound(v) ==
    /\ Completes(v)
    /\ IF rounds + 1 >= MaxRounds
       THEN Return("cap", Nobody)
       ELSE /\ rounds' = rounds + 1
            /\ started' = TRUE /\ base' = v.versions /\ moved' = {}
            /\ verdicts' = Tail(verdicts)
            /\ UNCHANGED <<phase, gate, failures, lost, outcome>>

\* ... and another one only advances the cycle.
AdvanceCycle(v) ==
    /\ ~Completes(v)
    /\ moved' = moved \cup MovedNow(v)
    /\ verdicts' = Tail(verdicts)
    /\ UNCHANGED <<phase, gate, failures, lost, started, base, rounds, outcome>>

TakeFailure ==
    /\ phase = "waiting" /\ verdicts # <<>> /\ ~Head(verdicts).passed
    /\ CountRound(Head(verdicts)) \/ AdvanceCycle(Head(verdicts))
    /\ fails' = IF fails > Limit THEN fails ELSE fails + 1
    /\ UNCHANGED <<held, session, beat>>

\* A silent retry (ruled out at run.go:147): the session is started again.
MutantTakeDeathRetries ==
    /\ phase = "waiting" /\ failures # <<>>
    /\ failures' = Tail(failures)
    /\ session' = [session EXCEPT ![Head(failures)] = "live"]
    /\ UNCHANGED <<phase, held, beat, gate, verdicts, lost, loop, outcome>>

\* A session's terminal event ends the run, with attribution.
TakeDeath ==
    /\ phase = "waiting" /\ failures # <<>>
    /\ Return("died", Head(failures))
    /\ UNCHANGED <<held, session, beat, fails>>

\* So does a lost lease, ...
TakeLoss ==
    /\ phase = "waiting" /\ lost # <<>>
    /\ Return("lease lost", Head(lost))
    /\ UNCHANGED <<held, session, beat, fails>>

\* ... and the wall budget, if there is one.
BudgetExhausted ==
    /\ phase = "waiting" /\ Wall
    /\ Return("budget", Nobody)
    /\ UNCHANGED <<held, session, beat, fails>>

-----------------------------------------------------------------------------
(***************************************************************************)
(* The deferred calls: for each lease, last first, its session is closed,  *)
(* its heartbeat is told to stop, and the lease is released.               *)
(***************************************************************************)

CloseSession ==
    /\ phase = "close" /\ held # <<>>
    /\ session' = [x \in Agents |-> IF x = Top /\ session[x] = "live"
                                   THEN "closed" ELSE session[x]]
    /\ phase' = "stop"
    /\ UNCHANGED <<held, beat, gate, chans, loop, outcome>>

\* The stop function of another lease is deferred (run.go:283).
MutantStopHeartbeat ==
    /\ phase = "stop"
    /\ beat' = [beat EXCEPT ![held[1]] = IF @ = "on" THEN "off" ELSE @]
    /\ phase' = "release"
    /\ UNCHANGED <<held, session, gate, chans, loop, outcome>>

\* startHeartbeat's stop function.
StopHeartbeat ==
    /\ phase = "stop"
    /\ beat' = [beat EXCEPT ![Top] = IF @ = "on" THEN "off" ELSE @]
    /\ phase' = "release"
    /\ UNCHANGED <<held, session, gate, chans, loop, outcome>>

Release ==
    /\ phase = "release"
    /\ held' = SubSeq(held, 1, Len(held) - 1)
    /\ phase' = "close"
    /\ UNCHANGED <<session, beat, gate, chans, loop, outcome>>

Returned ==
    /\ phase = "close" /\ held = <<>>
    /\ phase' = "done"
    /\ UNCHANGED <<held, session, beat, gate, chans, loop, outcome>>

Start == (\E l \in Leases : Acquire(l)) \/ \E a \in Agents : StartSession(a)
Wait == TakePass \/ TakeFailure \/ TakeDeath \/ TakeLoss
Unwind == CloseSession \/ StopHeartbeat \/ Release \/ Returned
Session(a) == SessionDies(a) \/ SessionFinishes(a)

Next ==
    \/ Start \/ StartFails
    \/ Wait \/ BudgetExhausted
    \/ Unwind
    \/ Broadcast \/ OnVerdict
    \/ \E a \in Agents : Session(a)
    \/ \E l \in Leases : Fenced(l)

Spec == Init /\ [][Next]_vars

\* Run's own goroutine runs when it can.  Nobody else is obliged to act: not
\* a session, not the gate, and the wall budget need not exist.
FairSpec == Spec /\ WF_vars(Start \/ Wait \/ Unwind)
-----------------------------------------------------------------------------
(***************************************************************************)
(* Properties.                                                             *)
(***************************************************************************)

\* The type of every variable of Run and of the goroutines it waits for: the
\* verdicts channel stays within its capacity and a deferred call is under way
\* only while a lease is left (run.go:220).
TypeOK ==
    /\ phase \in {"starting", "waiting", "close", "stop", "release", "done"}
    /\ held \in Seq(Leases)
    /\ session \in [Agents -> {"none", "live", "died", "finished", "closed"}]
    /\ beat \in [Leases -> {"off", "on", "fenced"}]
    /\ informed \in Verdicts \cup {NoVerdict} /\ told \in BOOLEAN
    /\ verdicts \in Seq(Verdicts) /\ Len(verdicts) <= Buffer
    /\ failures \in Seq(Agents) /\ lost \in Seq(Leases)
    /\ started \in BOOLEAN /\ base \in VersionMaps /\ moved \in SUBSET Required
    /\ rounds \in 0 .. MaxRounds - 1 /\ fails \in Nat
    /\ phase \in {"stop", "release"} => held # <<>>

\* Run gives up on a gate that keeps failing, whatever the participants
\* resubmit and with no wall budget (run.go:65): a fix cycle lasts at most
\* one verdict per required participant beyond the one that ends it.
GivesUpInTime == fails <= Limit

\* A dead session is never invisible to a waiting Run (run.go:362): the
\* channel of failures has not dropped the last trace of it.
DeathIsVisible ==
    Running =>
        \A a \in Agents : session[a] \in {"died", "finished"} =>
            failures # <<>>

\* No fenced lease is ever discarded before Run returns (run.go:215): the
\* channel holds every lease whose heartbeat stopped on a loss.
LossIsKept ==
    Running =>
        \A l \in Leases : beat[l] = "fenced" => l \in Range(lost)

\* Run's attribution is right: whom it blames has ended, or has lost a lease
\* (run.go:145, 151).
BlameIsDeserved ==
    /\ outcome.kind = "died" =>
          session[outcome.who] \in {"died", "finished"}
    /\ outcome.kind = "lease lost" => beat[outcome.who] = "fenced"

\* No worktree is given up under a session that works in it, and no renewal
\* starts once the lease is given up (run.go:386).
GivenUpLast ==
    phase # "starting" =>
        \A l \in Leases \ Range(held) :
            /\ l \in Agents => session[l] # "live"
            /\ beat[l] # "on"

\* The invariant that makes the first three inductive.  A started cycle has
\* been paid for by one counted round, and a failing verdict that did not
\* count has made a further participant move; one failure or more is queued
\* as soon as a session is dead, and one loss for every fenced lease.
FencedLeases == {l \in Leases : beat[l] = "fenced"}

Paid(n) == 1 + (n - 1) * (Cardinality(Required) + 1)

RunInv ==
    /\ TypeOK
    /\ GivesUpInTime /\ DeathIsVisible /\ LossIsKept
    /\ Running /\ ~started => rounds = 0 /\ fails = 0
    /\ Running /\ started => rounds >= 1 /\ fails <= Paid(rounds) + Cardinality(moved)
    /\ Running => Len(lost) = Cardinality(FencedLeases)
    /\ Running => \A l \in Leases \ Range(held) : beat[l] = "off"

\* What makes BlameIsDeserved inductive: nobody is blamed before Run returns,
\* and only the ended and the fenced are queued.
BlameInv ==
    /\ BlameIsDeserved
    /\ outcome.kind = "died" => outcome.who \in Agents
    /\ outcome.kind = "lease lost" => outcome.who \in Leases
    /\ Running =>
          /\ outcome = Outcome("none", Nobody)
          /\ \A a \in Range(failures) : session[a] \in {"died", "finished"}
          /\ \A l \in Range(lost) : beat[l] = "fenced"

\* A lease can be given up: nobody works in it and nobody renews it.
Idle(l) == (l \in Agents => session[l] # "live") /\ beat[l] # "on"

\* What makes GivenUpLast inductive: what is not held is idle from the start,
\* and the deferred calls make the lease on top so before it is released.
UnwindInv ==
    /\ \A l \in Leases \ Range(held) : Idle(l)
    /\ phase \in {"stop", "release"} /\ Top \in Agents => session[Top] # "live"
    /\ phase = "release" => beat[Top] # "on"

\* A dead session or a lost lease ends the run with no wall budget, however
\* many verdicts compete for Run's attention (run.go:362).
TroubleEndsTheRun ==
    (phase = "waiting" /\ (failures # <<>> \/ lost # <<>>)) ~> phase = "done"

\* How many steps Run's own goroutine can still take: leases and sessions to
\* start, failing verdicts before it gives up, deferred calls.
Unleased == Leases \ Range(held)
Unstarted == {a \in Agents : session[a] = "none"}

StepsLeft ==
    CASE phase = "starting" -> 4 * Cardinality(Unleased) + Cardinality(Unstarted)
                                 + Limit + 2 + 3 * Len(held)
      [] phase = "waiting" -> Limit + 2 - fails + 3 * Len(held)
      [] phase = "close" -> 3 * Len(held) + 1
      [] phase = "stop" -> 3 * Len(held)
      [] phase = "release" -> 3 * Len(held) - 1
      [] OTHER -> 0

\* What TroubleEndsTheRun comes to, with Run's goroutine running: nothing that
\* sessions, leases and the gate do gives Run more to do, each step of its own
\* leaves less, and what ends it stays in its channel until Run takes it.
RunIsBounded ==
    [][/\ StepsLeft' <= StepsLeft
       /\ Start \/ StartFails \/ Wait \/ BudgetExhausted \/ Unwind =>
              StepsLeft' < StepsLeft
       /\ phase = "waiting" /\ phase' = "waiting" =>
              /\ failures # <<>> => failures' # <<>>
              /\ lost # <<>> => lost' # <<>>]_vars

\* "a spawned session ended or errored before the gate reached a verdict"
\* (run.go:145): a session that finished because the gate passed is not
\* reported as one that died.
FinishedIsNotDied ==
    outcome.kind = "died" => session[outcome.who] # "finished"
=============================================================================
