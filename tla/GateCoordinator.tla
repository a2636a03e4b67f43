-------------------------- MODULE GateCoordinator --------------------------
(***************************************************************************)
(* The gate coordinator of pkg/gate/gate.go for one gate: participants     *)
(* declare readiness, a full quorum opens a round, the runner (or the      *)
(* runner timeout) settles it, and the verdict is broadcast, remembered    *)
(* and replayed.                                                           *)
(*                                                                         *)
(* Two kinds of goroutine run this code.  The dispatch loop of the hosting *)
(* agent (agent.Run, one message at a time) runs onReady, open and         *)
(* onVerdictMsg; every opened round also arms a time.AfterFunc timer that  *)
(* runs on a goroutine of its own.  One action is one critical section of  *)
(* gateState.mu or one publication, so the interleavings of the loop with  *)
(* the timers are those the mutex allows.  A step's publication is the     *)
(* value of out after it.                                                  *)
(***************************************************************************)
EXTENDS Integers, Sequences, FiniteSets, Functions

CONSTANTS
    Participants,   \* agents that may declare readiness
    Required,       \* Spec.Required
    Versions,       \* version strings
    Reports,        \* [passed, versions] replies the runner may give
    MaxGen,         \* bound: resolutions after which no round is started
    MaxQueue        \* bound: requests the runner's inbox holds

ASSUME RequiredAssumption == IsFiniteSet(Required) /\ Required # {}
ASSUME BoundsAssumption == MaxGen \in Nat /\ MaxQueue \in Nat

\* map[string]string: the versions known of some of the agents in S.
VersionMaps(S) == UNION {[D -> Versions] : D \in SUBSET S}
NoVersions == [p \in {} |-> p]

ASSUME ReportsAssumption ==
    Reports \subseteq [passed : BOOLEAN, versions : VersionMaps(Participants)]

Loop == 0                              \* agent.Run's goroutine
Timers == 1 .. MaxGen                  \* timer g + 1 belongs to generation g
Goroutines == {Loop} \cup Timers

Verdicts == [passed : BOOLEAN, stalled : BOOLEAN, cached : BOOLEAN,
             versions : VersionMaps(Participants \cup Required)]
Verdict(passed, stalled, cached, versions) ==
    [passed |-> passed, stalled |-> stalled, cached |-> cached,
     versions |-> versions]
NoVerdict == [none |-> TRUE]

Silence == [kind |-> "silence"]
Ack(p, outstanding, running) ==
    [kind |-> "ack", to |-> p, outstanding |-> outstanding, running |-> running]
Nack(p, testing) == [kind |-> "nack", to |-> p, testing |-> testing]

VARIABLES
    ready,      \* gateState.ready
    inflight,   \* gateState.inflight
    gen,        \* gateState.gen
    last,       \* gateState.lastVerdict with lastStalled, or NoVerdict
    pc,         \* where each goroutine stands
    verdict,    \* the verdict each goroutine is resolving with
    reply,      \* the Ack or Nack the loop has yet to send
    requests,   \* requested combinations, on their way to the runner or at it
    replies,    \* its replies on their way back, each with what it answers
    out         \* what the last step published

gateState == <<ready, inflight, gen, last>>
locals == <<pc, verdict, reply>>
runner == <<requests, replies>>
vars == <<gateState, locals, runner, out>>

Init ==
    /\ ready = NoVersions
    /\ inflight = FALSE
    /\ gen = 0
    /\ last = NoVerdict
    /\ pc = [g \in Goroutines |-> IF g = Loop THEN "idle" ELSE "off"]
    /\ verdict = [g \in Goroutines |-> NoVerdict]
    /\ reply = Silence
    /\ requests = <<>>
    /\ replies = <<>>
    /\ out = Silence

-----------------------------------------------------------------------------
(***************************************************************************)
(* onReady: four outcomes of one critical section.                         *)
(*                                                                         *)
(* Operators named Mutant* are faulty variants of the definition below     *)
(* them; they show that a property can fail and are used nowhere.          *)
(***************************************************************************)

\* The cache stops answering.
MutantRememberedNever(p, v) == FALSE

\* The remembered verdict covered p at exactly this version.
Remembered(p, v) ==
    /\ last # NoVerdict
    /\ p \in DOMAIN last.versions
    /\ last.versions[p] = v

\* outstandingFor over the claims r.
Outstanding(r) == Required \ DOMAIN r

\* len(gs.ready) == len(gs.spec.Required)
Full(r) == Cardinality(DOMAIN r) = Cardinality(Required)

\* gs.ready[p] = v
Claim(p, v) == [q \in DOMAIN ready \cup {p} |-> IF q = p THEN v ELSE ready[q]]

\* Answered from the remembered round: a synthetic round is resolved.
ReplayVerdict(p, v) ==
    /\ pc[Loop] = "idle" /\ p \in Required /\ ~inflight /\ gen < MaxGen
    /\ Remembered(p, v)
    /\ inflight' = TRUE
    /\ verdict' = [verdict EXCEPT ![Loop] =
                      Verdict(last.passed, last.stalled, TRUE, last.versions)]
    /\ pc' = [pc EXCEPT ![Loop] = "settle"]
    /\ out' = Silence
    /\ UNCHANGED <<ready, gen, last, reply, runner>>

\* Without sticky invalidation (the defect described at gate.go:218).
MutantRecordReadyKeeps(p, v) ==
    /\ pc[Loop] = "idle" /\ p \in Required /\ ~inflight /\ gen < MaxGen
    /\ ~Remembered(p, v)
    /\ ready' = Claim(p, v)
    /\ reply' = Ack(p, Outstanding(ready'), Full(ready'))
    /\ pc' = [pc EXCEPT ![Loop] = IF Full(ready') THEN "open" ELSE "reply"]
    /\ out' = Silence
    /\ UNCHANGED <<inflight, gen, last, verdict, runner>>

\* Recorded: a remembered verdict the version diverges from is discarded,
\* and a completed quorum goes on to open a round.
RecordReady(p, v) ==
    /\ pc[Loop] = "idle" /\ p \in Required /\ ~inflight /\ gen < MaxGen
    /\ ~Remembered(p, v)
    /\ last' = NoVerdict
    /\ ready' = Claim(p, v)
    /\ reply' = Ack(p, Outstanding(ready'), Full(ready'))
    /\ pc' = [pc EXCEPT ![Loop] = IF Full(ready') THEN "open" ELSE "reply"]
    /\ out' = Silence
    /\ UNCHANGED <<inflight, gen, verdict, runner>>

\* Refused: a round is in flight.
RefuseReady(p) ==
    /\ pc[Loop] = "idle" /\ p \in Required /\ inflight
    /\ reply' = Nack(p, ready)
    /\ pc' = [pc EXCEPT ![Loop] = "reply"]
    /\ out' = Silence
    /\ UNCHANGED <<gateState, verdict, runner>>

\* Ignored: the sender is not required.
IgnoreReady(p) ==
    /\ pc[Loop] = "idle" /\ p \notin Required
    /\ out' = Silence
    /\ UNCHANGED <<gateState, locals, runner>>

OnReady ==
    \E p \in Participants, v \in Versions :
        ReplayVerdict(p, v) \/ RecordReady(p, v) \/ RefuseReady(p) \/ IgnoreReady(p)

\* open: the round goes in flight, the request is published (a full inbox
\* drops it) and the runner timer is armed.
Open ==
    /\ pc[Loop] = "open"
    /\ inflight' = TRUE
    /\ requests' = IF Len(requests) < MaxQueue
                   THEN Append(requests, ready)
                   ELSE requests
    /\ pc' = [pc EXCEPT ![Loop] = "reply", ![gen + 1] = "armed"]
    /\ out' = Silence
    /\ UNCHANGED <<ready, gen, last, verdict, reply, replies>>

\* agent.dispatch sends what onReady returned, after open has returned.
SendReply ==
    /\ pc[Loop] = "reply"
    /\ out' = reply
    /\ reply' = Silence
    /\ pc' = [pc EXCEPT ![Loop] = "idle"]
    /\ UNCHANGED <<gateState, verdict, runner>>

-----------------------------------------------------------------------------
(***************************************************************************)
(* The runner, and what settles a round.                                   *)
(***************************************************************************)

\* ServeRunner: one request at a time, in order, however long it takes.
RunnerReplies ==
    /\ requests # <<>>
    /\ \E r \in Reports :
           replies' = Append(replies, [asked |-> Head(requests), report |-> r])
    /\ requests' = Tail(requests)
    /\ out' = Silence
    /\ UNCHANGED <<gateState, locals>>

\* The runner, or the bus, loses the request.
RunnerLoses ==
    /\ requests # <<>>
    /\ requests' = Tail(requests)
    /\ out' = Silence
    /\ UNCHANGED <<gateState, locals, replies>>

\* onVerdictMsg: nothing ties the reply to the round in flight.
OnVerdictMsg ==
    /\ pc[Loop] = "idle" /\ replies # <<>>
    /\ LET r == Head(replies).report
       IN  verdict' = [verdict EXCEPT ![Loop] =
                          Verdict(r.passed, FALSE, FALSE, r.versions)]
    /\ pc' = [pc EXCEPT ![Loop] = "settle"]
    /\ replies' = Tail(replies)
    /\ out' = Silence
    /\ UNCHANGED <<gateState, reply, requests>>

\* The fence inverted.
MutantStaleInverted(t) == gen = t - 1 \/ ~inflight

\* The round this timer was armed for has been resolved.
Stale(t) == gen # t - 1 \/ ~inflight

\* The timer's first critical section: is this round still unresolved?
TimerFires(t) ==
    /\ pc[t] = "armed"
    /\ IF Stale(t)
       THEN /\ pc' = [pc EXCEPT ![t] = "off"]
            /\ UNCHANGED verdict
       ELSE /\ pc' = [pc EXCEPT ![t] = "settle"]
            /\ verdict' = [verdict EXCEPT ![t] =
                              Verdict(FALSE, TRUE, FALSE, NoVersions)]
    /\ out' = Silence
    /\ UNCHANGED <<gateState, reply, runner>>

\* The backfill as a switch on an empty report (gate.go:469).
MutantBackfillAllOrNothing(told) == IF DOMAIN told = {} THEN ready ELSE told

\* What the verdict leaves unsaid of a required participant is filled in
\* from its standing claim.
Backfill(told) ==
    [p \in DOMAIN told \cup (Required \cap DOMAIN ready) |->
        IF p \in DOMAIN told THEN told[p] ELSE ready[p]]

Backfilled(w, cached) ==
    Verdict(w.passed, w.stalled, cached, Backfill(w.versions))

\* Readiness consumed by the round (gate.go:494).
MutantRestateClears(tested) == NoVersions

\* Claims restated for agents that are not required (gate.go:507).
MutantRestateAnybody(tested) ==
    [p \in DOMAIN ready \cup DOMAIN tested |->
        IF p \in DOMAIN tested THEN tested[p] ELSE ready[p]]

\* gs.ready after a verdict naming these versions: standing claims are
\* overwritten with what was tested, of required participants only.
Restate(tested) ==
    [p \in DOMAIN ready \cup (Required \cap DOMAIN tested) |->
        IF p \in Required \cap DOMAIN tested THEN tested[p] ELSE ready[p]]

Return(g) == IF g = Loop THEN "idle" ELSE "off"

\* resolve's critical section, entered by the loop or by a timer.
Settle(g) ==
    /\ pc[g] = "settle"
    /\ IF ~inflight
       THEN /\ pc' = [pc EXCEPT ![g] = Return(g)]
            /\ verdict' = [verdict EXCEPT ![g] = NoVerdict]
            /\ UNCHANGED gateState
       ELSE /\ inflight' = FALSE
            /\ gen' = gen + 1
            /\ ready' = Restate(Backfill(verdict[g].versions))
            /\ last' = Backfilled(verdict[g], FALSE)
            /\ verdict' = [verdict EXCEPT ![g] = Backfilled(@, @.cached)]
            /\ pc' = [pc EXCEPT ![g] = "inform"]
    /\ out' = Silence
    /\ UNCHANGED <<reply, runner>>

\* resolve's publications, outside the lock: the broadcast, ...
Inform(g) ==
    /\ pc[g] = "inform"
    /\ out' = [kind |-> "inform", verdict |-> verdict[g]]
    /\ pc' = [pc EXCEPT ![g] = IF verdict[g].passed THEN "hook" ELSE "block"]
    /\ UNCHANGED <<gateState, verdict, reply, runner>>

\* ... a block to every required participant when the round failed, ...
Block(g) ==
    /\ pc[g] = "block"
    /\ out' = [kind |-> "block", to |-> Required]
    /\ pc' = [pc EXCEPT ![g] = "hook"]
    /\ UNCHANGED <<gateState, verdict, reply, runner>>

\* ... and the OnVerdict hook.
Hook(g) ==
    /\ pc[g] = "hook"
    /\ out' = [kind |-> "hook", verdict |-> verdict[g]]
    /\ pc' = [pc EXCEPT ![g] = Return(g)]
    /\ verdict' = [verdict EXCEPT ![g] = NoVerdict]
    /\ UNCHANGED <<gateState, reply, runner>>

Resolve(g) == Settle(g) \/ Inform(g) \/ Block(g) \/ Hook(g)

LoopStep == Open \/ SendReply \/ Resolve(Loop)
TimerStep(t) == TimerFires(t) \/ Resolve(t)

Next ==
    \/ OnReady
    \/ OnVerdictMsg
    \/ LoopStep
    \/ \E t \in Timers : TimerStep(t)
    \/ RunnerReplies
    \/ RunnerLoses

Spec == Init /\ [][Next]_vars

\* The Go scheduler runs a runnable goroutine and time.AfterFunc fires; no
\* participant and no runner is obliged to do anything.
FairSpec ==
    /\ Spec
    /\ WF_vars(LoopStep)
    /\ \A t \in Timers : WF_vars(TimerStep(t))
-----------------------------------------------------------------------------
(***************************************************************************)
(* Properties.                                                             *)
(***************************************************************************)

Messages ==
    {Silence}
    \cup [kind : {"ack"}, to : Required, outstanding : SUBSET Required,
          running : BOOLEAN]
    \cup [kind : {"nack"}, to : Required, testing : VersionMaps(Required)]

Publications ==
    Messages
    \cup [kind : {"inform", "hook"}, verdict : Verdicts]
    \cup {[kind |-> "block", to |-> Required]}

Resolving(g) == pc[g] \in {"settle", "inform", "block", "hook"}

\* The type of every variable of the coordinator and its goroutines.
TypeOK ==
    /\ ready \in VersionMaps(Required)
    /\ inflight \in BOOLEAN
    /\ gen \in Nat
    /\ last \in Verdicts \cup {NoVerdict}
    /\ pc \in [Goroutines -> {"idle", "open", "reply", "settle", "inform",
                              "block", "hook", "off", "armed"}]
    /\ verdict \in [Goroutines -> Verdicts \cup {NoVerdict}]
    /\ \A g \in Goroutines : Resolving(g) => verdict[g] # NoVerdict
    /\ reply \in Messages
    /\ requests \in Seq(VersionMaps(Required))
    /\ replies \in Seq([asked : VersionMaps(Required), report : Reports])
    /\ out \in Publications

\* A standing quorum is never lost (gate.go:266): from the first round on,
\* in flight or settled, every required participant has a standing claim,
\* and nobody else has one (an extra key would starve the exact count).
QuorumIsNeverLost == inflight \/ gen > 0 => DOMAIN ready = Required

\* "The standing claims and the cache agree by construction": whenever a
\* Ready could be answered from the remembered verdict, that verdict covers
\* exactly the versions every participant currently claims (gate.go:216).
RememberedRoundIsCurrent ==
    last # NoVerdict /\ ~inflight =>
        \A p \in Required : p \in DOMAIN last.versions /\ last.versions[p] = ready[p]

\* The nil that sticky invalidation writes can never be read (gate.go:261):
\* once a round has been settled, the loop never takes a message with no
\* round in flight and no verdict remembered.
DiscardIsNeverRead == pc[Loop] = "idle" /\ ~inflight /\ gen > 0 => last # NoVerdict

\* Every broadcast verdict names every required participant (gate.go:476): a
\* missing key reads downstream as "this verdict did not name me" and the
\* submitter waits out its whole budget.
VerdictNamesEveryone ==
    out.kind = "inform" => Required \subseteq DOMAIN out.verdict.versions

\* Readiness stands (gate.go:493): after the first round a participant that
\* resubmits alone never waits for a peer, its Ack says a round is running.
NobodyWaitsForAPeer ==
    out.kind = "ack" /\ gen > 0 => out.running /\ out.outstanding = {}

\* The invariant that makes the five above inductive.  A round is opened
\* only by a full quorum that has discarded the remembered verdict; a
\* verdict is remembered from the first settled round on, except while a
\* discarding Ready is on its way to open; an Ack that leaves its sender
\* waiting for peers exists only before the first round.
Waiting(m) == m.kind = "ack" /\ ~(m.running /\ m.outstanding = {})

CoordinatorInv ==
    /\ TypeOK
    /\ QuorumIsNeverLost
    /\ RememberedRoundIsCurrent
    /\ last # NoVerdict => gen > 0
    /\ pc[Loop] = "open" => ~inflight /\ last = NoVerdict /\ DOMAIN ready = Required
    /\ ~inflight /\ gen > 0 /\ pc[Loop] # "open" => last # NoVerdict
    /\ \A g \in Goroutines : pc[g] \in {"inform", "block", "hook"} =>
           Required \subseteq DOMAIN verdict[g].versions
    /\ VerdictNamesEveryone
    /\ Waiting(reply) \/ Waiting(out) => gen = 0 /\ ~inflight /\ pc[Loop] # "open"

\* A remembered verdict is discarded only for a combination of standing
\* claims that differs from the one it covered (sticky design, section 4).
DiscardMeansANewCombination ==
    [][last # NoVerdict /\ last' = NoVerdict =>
           \E p \in Required : ready'[p] # last.versions[p]]_vars

\* A completed quorum is followed by a broadcast verdict, whatever becomes
\* of the request and of the runner, which may never answer (gate.go:416).
QuorumIsAnswered == pc[Loop] = "open" ~> out.kind = "inform"

(***************************************************************************)
(* What makes every round end, and what the two statements below come to.  *)
(***************************************************************************)

\* A round in flight has its own timer running, or is being settled by the
\* loop: with a lost request and a dead runner too, something will end it.
RoundIsTimed ==
    inflight => /\ gen + 1 \in Timers
                /\ pc[gen + 1] \in {"armed", "settle"} \/ pc[Loop] = "settle"

\* It is inductive with this: a timer is off until its round is opened.
TimedInv ==
    /\ RoundIsTimed
    /\ pc[Loop] = "open" => gen < MaxGen
    /\ \A t \in Timers : pc[t] # "off" => t <= gen \/ (inflight /\ t = gen + 1)

\* No two rounds are settled as the same generation, and a timer settles its
\* own round or, when that one is over, a later one: never an earlier one.
RoundsSettleInTurn ==
    [][\A g \in Goroutines : pc[g] = "settle" /\ pc'[g] = "inform" =>
           /\ inflight /\ ~inflight' /\ gen' = gen + 1
           /\ g \in Timers => g <= gen + 1]_vars

\* Nobody starts a round, from a quorum or from the remembered verdict, while
\* a timer stands between its check and resolve.
Unraced == ~inflight /\ inflight' => \A t \in Timers : pc[t] # "settle"
UnracedSpec == Init /\ [][Next /\ Unraced]_vars

\* What the fence comes to then.
FenceInv == \A t \in Timers : pc[t] = "settle" /\ inflight => gen = t - 1

\* A runner that is never too late: no round is declared stalled.
PromptSpec == Init /\ [][Next /\ \A t \in Timers : pc'[t] # "settle"]_vars

\* A reply is taken while the round it answers is in flight, and describes
\* the claims that the backfill would fill in.
RepliesFitTheRound ==
    [][OnVerdictMsg => inflight /\ Head(replies).asked = ready]_vars

\* It is inductive with this: at most one request or reply is under way, and
\* only while its round waits to be settled.
PromptInv ==
    /\ \A t \in Timers : pc[t] \in {"off", "armed"}
    /\ Len(requests) + Len(replies) <= 1
    /\ requests # <<>> \/ replies # <<>> =>
           inflight /\ pc[Loop] \in {"idle", "reply"}
    /\ \A i \in DOMAIN requests : requests[i] = ready
    /\ \A i \in DOMAIN replies : replies[i].asked = ready
-----------------------------------------------------------------------------
(***************************************************************************)
(* Statements of the sources that the code does not keep.                  *)
(***************************************************************************)

\* "bumped on each resolution; invalidates stale timers" (gate.go:102): a
\* timer settles only the round it was armed for.
TimersAreFenced ==
    [][\A t \in Timers :
          pc[t] = "settle" /\ pc'[t] = "inform" => gen = t - 1]_vars

\* "the coordinator's backfill should describe the round instead"
\* (rungate.go:67): a reply that reports no versions is taken for the round
\* it answers.
BackfillDescribesTheRound ==
    [][OnVerdictMsg /\ inflight /\ Head(replies).report.versions = NoVersions =>
           Head(replies).asked = ready]_vars

=============================================================================
