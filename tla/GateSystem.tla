----------------------------- MODULE GateSystem -----------------------------
(***************************************************************************)
(* A pc submit process of one agent (Submit), the coordinator              *)
(* (GateCoordinator) and the durable bus between them.  The other          *)
(* participants declare readiness whenever they like.                      *)
(*                                                                         *)
(* The bus delivers every message, in order, and hands it over again to a  *)
(* process that starts from an older position (SqliteBus).  Operators      *)
(* named Mutant* are faulty variants and used nowhere.                     *)
(***************************************************************************)
EXTENDS Submit, Integers, FiniteSets

CONSTANTS
    Participants, Required, Reports, MaxGen, MaxQueue,  \* of GateCoordinator
    MaxPeers,       \* bound: Readies of other participants
    BranchMoves     \* may the runner merge other versions than it was asked?

ASSUME MeAssumption == Me \in Required /\ NoVersion \notin Versions
ASSUME RequiredAssumption == IsFiniteSet(Required) /\ Required \subseteq Participants
ASSUME BoundsAssumption == MaxGen \in Nat /\ MaxQueue \in Nat

VARIABLES
    ready, inflight, gen, last, pc, verdict, reply, requests, replies, out,
    peers,      \* history: Readies of other participants
    earned,     \* history: versions of Me in combinations the runner passed
    moved       \* history: the runner has merged another version of Me

Gate == INSTANCE GateCoordinator

ASSUME ReportsAssumption ==
    Reports \subseteq [passed : BOOLEAN, versions : Gate!VersionMaps(Participants)]

\* A runner that passes names every participant (Runner, AnswersNameCommits).
ASSUME PassAssumption ==
    \A r \in Reports : r.passed => Me \in DOMAIN r.versions

history == <<peers, earned, moved>>
gateVars == <<ready, inflight, gen, last, pc, verdict, reply, requests, replies, out>>
vars == <<submitVars, gateVars, history>>

Init ==
    /\ SubmitInit /\ Gate!Init
    /\ peers = 0 /\ earned = {} /\ moved = FALSE
-----------------------------------------------------------------------------
\* versions[agentName], "" when the map does not name it.
VersionOf(versions) == IF Me \in DOMAIN versions THEN versions[Me] ELSE NoVersion

\* What a publication puts before the agent's next submit process.
ToMe(m) ==
    IF m.kind = "inform"
    THEN <<[kind |-> "inform", passed |-> m.verdict.passed,
            tested |-> VersionOf(m.verdict.versions), old |-> FALSE]>>
    ELSE IF m.kind \in {"ack", "nack"} /\ m.to = Me
    THEN <<[kind |-> m.kind, passed |-> FALSE, tested |-> NoVersion, old |-> FALSE]>>
    ELSE <<>>

Carried ==
    /\ mail' = IF at = "done" THEN mail ELSE mail \o ToMe(out')
    /\ UNCHANGED <<at, version, waiter, dispatch>>

OnReadyFrom(p, v) ==
    \/ Gate!ReplayVerdict(p, v) \/ Gate!RecordReady(p, v) \/ Gate!RefuseReady(p)

\* The coordinator takes the agent's Ready from the bus.
MyReady ==
    /\ sent # <<>> /\ OnReadyFrom(Me, Head(sent))
    /\ sent' = Tail(sent)
    /\ Carried /\ UNCHANGED history

PeerReady ==
    /\ peers < MaxPeers
    /\ \E p \in Required \ {Me}, v \in Versions : OnReadyFrom(p, v)
    /\ peers' = peers + 1
    /\ Carried /\ UNCHANGED <<sent, earned, moved>>

\* The runner answers for what it was asked, names nobody after a merge
\* failure, or names the commits it found when branches have moved.
RunnerReplies ==
    /\ Gate!RunnerReplies
    /\ LET asked == Head(requests)
           report == replies'[Len(replies')].report
       IN  /\ report.versions \in {asked, Gate!NoVersions} \/ BranchMoves
           /\ earned' = IF report.passed THEN earned \cup {VersionOf(report.versions)}
                                         ELSE earned
           /\ moved' = (moved \/ (VersionOf(report.versions)
                                    \notin {VersionOf(asked), NoVersion}))
    /\ Carried /\ UNCHANGED <<sent, peers>>

CoordinatorStep ==
    /\ \/ Gate!LoopStep \/ Gate!OnVerdictMsg
       \/ \E t \in Gate!Timers : Gate!TimerStep(t)
    /\ Carried /\ UNCHANGED <<sent, history>>

Next ==
    \/ SubmitNext /\ UNCHANGED <<gateVars, history>>
    \/ MyReady \/ PeerReady \/ RunnerReplies \/ CoordinatorStep

Spec == Init /\ [][Next]_vars
-----------------------------------------------------------------------------
\* The types of the process, of the coordinator and of the histories: a handler
\* never offers a signal without a message in hand (submitwaiter.go:221).
TypeOK == SubmitTypeOK /\ Gate!TypeOK /\ peers \in Nat /\ earned \subseteq Versions

\* The coordinator serves this agent, its peers and the runner as it serves
\* anybody: what GateCoordinator's properties say of it holds here.
ImplementsCoordinator == Gate!Spec

\* pc submit exits 0 only if the runner has passed a combination that held
\* this very version (submit.go:105).
PassIsEarned ==
    Has("verdicts") /\ chan["verdicts"].passed => version \in earned

\* The verdict or report w, if it passed, is for a version of Me that earned it.
Deserved(w) == w.passed => Me \in DOMAIN w.versions /\ w.versions[Me] \in earned

\* What makes PassIsEarned inductive: a pass is earned wherever it has got to,
\* at the coordinator ...
GateEarned ==
    /\ \A i \in DOMAIN replies : Deserved(replies[i].report)
    /\ last # Gate!NoVerdict => Deserved(last)
    /\ \A g \in Gate!Goroutines : verdict[g] # Gate!NoVerdict => Deserved(verdict[g])
    /\ out.kind = "inform" => Deserved(out.verdict)

\* ... and on its way through the process.
SubmitEarned ==
    /\ \A i \in DOMAIN mail : mail[i].passed => mail[i].tested \in earned
    /\ handling # Empty /\ handling.passed => handling.tested \in earned
    /\ offer # Empty /\ offer.kind = "verdicts" /\ offer.passed => version \in earned
    /\ PassIsEarned

\* Nothing is on its way to the process, and nothing is going on at the
\* coordinator but timers that wait.
Quiet ==
    /\ sent = <<>> /\ mail = <<>> /\ handling = Empty
    /\ pc[Gate!Loop] = "idle"
    /\ \A t \in Gate!Timers : pc[t] \in {"off", "armed"}

\* One of the channels that the process waits on holds a signal.
Hearing == \E c \in Awaited : Has(c)

\* The agent stands ready with this version for a round that lacks a peer.
LacksPeer == VersionOf(ready) = version /\ Gate!Outstanding(ready) # {}

\* An attempt never waits for an answer that has come and gone (F4): once
\* everything is quiet, a process that waits to be acknowledged, or for a
\* round that is over, has something to take; and one that waits for its
\* verdict has, or lacks a peer.
NobodyIsDeaf ==
    Quiet =>
        /\ at = "ack" => Hearing
        /\ at = "round" /\ ~inflight => Hearing
        /\ at = "verdict" /\ ~inflight => Hearing \/ LacksPeer

(***************************************************************************)
(* What makes NobodyIsDeaf inductive: the answer that an attempt waits for *)
(* is always somewhere, if it is not in a channel that the attempt reads.  *)
(***************************************************************************)

Publishing == \E g \in Gate!Goroutines : pc[g] = "inform"
FreshMail(kind) == {i \in DOMAIN mail : mail[i].kind = kind /\ ~mail[i].old}

\* A verdict for this version is being made, ...
VerdictAtGate ==
    \/ \E g \in Gate!Goroutines :
           pc[g] = "inform" /\ VersionOf(verdict[g].versions) = version
    \/ /\ pc[Gate!Loop] = "settle" /\ inflight
       /\ VersionOf(verdict[Gate!Loop].versions) = version /\ VersionOf(ready) = version

\* ... or is on its way to the attempt.
VerdictComes ==
    \/ VerdictAtGate
    \/ \E i \in FreshMail("inform") : mail[i].tested = version
    \/ handling.kind = "inform" /\ handling.tested = version
    \/ Has("verdicts")

\* A Nack is about to be sent, or is on its way.
NackAtGate == pc[Gate!Loop] = "reply" /\ reply.kind = "nack" /\ reply.to = Me
NackComes ==
    NackAtGate \/ FreshMail("nack") # {} \/ handling.kind = "nack" \/ Has("nacked")

MismatchComes == offer.kind = "mismatched" \/ Has("mismatched")

\* A round will be settled, ...
Settling == inflight \/ pc[Gate!Loop] = "open" \/ Publishing

\* ... or lacks a peer.
RoundComes == Settling \/ LacksPeer

\* The Ready has been recorded and the Ack is about to be sent, ...
AckAtGate ==
    /\ pc[Gate!Loop] \in {"open", "reply"} /\ reply.kind = "ack" /\ reply.to = Me
    /\ VersionOf(ready) = version
    /\ pc[Gate!Loop] = "open" \/ inflight \/ LacksPeer

\* ... or it is on its way or has come, and the round's verdict follows it.
AckComes ==
    \/ AckAtGate
    \/ \E i \in FreshMail("ack") : RoundComes \/ \E j \in FreshMail("inform") : i < j
    \/ /\ handling.kind = "ack" /\ offer = Empty
       /\ RoundComes \/ FreshMail("inform") # {}
    \/ /\ recorded
       /\ at = "ack" => offer.kind = "acked" \/ Has("acked")
       /\ \/ RoundComes \/ FreshMail("inform") # {}
          \/ handling.kind = "inform" /\ offer = Empty

\* The last Ready that is unheard is this attempt's, and while all have been
\* heard it is being answered.
AnswerComes ==
    at \in {"ack", "verdict"} =>
        IF sent # <<>> THEN sent[Len(sent)] = version
        ELSE VerdictComes \/ NackComes \/ MismatchComes \/ AckComes

\* Once there has been a round, one ends whatever the attempt waits for.
EndComes ==
    at \in {"ack", "verdict", "look", "round"} /\ (inflight \/ gen > 0) =>
        \/ sent # <<>> \/ Settling
        \/ FreshMail("inform") # {} \/ handling.kind = "inform"
        \/ \E c \in {"verdicts", "mismatched", "declined"} : Has(c)

\* A Nack tells of a round.
Refused ==
    \/ reply.kind = "nack" \/ \E i \in DOMAIN mail : mail[i].kind = "nack"
    \/ handling.kind = "nack" \/ Has("nacked") \/ at \in {"look", "round"}
NackTellsOfRound == Refused => inflight \/ gen > 0

\* A handler offers what its message says.
OfferFits ==
    offer # Empty =>
        \/ handling.kind = "ack" /\ offer.kind = "acked"
        \/ handling.kind = "nack" /\ offer.kind = "nacked"
        \/ handling.kind = "inform" /\ offer.kind = "verdicts"
        \/ /\ handling.kind = "inform" /\ handling.tested # version
           /\ offer.kind \in {"mismatched", "declined"}

\* Verdicts that reach the agent name it.
NamesMe ==
    /\ \A i \in DOMAIN mail : mail[i].kind = "inform" => mail[i].tested # NoVersion
    /\ handling.kind = "inform" => handling.tested # NoVersion

\* A round's timer is off until the round is opened, and names nobody before
\* it settles.
TimersInOrder ==
    \A t \in Gate!Timers :
        /\ pc[t] # "off" => t <= gen \/ (inflight /\ t = gen + 1)
        /\ pc[t] = "settle" => verdict[t].versions = Gate!NoVersions

HearingInv ==
    /\ AnswerComes /\ EndComes /\ NackTellsOfRound /\ OfferFits
    /\ NamesMe /\ TimersInOrder

\* "the agent's branch moved after it submitted" (submit.go:35): a submit
\* reports a mismatch only if the runner merged another version.
MismatchMeansMoved == at \in {"ack", "verdict"} /\ Has("mismatched") => moved

(***************************************************************************)
(* When the agent declares one version only, it does: the version reaches  *)
(* no map but as the agent or the runner named it.                         *)
(***************************************************************************)

\* What the coordinator has yet to hear of the agent is this process's version.
OneVersion == \A i \in DOMAIN sent : sent[i] = version
OneVersionSpec == Init /\ OneVersion /\ [][Next]_vars

\* A map says nothing of the agent, or names its version.
Fits(versions) == VersionOf(versions) \in {version, NoVersion}

GateFits ==
    /\ Fits(ready)
    /\ \A i \in DOMAIN requests : Fits(requests[i])
    /\ \A i \in DOMAIN replies : Fits(replies[i].report.versions)
    /\ last # Gate!NoVerdict => Fits(last.versions)
    /\ \A g \in Gate!Goroutines : verdict[g] # Gate!NoVerdict => Fits(verdict[g].versions)
    /\ out.kind = "inform" => Fits(out.verdict.versions)

SubmitFits ==
    /\ \A i \in DOMAIN mail : mail[i].tested \in {version, NoVersion}
    /\ handling # Empty => handling.tested \in {version, NoVersion}
    /\ offer.kind # "mismatched" /\ ~Has("mismatched")

OneVersionInv == OneVersion /\ (moved \/ (GateFits /\ SubmitFits))
=============================================================================
