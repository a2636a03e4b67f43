-------------------------- MODULE GateSystemProofs --------------------------
(***************************************************************************)
(* Theorems about GateSystem: its coordinator is a GateCoordinator, so     *)
(* that what GateCoordinatorProofs proves of every behaviour of the one    *)
(* holds of the other; and a pass that pc submit reports has been earned.  *)
(***************************************************************************)
EXTENDS GateSystem, TLAPS

\* The versions a submit process declares are versions.
SentOK == version \in Versions /\ sent \in Seq(Versions)

\* They are at the start, ...
LEMMA SentInit == Init => SentOK
<1> SUFFICES ASSUME Init PROVE SentOK
  OBVIOUS
<1>1. <<>> \in Seq(Versions) /\ \A v \in Versions : <<v>> \in Seq(Versions)
  OBVIOUS
<1> QED BY <1>1 DEF Init, SubmitInit, SentOK

\* ... and stay so.
LEMMA SentNext == SentOK /\ [Next]_vars => SentOK'
<1> SUFFICES ASSUME SentOK, [Next]_vars PROVE SentOK'
  OBVIOUS
<1> USE DEF SentOK
<1>1. CASE UNCHANGED vars
  BY <1>1 DEF vars, submitVars
<1>2. CASE Publish
  BY <1>2 DEF Publish
<1>3. CASE UNCHANGED <<version, sent>>
  BY <1>3
<1>4. CASE MyReady
  BY <1>4 DEF MyReady, Carried
<1>5. CASE PeerReady \/ RunnerReplies \/ CoordinatorStep
  BY <1>3, <1>5 DEF PeerReady, RunnerReplies, CoordinatorStep, Carried
<1>6. CASE SubmitNext
  <2>1. CASE Start \/ Dispatch
    BY <1>3, <2>1 DEF Start, Dispatch, Receive, OnInform, OnReply, Offer
  <2>2. CASE DeclareReady
    BY <1>2, <1>3, <2>2 DEF DeclareReady, Stamp, Unrecord, Drain
  <2>3. CASE Answered \/ GiveUp
    BY <1>3, <2>3 DEF Answered, GiveUp, TakeVerdict, TakeMismatch, TakeAck,
                      TakeNack, LookFails, RoundResolved, Take, End
  <2> QED BY <1>6, <2>1, <2>2, <2>3 DEF SubmitNext
<1> QED BY <1>1, <1>4, <1>5, <1>6 DEF Next

\* Every step of the system is a step of the coordinator, or none of its.
LEMMA StepImplements == SentOK /\ [Next]_vars => [Gate!Next]_(Gate!vars)
<1> SUFFICES ASSUME SentOK, [Next]_vars PROVE Gate!Next \/ UNCHANGED Gate!vars
  OBVIOUS
<1>1. CASE UNCHANGED vars
  BY <1>1 DEF vars, gateVars, Gate!vars, Gate!gateState, Gate!locals, Gate!runner
<1>2. CASE SubmitNext /\ UNCHANGED <<gateVars, history>>
  BY <1>2 DEF gateVars, Gate!vars, Gate!gateState, Gate!locals, Gate!runner
<1>3. ASSUME NEW p \in Required, NEW v \in Versions, OnReadyFrom(p, v)
      PROVE  Gate!Next
  <2>1. p \in Participants
    BY RequiredAssumption
  <2>2. Gate!OnReady
    BY <1>3, <2>1 DEF OnReadyFrom, Gate!OnReady
  <2> QED BY <2>2 DEF Gate!Next
<1>4. CASE MyReady
  <2>1. Head(sent) \in Versions /\ OnReadyFrom(Me, Head(sent))
    BY <1>4 DEF MyReady, SentOK
  <2> QED BY <1>3, <2>1, MeAssumption
<1>5. CASE PeerReady
  BY <1>3, <1>5 DEF PeerReady
<1>6. CASE RunnerReplies
  BY <1>6 DEF RunnerReplies, Gate!Next
<1>7. CASE CoordinatorStep
  BY <1>7 DEF CoordinatorStep, Gate!Next
<1> QED BY <1>1, <1>2, <1>4, <1>5, <1>6, <1>7 DEF Next

\* The coordinator in the system implements GateCoordinator: the agent's and
\* its peers' Readies, the runner's replies and the timers are taken as its
\* actions take them (gate.go:200).
THEOREM Refinement == Spec => ImplementsCoordinator
<1>1. Init => Gate!Init
  BY DEF Init
<1> QED BY <1>1, SentInit, SentNext, StepImplements, PTL
           DEF Spec, ImplementsCoordinator, Gate!Spec

(***************************************************************************)
(* What is proved of a GateCoordinator holds here.  Gate and Coord are two *)
(* instances of one module, equal once they are expanded.                  *)
(***************************************************************************)
Coord == INSTANCE GateCoordinatorProofs

\* What GateCoordinator assumes of its constants.
LEMMA Assumed ==
    /\ Coord!IsFiniteSet(Required) /\ Required # {}
    /\ MaxGen \in Nat /\ MaxQueue \in Nat
    /\ Reports \subseteq [passed : BOOLEAN, versions : Coord!VersionMaps(Participants)]
<1>1. Coord!IsFiniteSet(Required)
  BY RequiredAssumption DEF Coord!IsFiniteSet, IsFiniteSet
<1>2. Reports \subseteq [passed : BOOLEAN, versions : Coord!VersionMaps(Participants)]
  BY ReportsAssumption DEF Coord!VersionMaps, Gate!VersionMaps
<1> QED BY <1>1, <1>2, MeAssumption, BoundsAssumption

\* The two instances agree on where to start, ...
LEMMA SameInit == Gate!Init => Coord!Init
BY DEF Gate!Init, Coord!Init,
       Gate!VersionMaps, Coord!VersionMaps, Gate!NoVersions, Coord!NoVersions,
       Gate!Loop, Coord!Loop, Gate!Timers, Coord!Timers, Gate!Goroutines,
       Coord!Goroutines, Gate!Verdicts, Coord!Verdicts, Gate!Verdict, Coord!Verdict,
       Gate!NoVerdict, Coord!NoVerdict, Gate!Silence, Coord!Silence, Gate!Ack,
       Coord!Ack, Gate!Nack, Coord!Nack, Gate!gateState, Coord!gateState, Gate!locals,
       Coord!locals, Gate!runner, Coord!runner, Gate!vars, Coord!vars

\* ... on what stutters, ...
LEMMA SameStutter == UNCHANGED Gate!vars => UNCHANGED Coord!vars
BY DEF Gate!vars, Coord!vars, Gate!gateState, Coord!gateState, Gate!locals,
       Coord!locals, Gate!runner, Coord!runner

\* ... on the steps, ...
LEMMA SameNext == Gate!Next => Coord!Next
BY DEF Gate!VersionMaps, Coord!VersionMaps, Gate!NoVersions, Coord!NoVersions,
       Gate!Loop, Coord!Loop, Gate!Timers, Coord!Timers, Gate!Goroutines,
       Coord!Goroutines, Gate!Verdicts, Coord!Verdicts, Gate!Verdict, Coord!Verdict,
       Gate!NoVerdict, Coord!NoVerdict, Gate!Silence, Coord!Silence, Gate!Ack,
       Coord!Ack, Gate!Nack, Coord!Nack, Gate!gateState, Coord!gateState, Gate!locals,
       Coord!locals, Gate!runner, Coord!runner, Gate!vars, Coord!vars,
       Gate!Remembered, Coord!Remembered, Gate!Outstanding, Coord!Outstanding,
       Gate!Full, Coord!Full, Gate!Claim, Coord!Claim, Gate!ReplayVerdict,
       Coord!ReplayVerdict, Gate!RecordReady, Coord!RecordReady, Gate!RefuseReady,
       Coord!RefuseReady, Gate!IgnoreReady, Coord!IgnoreReady, Gate!OnReady,
       Coord!OnReady, Gate!Open, Coord!Open, Gate!SendReply, Coord!SendReply,
       Gate!RunnerReplies, Coord!RunnerReplies, Gate!RunnerLoses, Coord!RunnerLoses,
       Gate!OnVerdictMsg, Coord!OnVerdictMsg, Gate!Stale, Coord!Stale,
       Gate!TimerFires, Coord!TimerFires, Gate!Backfill, Coord!Backfill,
       Gate!Backfilled, Coord!Backfilled, Gate!Restate, Coord!Restate, Gate!Return,
       Coord!Return, Gate!Settle, Coord!Settle, Gate!Inform, Coord!Inform, Gate!Block,
       Coord!Block, Gate!Hook, Coord!Hook, Gate!Resolve, Coord!Resolve, Gate!LoopStep,
       Coord!LoopStep, Gate!TimerStep, Coord!TimerStep, Gate!Next, Coord!Next,
       Gate!Cardinality, Coord!Cardinality

\* ... and on the types.
LEMMA SameTypes == Coord!TypeOK => Gate!TypeOK
BY DEF Gate!VersionMaps, Coord!VersionMaps, Gate!NoVersions, Coord!NoVersions,
       Gate!Loop, Coord!Loop, Gate!Timers, Coord!Timers, Gate!Goroutines,
       Coord!Goroutines, Gate!Verdicts, Coord!Verdicts, Gate!Verdict, Coord!Verdict,
       Gate!NoVerdict, Coord!NoVerdict, Gate!Silence, Coord!Silence, Gate!Ack,
       Coord!Ack, Gate!Nack, Coord!Nack, Gate!gateState, Coord!gateState, Gate!locals,
       Coord!locals, Gate!runner, Coord!runner, Gate!vars, Coord!vars, Gate!Messages,
       Coord!Messages, Gate!Publications, Coord!Publications, Gate!Resolving,
       Coord!Resolving, Gate!TypeOK, Coord!TypeOK

\* The coordinator's invariant holds in the system: the quorum is never lost,
\* the remembered verdict is current, every verdict names everybody
\* (gate.go:216, 266, 476).
THEOREM CoordinatorStands == Spec => []Coord!CoordinatorInv
<1>1. Init => Coord!Init
  BY SameInit DEF Init
<1>2. SentOK /\ [Next]_vars => [Coord!Next]_(Coord!vars)
  BY StepImplements, SameNext, SameStutter
<1>3. Coord!CoordinatorInv /\ [Coord!Next]_(Coord!vars) => Coord!CoordinatorInv'
  BY Assumed, Coord!InvNext
<1>4. Coord!Init => Coord!CoordinatorInv
  BY Assumed, Coord!InvInit
<1> QED BY <1>1, <1>2, <1>3, <1>4, SentInit, SentNext, PTL DEF Spec

\* So do its types.
LEMMA GateTypes == Spec => []Gate!TypeOK
<1>1. Coord!CoordinatorInv => Gate!TypeOK
  BY SameTypes DEF Coord!CoordinatorInv
<1> QED BY <1>1, CoordinatorStands, PTL

(***************************************************************************)
(* A pass has been earned: at the coordinator.                             *)
(***************************************************************************)

\* A claim does not fill in what the report names.
LEMMA BackfillKeeps ==
    ASSUME NEW told, Me \in DOMAIN told
    PROVE  /\ Me \in DOMAIN Gate!Backfill(told)
           /\ Gate!Backfill(told)[Me] = told[Me]
BY DEF Gate!Backfill

\* Settling a round passes on what its verdict has earned.
LEMMA BackfilledDeserved ==
    ASSUME NEW w, NEW c, Deserved(w)
    PROVE  Deserved(Gate!Backfilled(w, c))
<1>1. /\ Gate!Backfilled(w, c).passed = w.passed
      /\ Gate!Backfilled(w, c).versions = Gate!Backfill(w.versions)
  BY DEF Gate!Backfilled, Gate!Verdict
<1> QED BY <1>1, BackfillKeeps DEF Deserved

\* A goroutine that resolves keeps it.
LEMMA EarnedResolve ==
    ASSUME Gate!TypeOK, GateEarned, NEW g \in Gate!Goroutines, Gate!Resolve(g),
           UNCHANGED earned
    PROVE  GateEarned'
<1> USE DEF Gate!gateState, Gate!runner
<1>1. verdict \in [Gate!Goroutines -> Gate!Verdicts \cup {Gate!NoVerdict}]
  BY DEF Gate!TypeOK
<1>2. CASE Gate!Settle(g)
  <2>1. verdict[g] # Gate!NoVerdict /\ Deserved(verdict[g])
    BY <1>2 DEF Gate!Settle, Gate!TypeOK, Gate!Resolving, GateEarned
  <2>2. out'.kind = "silence" /\ UNCHANGED replies
    BY <1>2 DEF Gate!Settle, Gate!Silence
  <2>3. \A c : Deserved(Gate!Backfilled(verdict[g], c))
    BY <2>1, BackfilledDeserved
  <2>4. last' = last \/ last' = Gate!Backfilled(verdict[g], FALSE)
    BY <1>2 DEF Gate!Settle
  <2>5. \/ verdict' = [verdict EXCEPT ![g] = Gate!NoVerdict]
        \/ verdict' = [verdict EXCEPT ![g] = Gate!Backfilled(@, @.cached)]
    BY <1>2 DEF Gate!Settle
  <2>6. \A h \in Gate!Goroutines : verdict'[h] # Gate!NoVerdict => Deserved(verdict'[h])
    BY <1>1, <2>3, <2>5 DEF GateEarned
  <2> QED BY <2>2, <2>3, <2>4, <2>6 DEF GateEarned, Deserved
<1>3. CASE Gate!Inform(g)
  <2>1. verdict[g] # Gate!NoVerdict /\ Deserved(verdict[g])
    BY <1>3 DEF Gate!Inform, Gate!TypeOK, Gate!Resolving, GateEarned
  <2>2. out'.verdict = verdict[g] /\ UNCHANGED <<replies, last, verdict>>
    BY <1>3 DEF Gate!Inform
  <2> QED BY <2>1, <2>2 DEF GateEarned, Deserved
<1>4. CASE Gate!Block(g)
  <2>1. out'.kind = "block" /\ UNCHANGED <<replies, last, verdict>>
    BY <1>4 DEF Gate!Block
  <2> QED BY <2>1 DEF GateEarned, Deserved
<1>5. CASE Gate!Hook(g)
  <2>1. /\ out'.kind = "hook" /\ UNCHANGED <<replies, last>>
        /\ verdict' = [verdict EXCEPT ![g] = Gate!NoVerdict]
    BY <1>5 DEF Gate!Hook
  <2> QED BY <1>1, <2>1 DEF GateEarned, Deserved
<1> QED BY <1>2, <1>3, <1>4, <1>5 DEF Gate!Resolve

\* A Ready keeps it: it is answered from what is remembered, or by nobody.
LEMMA EarnedReady ==
    ASSUME Gate!TypeOK, GateEarned, NEW p, NEW v, OnReadyFrom(p, v), UNCHANGED earned
    PROVE  GateEarned'
<1> USE DEF Gate!gateState, Gate!runner
<1>1. verdict \in [Gate!Goroutines -> Gate!Verdicts \cup {Gate!NoVerdict}]
  BY DEF Gate!TypeOK
<1>2. CASE Gate!ReplayVerdict(p, v)
  <2>1. last # Gate!NoVerdict /\ Deserved(last)
    BY <1>2 DEF Gate!ReplayVerdict, Gate!Remembered, GateEarned
  <2> DEFINE w == Gate!Verdict(last.passed, last.stalled, TRUE, last.versions)
  <2>2. w.passed = last.passed /\ w.versions = last.versions
    BY DEF Gate!Verdict
  <2>3. /\ out'.kind = "silence" /\ UNCHANGED <<replies, last>>
        /\ verdict' = [verdict EXCEPT ![Gate!Loop] = w]
    BY <1>2 DEF Gate!ReplayVerdict, Gate!Silence
  <2> HIDE DEF w
  <2>4. Deserved(w)
    BY <2>1, <2>2 DEF Deserved
  <2> QED BY <1>1, <2>3, <2>4 DEF GateEarned, Deserved
<1>3. CASE Gate!RecordReady(p, v)
  <2>1. out'.kind = "silence" /\ last' = Gate!NoVerdict /\ UNCHANGED <<replies, verdict>>
    BY <1>3 DEF Gate!RecordReady, Gate!Silence
  <2> QED BY <2>1 DEF GateEarned, Deserved
<1>4. CASE Gate!RefuseReady(p)
  <2>1. out'.kind = "silence" /\ UNCHANGED <<replies, last, verdict>>
    BY <1>4 DEF Gate!RefuseReady, Gate!Silence
  <2> QED BY <2>1 DEF GateEarned, Deserved
<1> QED BY <1>2, <1>3, <1>4 DEF OnReadyFrom

\* So do the loop's other steps and the timers.
LEMMA EarnedCoordinator ==
    ASSUME Gate!TypeOK, GateEarned, CoordinatorStep
    PROVE  GateEarned'
<1> USE DEF Gate!gateState, Gate!runner
<1>1. verdict \in [Gate!Goroutines -> Gate!Verdicts \cup {Gate!NoVerdict}]
         /\ UNCHANGED earned
  BY DEF Gate!TypeOK, CoordinatorStep, history
<1>2. CASE Gate!Open
  <2>1. out'.kind = "silence" /\ UNCHANGED <<replies, last, verdict>>
    BY <1>2 DEF Gate!Open, Gate!Silence
  <2> QED BY <1>1, <2>1 DEF GateEarned, Deserved
<1>3. CASE Gate!SendReply
  <2>1. out' = reply /\ UNCHANGED <<replies, last, verdict>>
    BY <1>3 DEF Gate!SendReply
  <2>2. reply.kind # "inform"
    BY DEF Gate!TypeOK, Gate!Messages, Gate!Silence
  <2> QED BY <1>1, <2>1, <2>2 DEF GateEarned, Deserved
<1>4. CASE Gate!OnVerdictMsg
  <2> DEFINE r == Head(replies).report
             w == Gate!Verdict(r.passed, FALSE, FALSE, r.versions)
  <2>1. /\ out'.kind = "silence" /\ UNCHANGED last /\ replies # <<>>
        /\ replies' = Tail(replies)
        /\ verdict' = [verdict EXCEPT ![Gate!Loop] = w]
    BY <1>4 DEF Gate!OnVerdictMsg, Gate!Silence
  <2>2. replies \in Seq([asked : Gate!VersionMaps(Required), report : Reports])
    BY DEF Gate!TypeOK
  <2>3. 1 \in DOMAIN replies /\ Head(replies) = replies[1]
    BY <2>1, <2>2
  <2>4. \A i \in DOMAIN replies' : i + 1 \in DOMAIN replies /\ replies'[i] = replies[i + 1]
    BY <2>1, <2>2
  <2>5. w.passed = r.passed /\ w.versions = r.versions
    BY DEF Gate!Verdict
  <2> HIDE DEF w
  <2>7. Deserved(w)
    BY <2>3, <2>5 DEF GateEarned, Deserved
  <2> HIDE DEF r
  <2>6. \A i \in DOMAIN replies' : Deserved(replies'[i].report)
    BY <2>4 DEF GateEarned
  <2> QED BY <1>1, <2>1, <2>6, <2>7 DEF GateEarned, Deserved
<1>5. ASSUME NEW t \in Gate!Timers, Gate!TimerFires(t) PROVE GateEarned'
  <2> DEFINE w == Gate!Verdict(FALSE, TRUE, FALSE, Gate!NoVersions)
  <2>1. /\ out'.kind = "silence" /\ UNCHANGED <<last, replies>>
        /\ verdict' = verdict \/ verdict' = [verdict EXCEPT ![t] = w]
    BY <1>5 DEF Gate!TimerFires, Gate!Silence
  <2>2. Deserved(w)
    BY DEF Deserved, Gate!Verdict
  <2> HIDE DEF w
  <2> QED BY <1>1, <2>1, <2>2 DEF GateEarned, Deserved
<1>6. Gate!Loop \in Gate!Goroutines /\ Gate!Timers \subseteq Gate!Goroutines
  BY DEF Gate!Goroutines
<1> QED BY <1>1, <1>2, <1>3, <1>4, <1>5, <1>6, EarnedResolve
        DEF CoordinatorStep, Gate!LoopStep, Gate!TimerStep

\* A passing reply earns the version it names.
LEMMA EarnedReplies ==
    ASSUME Gate!TypeOK, GateEarned, RunnerReplies
    PROVE  /\ GateEarned' /\ earned \subseteq earned'
           /\ earned \subseteq Versions => earned' \subseteq Versions
<1> DEFINE type == [asked : Gate!VersionMaps(Required), report : Reports]
<1>1. PICK r \in Reports : replies' = Append(replies, [asked |-> Head(requests), report |-> r])
  BY DEF RunnerReplies, Gate!RunnerReplies
<1>2. replies \in Seq(type)
  BY DEF Gate!TypeOK
<1>3. /\ DOMAIN replies' = 1 .. Len(replies) + 1 /\ Len(replies') = Len(replies) + 1
      /\ replies'[Len(replies')].report = r
      /\ \A i \in DOMAIN replies : replies'[i] = replies[i]
  BY <1>1, <1>2
<1>4. earned' = IF r.passed THEN earned \cup {VersionOf(r.versions)} ELSE earned
  BY <1>3 DEF RunnerReplies
<1>5. r.passed => Me \in DOMAIN r.versions /\ VersionOf(r.versions) = r.versions[Me]
  BY PassAssumption DEF VersionOf
<1>6. r.passed => r.versions[Me] \in Versions
  BY <1>5, ReportsAssumption DEF Gate!VersionMaps
<1>7. out'.kind = "silence" /\ UNCHANGED <<last, verdict>>
  BY DEF RunnerReplies, Gate!RunnerReplies, Gate!Silence, Gate!gateState, Gate!locals
<1>8. earned \subseteq earned'
  BY <1>4
<1>9. ASSUME NEW i \in DOMAIN replies' PROVE Deserved(replies[i].report)'
  <2>1. CASE i = Len(replies')
    BY <1>3, <1>4, <1>5, <2>1 DEF Deserved
  <2>2. CASE i \in DOMAIN replies
    BY <1>3, <1>8, <2>2 DEF Deserved, GateEarned
  <2> QED BY <1>2, <1>3, <2>1, <2>2
<1>10. GateEarned'
  BY <1>7, <1>8, <1>9 DEF GateEarned, Deserved
<1> QED BY <1>4, <1>5, <1>6, <1>8, <1>10

(***************************************************************************)
(* A pass has been earned: on its way to the process and through it.       *)
(***************************************************************************)

\* A message of a sequence is a message.
LEMMA MailOf == ASSUME SubmitTypeOK, NEW i \in DOMAIN mail PROVE mail[i] \in Mail
BY DEF SubmitTypeOK

\* What the bus makes of a publication: at most one message, whose pass is
\* one of a version that earned it.
LEMMA ToMeFacts ==
    ASSUME NEW m \in Gate!Publications, m.kind = "inform" => Deserved(m.verdict)
    PROVE  /\ ToMe(m) \in Seq(Mail)
           /\ \A i \in DOMAIN ToMe(m) : ToMe(m)[i].passed => ToMe(m)[i].tested \in earned
<1>1. CASE m.kind = "inform"
  <2> DEFINE x == [kind |-> "inform", passed |-> m.verdict.passed,
                   tested |-> VersionOf(m.verdict.versions), old |-> FALSE]
  <2>1. m.verdict \in Gate!Verdicts
    BY <1>1 DEF Gate!Publications, Gate!Messages, Gate!Silence
  <2>2. m.verdict.passed \in BOOLEAN
    BY <2>1 DEF Gate!Verdicts
  <2>3. VersionOf(m.verdict.versions) \in Versions \cup {NoVersion}
    BY <2>1 DEF Gate!Verdicts, Gate!VersionMaps, VersionOf
  <2>4. x \in Mail
    BY <2>2, <2>3 DEF Mail
  <2>5. x.passed => x.tested \in earned
    BY <1>1 DEF Deserved, VersionOf
  <2>6. ToMe(m) = <<x>>
    BY <1>1 DEF ToMe
  <2> HIDE DEF x
  <2>7. <<x>> \in Seq(Mail) /\ \A i \in DOMAIN <<x>> : <<x>>[i] = x
    BY <2>4
  <2> QED BY <2>5, <2>6, <2>7
<1>2. CASE m.kind \in {"ack", "nack"} /\ m.to = Me
  <2> DEFINE x == [kind |-> m.kind, passed |-> FALSE, tested |-> NoVersion, old |-> FALSE]
  <2>1. ToMe(m) = <<x>>
    BY <1>2 DEF ToMe
  <2>2. x \in Mail /\ ~x.passed
    BY <1>2 DEF Mail
  <2> HIDE DEF x
  <2>3. <<x>> \in Seq(Mail) /\ \A i \in DOMAIN <<x>> : <<x>>[i] = x
    BY <2>2
  <2> QED BY <2>1, <2>2, <2>3
<1>3. CASE m.kind # "inform" /\ ~(m.kind \in {"ack", "nack"} /\ m.to = Me)
  BY <1>3 DEF ToMe
<1> QED BY <1>1, <1>2, <1>3

\* Mail of which nothing passed unearned.
EarnedMail(box, E) ==
    box \in Seq(Mail) /\ \A i \in DOMAIN box : box[i].passed => box[i].tested \in E

\* Mail that is appended keeps it.
LEMMA AppendMail ==
    ASSUME NEW E, NEW s, NEW t, EarnedMail(s, E), EarnedMail(t, E)
    PROVE  EarnedMail(s \o t, E)
<1> USE DEF EarnedMail
<1>1. ASSUME NEW i \in DOMAIN (s \o t)
      PROVE  (s \o t)[i].passed => (s \o t)[i].tested \in E
  <2>1. CASE i \in DOMAIN s
    <3>1. (s \o t)[i] = s[i]
      BY <2>1
    <3> QED BY <2>1, <3>1
  <2>2. CASE i \notin DOMAIN s
    <3>1. i - Len(s) \in DOMAIN t /\ (s \o t)[i] = t[i - Len(s)]
      BY <2>2
    <3> QED BY <3>1
  <2> QED BY <2>1, <2>2
<1> QED BY <1>1

\* What a publication of the coordinator brings is of that kind.
LEMMA NewMail ==
    out \in Gate!Publications /\ GateEarned => EarnedMail(ToMe(out), earned)
BY ToMeFacts DEF EarnedMail, GateEarned

\* A step of the coordinator or of its peers brings mail at most.
LEMMA CarriedKeeps ==
    ASSUME SubmitTypeOK, SubmitEarned, Carried, earned \subseteq earned',
           sent' \in Seq(Versions), (out \in Gate!Publications /\ GateEarned)'
    PROVE  SubmitTypeOK' /\ SubmitEarned'
<1>1. EarnedMail(ToMe(out), earned)'
  BY NewMail, PTL
<1>2. EarnedMail(mail, earned')
  BY DEF EarnedMail, SubmitTypeOK, SubmitEarned
<1>3. EarnedMail(mail', earned')
  BY <1>1, <1>2, AppendMail DEF Carried
<1>4. UNCHANGED <<at, version, stamped, recorded, chan, handling, offer>>
  BY DEF Carried, waiter, dispatch
<1>5. SubmitTypeOK'
  BY <1>3, <1>4 DEF SubmitTypeOK, EarnedMail
<1>6. SubmitEarned'
  BY <1>3, <1>4 DEF SubmitEarned, PassIsEarned, Has, EarnedMail
<1> QED BY <1>5, <1>6

\* Returning leaves nothing to report.
LEMMA EndKeeps ==
    ASSUME SubmitTypeOK, End, at \in {"publish", "ack", "verdict", "look", "round"}
    PROVE  SubmitTypeOK' /\ SubmitEarned'
<1>1. /\ chan' = [c \in Channels |-> Empty] /\ handling' = Empty /\ offer' = Empty
      /\ mail' = <<>> /\ at' = "done" /\ stamped' = FALSE /\ recorded' = FALSE
      /\ UNCHANGED <<version, sent>>
  BY DEF End
<1>2. chan'["verdicts"] = Empty
  BY <1>1 DEF Channels
<1>3. SubmitTypeOK'
  <2>1. chan' \in [Channels -> Signals \cup {Empty}] /\ mail' \in Seq(Mail)
    BY <1>1
  <2> QED BY <1>1, <2>1 DEF SubmitTypeOK
<1>4. SubmitEarned'
  BY <1>1, <1>2 DEF SubmitEarned, PassIsEarned, Has
<1> QED BY <1>3, <1>4

\* The dispatch loop keeps it: a handler reports a pass only for its version.
LEMMA DispatchKeeps ==
    ASSUME SubmitTypeOK, SubmitEarned, Dispatch, UNCHANGED earned
    PROVE  SubmitTypeOK' /\ SubmitEarned'
<1> USE DEF waiter, dispatch
<1>1. CASE Receive
  <2>1. mail \in Seq(Mail) /\ mail # <<>>
    BY <1>1 DEF Receive, SubmitTypeOK
  <2>2. 1 \in DOMAIN mail /\ Head(mail) = mail[1] /\ Head(mail) \in Mail
    BY <2>1
  <2>3. /\ mail' = Tail(mail) /\ Tail(mail) \in Seq(Mail)
        /\ \A i \in DOMAIN Tail(mail) : i + 1 \in DOMAIN mail /\ Tail(mail)[i] = mail[i + 1]
    BY <1>1, <2>1 DEF Receive
  <2>4. handling' \in {[Head(mail) EXCEPT !.old = FALSE], Empty} /\ handling = Empty
    BY <1>1 DEF Receive
  <2>5. UNCHANGED <<at, version, stamped, recorded, chan, offer, sent>>
    BY <1>1 DEF Receive
  <2>6. handling' \in Mail \cup {Empty}
    BY <2>2, <2>4 DEF Mail
  <2>7. handling' # Empty /\ handling'.passed => handling'.tested \in earned
    BY <2>2, <2>4 DEF SubmitEarned, Mail
  <2>8. offer = Empty
    BY <2>4 DEF SubmitTypeOK
  <2>9. SubmitTypeOK'
    BY <2>3, <2>5, <2>6, <2>8 DEF SubmitTypeOK
  <2> QED BY <2>3, <2>5, <2>7, <2>9 DEF SubmitEarned, PassIsEarned, Has
<1>2. CASE OnInform
  <2>1. /\ handling # Empty /\ handling \in Mail
        /\ UNCHANGED <<at, version, stamped, recorded, chan, handling, mail, sent>>
    BY <1>2 DEF OnInform, SubmitTypeOK, Empty
  <2>2. PICK c \in {"verdicts", "mismatched", "declined"} :
            /\ Signal(c, IF c = "verdicts" THEN handling.passed ELSE FALSE)
            /\ c = "verdicts" => handling.tested = version
    BY <1>2 DEF OnInform, Answers
  <2> DEFINE p == IF c = "verdicts" THEN handling.passed ELSE FALSE
  <2>3. p \in BOOLEAN
    BY <2>1 DEF Mail
  <2>4. offer' = [kind |-> c, passed |-> p]
    BY <2>2 DEF Signal
  <2>5. c = "verdicts" /\ p => version \in earned
    BY <2>1, <2>2 DEF SubmitEarned
  <2> HIDE DEF p
  <2>6. offer' \in Signals
    BY <2>3, <2>4 DEF Signals, Channels
  <2>7. SubmitTypeOK'
    BY <2>1, <2>6 DEF SubmitTypeOK
  <2> QED BY <2>1, <2>4, <2>5, <2>7 DEF SubmitEarned, PassIsEarned, Has
<1>3. CASE OnReply
  <2>1. /\ handling # Empty
        /\ UNCHANGED <<at, version, stamped, chan, handling, mail, sent>>
        /\ recorded' \in BOOLEAN
    BY <1>3 DEF OnReply, Empty
  <2>2. PICK c \in {"acked", "nacked"} : offer' = [kind |-> c, passed |-> FALSE]
    BY <1>3 DEF OnReply, Signal
  <2>3. offer' \in Signals /\ offer'.kind # "verdicts"
    BY <2>2 DEF Signals, Channels
  <2>4. SubmitTypeOK'
    BY <2>1, <2>3 DEF SubmitTypeOK
  <2> QED BY <2>1, <2>3, <2>4 DEF SubmitEarned, PassIsEarned, Has
<1>4. CASE Offer
  <2>1. /\ offer # Empty /\ offer \in Signals /\ handling' = Empty /\ offer' = Empty
        /\ chan' = [chan EXCEPT ![offer.kind] = IF @ = Empty THEN offer ELSE @]
        /\ UNCHANGED <<at, version, stamped, recorded, mail, sent>>
    BY <1>4 DEF Offer, SubmitTypeOK
  <2>2. offer.kind \in Channels
    BY <2>1 DEF Signals
  <2>3. SubmitTypeOK'
    BY <2>1, <2>2 DEF SubmitTypeOK
  <2>4. "verdicts" \in Channels
    BY DEF Channels
  <2>5. \A c \in Channels : chan'[c] = IF c = offer.kind /\ chan[c] = Empty
                                    THEN offer ELSE chan[c]
    BY <2>1, <2>2 DEF SubmitTypeOK
  <2> QED BY <2>1, <2>3, <2>4, <2>5 DEF SubmitEarned, PassIsEarned, Has
<1> QED BY <1>1, <1>2, <1>3, <1>4 DEF Dispatch

\* The attempt loop keeps it: it stamps, drains and takes, and reports what it
\* was offered.
LEMMA AttemptKeeps ==
    ASSUME SubmitTypeOK, SubmitEarned,
           Start \/ DeclareReady \/ Answered \/ GiveUp, UNCHANGED earned
    PROVE  SubmitTypeOK' /\ SubmitEarned'
<1> USE DEF waiter, dispatch
<1>0. mail \in Seq(Mail) /\ \A i \in DOMAIN mail : mail[i] \in Mail
  BY MailOf DEF SubmitTypeOK
<1>1. CASE Start
  <2>1. PICK k \in 0 .. Len(mail) : mail' = SubSeq(mail, k + 1, Len(mail))
    BY <1>1 DEF Start
  <2>2. /\ mail' \in Seq(Mail)
        /\ \A i \in DOMAIN mail' : i + k \in DOMAIN mail /\ mail'[i] = mail[i + k]
    BY <1>0, <2>1
  <2>3. at' = "stamp" /\ UNCHANGED <<version, stamped, recorded, chan, handling, offer, sent>>
    BY <1>1 DEF Start
  <2>4. SubmitTypeOK'
    BY <2>2, <2>3 DEF SubmitTypeOK
  <2> QED BY <2>2, <2>3, <2>4 DEF SubmitEarned, PassIsEarned, Has
<1>2. CASE Stamp
  <2>1. /\ mail' = [i \in DOMAIN mail |-> [mail[i] EXCEPT !.old = TRUE]]
        /\ stamped' = TRUE /\ at' = "unrecord"
        /\ UNCHANGED <<version, recorded, chan, handling, offer, sent>>
    BY <1>2 DEF Stamp
  <2>2. \A i \in DOMAIN mail : /\ [mail[i] EXCEPT !.old = TRUE] \in Mail
                               /\ [mail[i] EXCEPT !.old = TRUE].passed = mail[i].passed
                               /\ [mail[i] EXCEPT !.old = TRUE].tested = mail[i].tested
    BY <1>0 DEF Mail
  <2>3. mail' \in Seq(Mail)
    BY <1>0, <2>1, <2>2
  <2>4. SubmitTypeOK'
    BY <2>1, <2>3 DEF SubmitTypeOK
  <2>5. \A i \in DOMAIN mail' : mail'[i].passed => mail'[i].tested \in earned
    BY <2>1, <2>2 DEF SubmitEarned
  <2> QED BY <2>1, <2>4, <2>5 DEF SubmitEarned, PassIsEarned, Has
<1>3. CASE Unrecord
  BY <1>3 DEF Unrecord, SubmitTypeOK, SubmitEarned, PassIsEarned, Has
<1>4. CASE Drain
  <2>1. /\ chan' = [c \in Channels |-> Empty] /\ at' = "publish"
        /\ UNCHANGED <<version, stamped, recorded, handling, offer, mail, sent>>
    BY <1>4 DEF Drain
  <2>2. chan' \in [Channels -> Signals \cup {Empty}] /\ chan'["verdicts"] = Empty
    BY <2>1 DEF Channels
  <2>3. SubmitTypeOK'
    BY <2>1, <2>2 DEF SubmitTypeOK
  <2> QED BY <2>1, <2>2, <2>3 DEF SubmitEarned, PassIsEarned, Has
<1>5. CASE Publish
  <2>1. sent' \in Seq(Versions)
    BY <1>5 DEF Publish, SubmitTypeOK
  <2> QED BY <1>5, <2>1 DEF Publish, SubmitTypeOK, SubmitEarned, PassIsEarned, Has
<1>6. ASSUME NEW c \in Channels, NEW label \in {"verdict", "look", "stamp"}, Take(c, label)
      PROVE  SubmitTypeOK' /\ SubmitEarned'
  <2>1. /\ chan' = [chan EXCEPT ![c] = Empty] /\ at' = label
        /\ UNCHANGED <<version, stamped, recorded, handling, offer, mail, sent>>
    BY <1>6 DEF Take
  <2>2. \A d \in Channels : chan'[d] \in {chan[d], Empty}
    BY <2>1 DEF SubmitTypeOK
  <2>3. chan' \in [Channels -> Signals \cup {Empty}]
    BY <2>1 DEF SubmitTypeOK
  <2>4. "verdicts" \in Channels
    BY DEF Channels
  <2>5. SubmitTypeOK'
    BY <2>1, <2>3 DEF SubmitTypeOK
  <2> QED BY <2>1, <2>2, <2>4, <2>5 DEF SubmitEarned, PassIsEarned, Has
<1>7. CASE TakeAck \/ TakeNack \/ RoundResolved
  BY <1>6, <1>7 DEF TakeAck, TakeNack, RoundResolved, Channels
<1>8. CASE LookFails
  BY <1>8 DEF LookFails, SubmitTypeOK, SubmitEarned, PassIsEarned, Has
<1>9. CASE TakeVerdict \/ TakeMismatch \/ GiveUp
  BY <1>9, EndKeeps DEF TakeVerdict, TakeMismatch, GiveUp, Awaited
<1> QED BY <1>1, <1>2, <1>3, <1>4, <1>5, <1>7, <1>8, <1>9
        DEF DeclareReady, Answered

(***************************************************************************)
(* The whole system.                                                       *)
(***************************************************************************)

\* The types of the composition, and that every pass has been earned.
SystemInv == TypeOK /\ GateEarned /\ SubmitEarned

\* Nothing has passed yet.
LEMMA SystemInit == Init => SystemInv
<1> SUFFICES ASSUME Init PROVE SystemInv
  OBVIOUS
<1>1. Gate!TypeOK
  <2>1. Coord!Init => Coord!TypeOK
    BY Assumed, Coord!TypeInit
  <2> QED BY <2>1, SameInit, SameTypes DEF Init
<1>2. SubmitTypeOK
  <2>1. chan \in [Channels -> Signals \cup {Empty}]
    BY DEF Init, SubmitInit
  <2>2. mail \in Seq(Mail) /\ sent \in Seq(Versions)
    BY SentInit DEF Init, SubmitInit, SentOK
  <2> QED BY <2>1, <2>2 DEF Init, SubmitInit, SubmitTypeOK
<1>3. TypeOK
  BY <1>1, <1>2 DEF Init, TypeOK
<1>4. GateEarned
  <2>1. out.kind = "silence" /\ replies = <<>> /\ last = Gate!NoVerdict
           /\ verdict = [g \in Gate!Goroutines |-> Gate!NoVerdict]
    BY DEF Init, Gate!Init, Gate!Silence
  <2> QED BY <2>1 DEF GateEarned
<1>5. SubmitEarned
  <2>1. chan["verdicts"] = Empty
    BY DEF Init, SubmitInit, Channels
  <2> QED BY <2>1 DEF Init, SubmitInit, SubmitEarned, PassIsEarned, Has
<1> QED BY <1>3, <1>4, <1>5 DEF SystemInv

\* Every step keeps both.
LEMMA SystemNext == SystemInv /\ Gate!TypeOK' /\ [Next]_vars => SystemInv'
<1> SUFFICES ASSUME SystemInv, Gate!TypeOK', [Next]_vars PROVE SystemInv'
  OBVIOUS
<1>0. /\ Gate!TypeOK /\ SubmitTypeOK /\ peers \in Nat /\ earned \subseteq Versions
      /\ GateEarned /\ SubmitEarned /\ sent \in Seq(Versions)
      /\ out' \in Gate!Publications
  BY DEF SystemInv, TypeOK, SubmitTypeOK, Gate!TypeOK
<1>1. CASE MyReady
  <2>1. GateEarned' /\ UNCHANGED history
    <3>1. UNCHANGED <<peers, earned, moved>>
      BY <1>1 DEF MyReady, history
    <3>2. PICK v : OnReadyFrom(Me, v)
      BY <1>1 DEF MyReady
    <3> QED BY <1>0, <3>1, <3>2, EarnedReady DEF history
  <2>2. sent' \in Seq(Versions)
    BY <1>0, <1>1 DEF MyReady
  <2> QED BY <1>0, <1>1, <2>1, <2>2, CarriedKeeps DEF MyReady, history, SystemInv, TypeOK
<1>2. CASE PeerReady
  <2>1. PICK p, v : OnReadyFrom(p, v)
    BY <1>2 DEF PeerReady
  <2>2. /\ UNCHANGED <<sent, earned, moved>> /\ peers' = peers + 1 /\ Carried
    BY <1>2 DEF PeerReady
  <2>3. GateEarned'
    BY <1>0, <2>1, <2>2, EarnedReady
  <2> QED BY <1>0, <2>2, <2>3, CarriedKeeps DEF SystemInv, TypeOK
<1>3. CASE RunnerReplies
  <2>1. GateEarned' /\ earned \subseteq earned' /\ earned' \subseteq Versions
    BY <1>0, <1>3, EarnedReplies
  <2>2. UNCHANGED <<sent, peers>> /\ Carried
    BY <1>3 DEF RunnerReplies
  <2> QED BY <1>0, <2>1, <2>2, CarriedKeeps DEF SystemInv, TypeOK
<1>4. CASE CoordinatorStep
  <2>1. GateEarned'
    BY <1>0, <1>4, EarnedCoordinator
  <2>2. UNCHANGED <<sent, peers, earned>> /\ Carried
    BY <1>4 DEF CoordinatorStep, history
  <2> QED BY <1>0, <2>1, <2>2, CarriedKeeps DEF SystemInv, TypeOK
<1>5. CASE SubmitNext /\ UNCHANGED <<gateVars, history>>
  <2>1. UNCHANGED <<peers, earned, replies, last, verdict, out>>
    BY <1>5 DEF gateVars, history
  <2>2. SubmitTypeOK' /\ SubmitEarned'
    BY <1>0, <1>5, <2>1, AttemptKeeps, DispatchKeeps DEF SubmitNext
  <2>3. GateEarned'
    BY <1>0, <2>1 DEF GateEarned, Deserved
  <2> QED BY <1>0, <2>1, <2>2, <2>3 DEF SystemInv, TypeOK
<1>6. CASE UNCHANGED vars
  <2>1. UNCHANGED <<peers, earned, replies, last, verdict, out>>
           /\ UNCHANGED <<at, version, stamped, recorded, chan, handling, offer, mail, sent>>
    BY <1>6 DEF vars, submitVars, waiter, dispatch, gateVars, history
  <2>2. SubmitTypeOK' /\ SubmitEarned'
    BY <1>0, <2>1 DEF SubmitTypeOK, SubmitEarned, PassIsEarned, Has
  <2>3. GateEarned'
    BY <1>0, <2>1 DEF GateEarned, Deserved
  <2> QED BY <1>0, <2>1, <2>2, <2>3 DEF SystemInv, TypeOK
<1> QED BY <1>1, <1>2, <1>3, <1>4, <1>5, <1>6 DEF Next

\* So they hold in every reachable state.
LEMMA SystemCorrect == Spec => []SystemInv
BY GateTypes, SystemInit, SystemNext, PTL DEF Spec

\* The process, the coordinator and the histories keep their types; a handler
\* never offers a signal without a message in hand (submitwaiter.go:221).
THEOREM TypeCorrect == Spec => []TypeOK
<1>1. SystemInv => TypeOK
  BY DEF SystemInv
<1> QED BY <1>1, SystemCorrect, PTL

\* pc submit exits 0 only if the runner has passed a combination that held
\* this very version (submit.go:105).
THEOREM PassEarned == Spec => []PassIsEarned
<1>1. SystemInv => PassIsEarned
  BY DEF SystemInv, SubmitEarned
<1> QED BY <1>1, SystemCorrect, PTL

(***************************************************************************)
(* Nobody is deaf.  First the coordinator: the answer that an attempt      *)
(* waits for is there until it is published.                               *)
(***************************************************************************)

\* What is used of the coordinator's invariant.
CoordinatorFacts ==
    /\ Gate!QuorumIsNeverLost /\ Gate!RememberedRoundIsCurrent
    /\ last # Gate!NoVerdict => gen > 0
    /\ pc[Gate!Loop] = "open" => ~inflight
    /\ \A g \in Gate!Goroutines : pc[g] = "inform" => Me \in DOMAIN verdict[g].versions

\* It is the coordinator's.
LEMMA CoordinatorGives == Coord!CoordinatorInv => CoordinatorFacts
BY MeAssumption
   DEF Coord!CoordinatorInv, CoordinatorFacts, Gate!QuorumIsNeverLost,
       Coord!QuorumIsNeverLost, Gate!RememberedRoundIsCurrent,
       Coord!RememberedRoundIsCurrent, Gate!NoVerdict, Coord!NoVerdict,
       Gate!Goroutines, Coord!Goroutines, Gate!Loop, Coord!Loop, Gate!Timers,
       Coord!Timers

\* A map that names the agent's version names the agent.
LEMMA NamesVersion ==
    ASSUME version \in Versions, NEW m
    PROVE  VersionOf(m) = version <=> Me \in DOMAIN m /\ m[Me] = version
BY MeAssumption DEF VersionOf

\* Settling fills in the agent's claim, and keeps what the verdict says of it.
LEMMA BackfillNames ==
    ASSUME NEW w, NEW c, version \in Versions,
           \/ VersionOf(w.versions) = version
           \/ w.versions = Gate!NoVersions /\ VersionOf(ready) = version
    PROVE  VersionOf(Gate!Backfilled(w, c).versions) = version
<1>1. Gate!Backfilled(w, c).versions = Gate!Backfill(w.versions)
  BY DEF Gate!Backfilled, Gate!Verdict
<1>2. /\ DOMAIN Gate!Backfill(w.versions) = DOMAIN w.versions \cup (Required \cap DOMAIN ready)
      /\ \A p \in DOMAIN Gate!Backfill(w.versions) :
            Gate!Backfill(w.versions)[p] =
                IF p \in DOMAIN w.versions THEN w.versions[p] ELSE ready[p]
  BY DEF Gate!Backfill
<1>3. DOMAIN Gate!NoVersions = {}
  BY DEF Gate!NoVersions
<1>4. Me \in DOMAIN Gate!Backfill(w.versions) /\ Gate!Backfill(w.versions)[Me] = version
  BY <1>2, <1>3, NamesVersion, MeAssumption
<1> QED BY <1>1, <1>4, NamesVersion

\* What a step of the coordinator may do with an answer: keep it, or publish it.
InformsOfMine == out.kind = "inform" /\ VersionOf(out.verdict.versions) = version
RepliesToMe(m, kind) == m.kind = kind /\ m.to = Me

AnswersKept ==
    /\ VerdictAtGate => VerdictAtGate' \/ InformsOfMine'
    /\ NackAtGate => NackAtGate' \/ RepliesToMe(out', "nack")
    /\ AckAtGate => AckAtGate' \/ VerdictAtGate' \/ (RepliesToMe(out', "ack") /\ RoundComes')
    /\ RoundComes => RoundComes' \/ out'.kind = "inform"

RoundsKept ==
    /\ Settling => Settling' \/ out'.kind = "inform"
    /\ inflight \/ gen > 0 => inflight' \/ gen' > 0
    /\ inflight' \/ gen' > 0 => inflight \/ gen > 0 \/ Settling'
    /\ reply'.kind = "nack" => reply.kind = "nack" \/ inflight
    /\ out'.kind = "nack" => reply.kind = "nack"
    /\ out'.kind = "inform" => VersionOf(out'.verdict.versions) # NoVersion

\* A goroutine that resolves a round keeps the answers.
LEMMA ResolveAnswers ==
    ASSUME Gate!TypeOK, CoordinatorFacts, TimersInOrder, version \in Versions,
           UNCHANGED version, NEW g \in Gate!Goroutines, Gate!Resolve(g)
    PROVE  AnswersKept /\ RoundsKept /\ TimersInOrder'
<1>0. /\ Gate!Loop \in Gate!Goroutines
      /\ \A h \in Gate!Goroutines : h # Gate!Loop => h \in Gate!Timers
      /\ Gate!Loop \notin Gate!Timers /\ gen \in Nat
      /\ \A h \in Gate!Goroutines : h \in Nat
      /\ Gate!Timers \subseteq Gate!Goroutines
      /\ DOMAIN pc = Gate!Goroutines /\ DOMAIN verdict = Gate!Goroutines
  BY BoundsAssumption DEF Gate!Loop, Gate!Goroutines, Gate!Timers, Gate!TypeOK
<1> USE DEF Gate!gateState, Gate!runner
<1> DEFINE Same == \A h \in Gate!Goroutines :
                      h # g => pc'[h] = pc[h] /\ verdict'[h] = verdict[h]
<1>1. CASE Gate!Settle(g) /\ ~inflight
  <2>1. /\ pc[g] = "settle" /\ pc'[g] \in {"idle", "off"} /\ Same
        /\ g # Gate!Loop => pc'[g] = "off"
        /\ UNCHANGED <<ready, inflight, gen, last, reply>> /\ out'.kind = "silence"
    BY <1>0, <1>1 DEF Gate!Settle, Gate!Return, Gate!Silence
  <2> HIDE DEF Same
  <2>2. Same => \A h \in Gate!Goroutines : h # g => pc'[h] = pc[h] /\ verdict'[h] = verdict[h]
    BY DEF Same
  <2>3. AnswersKept
    BY <1>0, <1>1, <2>1, <2>2
       DEF AnswersKept, VerdictAtGate, NackAtGate, AckAtGate, RoundComes, Settling,
           LacksPeer, Publishing, Gate!Outstanding
  <2>4. RoundsKept
    BY <1>0, <1>1, <2>1, <2>2 DEF RoundsKept, Settling, Publishing
  <2>5. TimersInOrder'
    BY <1>0, <2>1, <2>2 DEF TimersInOrder
  <2> QED BY <2>3, <2>4, <2>5
<1>2. CASE Gate!Settle(g) /\ inflight
  <2>1. /\ pc[g] = "settle" /\ pc'[g] = "inform" /\ Same
        /\ verdict'[g] = Gate!Backfilled(verdict[g], verdict[g].cached)
        /\ inflight' = FALSE /\ gen' = gen + 1 /\ UNCHANGED reply /\ out'.kind = "silence"
    BY <1>0, <1>2 DEF Gate!Settle, Gate!Silence
  <2> HIDE DEF Same
  <2>2. Same => \A h \in Gate!Goroutines : h # g => pc'[h] = pc[h] /\ verdict'[h] = verdict[h]
    BY DEF Same
  <2>3. Publishing' /\ Settling'
    BY <2>1 DEF Publishing, Settling
  <2>4. ASSUME \/ VersionOf(verdict[g].versions) = version
               \/ verdict[g].versions = Gate!NoVersions /\ VersionOf(ready) = version
        PROVE  VerdictAtGate'
    BY <2>1, <2>4, BackfillNames DEF VerdictAtGate
  <2>5. g # Gate!Loop => verdict[g].versions = Gate!NoVersions
    BY <1>0, <2>1 DEF TimersInOrder
  <2>6. VerdictAtGate => VerdictAtGate'
    <3>1. ASSUME NEW h \in Gate!Goroutines, pc[h] = "inform",
                 VersionOf(verdict[h].versions) = version
          PROVE  VerdictAtGate'
      BY <2>1, <2>2, <3>1 DEF VerdictAtGate
    <3>2. CASE VersionOf(verdict[Gate!Loop].versions) = version /\ VersionOf(ready) = version
      BY <2>4, <2>5, <3>2
    <3> QED BY <3>1, <3>2 DEF VerdictAtGate
  <2>7. AckAtGate => VerdictAtGate'
    BY <2>1, <2>4, <2>5 DEF AckAtGate
  <2>8. NackAtGate => NackAtGate'
    BY <1>0, <2>1, <2>2 DEF NackAtGate
  <2>9. AnswersKept
    BY <2>3, <2>6, <2>7, <2>8 DEF AnswersKept, RoundComes
  <2>10. RoundsKept
    BY <1>0, <2>1, <2>3 DEF RoundsKept
  <2>11. TimersInOrder'
    BY <1>0, <2>1, <2>2 DEF TimersInOrder
  <2> QED BY <2>9, <2>10, <2>11
<1>3. CASE Gate!Inform(g)
  <2>1. /\ pc[g] = "inform" /\ pc'[g] \in {"hook", "block"} /\ Same /\ verdict' = verdict
        /\ UNCHANGED <<ready, inflight, gen, last, reply>>
        /\ out'.kind = "inform" /\ out'.verdict = verdict[g]
    BY <1>0, <1>3 DEF Gate!Inform
  <2> HIDE DEF Same
  <2>2. Same => \A h \in Gate!Goroutines : h # g => pc'[h] = pc[h] /\ verdict'[h] = verdict[h]
    BY DEF Same
  <2>3. VerdictAtGate => VerdictAtGate' \/ InformsOfMine'
    BY <1>0, <2>1, <2>2 DEF VerdictAtGate, InformsOfMine
  <2>4. AnswersKept
    <3>1. NackAtGate => NackAtGate'
      BY <1>0, <2>1, <2>2 DEF NackAtGate
    <3>2. AckAtGate => AckAtGate'
      BY <1>0, <2>1, <2>2 DEF AckAtGate, LacksPeer, Gate!Outstanding
    <3> QED BY <2>1, <2>3, <3>1, <3>2 DEF AnswersKept
  <2>5. VersionOf(out'.verdict.versions) # NoVersion
    <3>1. verdict[g].versions \in Gate!VersionMaps(Participants \cup Required)
      BY <2>1 DEF Gate!TypeOK, Gate!Resolving, Gate!Verdicts
    <3>2. Me \in DOMAIN verdict[g].versions /\ verdict[g].versions[Me] \in Versions
      BY <2>1, <3>1 DEF CoordinatorFacts, Gate!VersionMaps
    <3> QED BY <2>1, <3>2, MeAssumption DEF VersionOf
  <2>6. RoundsKept
    BY <1>0, <2>1, <2>5 DEF RoundsKept
  <2>7. TimersInOrder'
    BY <1>0, <2>1, <2>2 DEF TimersInOrder
  <2> QED BY <2>4, <2>6, <2>7
<1>4. CASE Gate!Block(g) \/ Gate!Hook(g)
  <2>1. /\ pc[g] \in {"block", "hook"} /\ pc'[g] \in {"hook", "idle", "off"} /\ Same
        /\ UNCHANGED <<ready, inflight, gen, last, reply>>
        /\ out'.kind \in {"block", "hook"}
    BY <1>0, <1>4 DEF Gate!Block, Gate!Hook, Gate!Return
  <2> HIDE DEF Same
  <2>2. Same => \A h \in Gate!Goroutines : h # g => pc'[h] = pc[h] /\ verdict'[h] = verdict[h]
    BY DEF Same
  <2>3. VerdictAtGate => VerdictAtGate'
    BY <1>0, <2>1, <2>2 DEF VerdictAtGate
  <2>4. AnswersKept
    BY <1>0, <2>1, <2>2, <2>3
       DEF AnswersKept, NackAtGate, AckAtGate, RoundComes, Settling, Publishing,
           LacksPeer, Gate!Outstanding
  <2>5. RoundsKept
    BY <1>0, <2>1, <2>2 DEF RoundsKept, Settling, Publishing
  <2>6. TimersInOrder'
    BY <1>0, <2>1, <2>2 DEF TimersInOrder
  <2> QED BY <2>4, <2>5, <2>6
<1> QED BY <1>1, <1>2, <1>3, <1>4 DEF Gate!Resolve

\* What the loop sends when a handler has returned is no verdict.
LEMMA ReplyIsNoInform == Gate!TypeOK => reply.kind # "inform"
BY DEF Gate!TypeOK, Gate!Messages, Gate!Silence

\* So do the loop's other steps, a timer that fires and the runner.
LEMMA StepAnswers ==
    ASSUME Gate!TypeOK, CoordinatorFacts, TimersInOrder, version \in Versions,
           UNCHANGED version,
           \/ Gate!LoopStep \/ Gate!OnVerdictMsg \/ Gate!RunnerReplies
           \/ \E t \in Gate!Timers : Gate!TimerStep(t)
    PROVE  AnswersKept /\ RoundsKept /\ TimersInOrder'
<1> USE DEF Gate!gateState, Gate!runner, Gate!locals
<1>0. /\ Gate!Loop \in Gate!Goroutines /\ Gate!Loop \notin Gate!Timers
      /\ Gate!Timers \subseteq Gate!Goroutines /\ Gate!Timers \subseteq Nat
      /\ gen \in Nat /\ gen + 1 # Gate!Loop
      /\ DOMAIN pc = Gate!Goroutines /\ DOMAIN verdict = Gate!Goroutines
  BY BoundsAssumption DEF Gate!Loop, Gate!Goroutines, Gate!Timers, Gate!TypeOK
<1>1. CASE Gate!Open
  <2>1. /\ pc[Gate!Loop] = "open" /\ pc'[Gate!Loop] = "reply"
        /\ \A h \in Gate!Timers : pc'[h] = IF h = gen + 1 THEN "armed" ELSE pc[h]
        /\ inflight' = TRUE
        /\ UNCHANGED <<ready, gen, last, verdict, reply>> /\ out'.kind = "silence"
    BY <1>0, <1>1 DEF Gate!Open, Gate!Silence
  <2>2. \A h \in Gate!Timers : h = gen + 1 => pc[h] = "off"
    BY <1>0, <2>1 DEF CoordinatorFacts, TimersInOrder
  <2>3. VerdictAtGate => VerdictAtGate'
    BY <1>0, <2>1, <2>2 DEF VerdictAtGate, Gate!Goroutines
  <2>4. AckAtGate => AckAtGate'
    BY <1>0, <2>1 DEF AckAtGate
  <2>5. AnswersKept
    BY <1>0, <2>1, <2>3, <2>4 DEF AnswersKept, NackAtGate, RoundComes, Settling
  <2>6. RoundsKept
    BY <2>1 DEF RoundsKept, Settling
  <2>7. TimersInOrder'
    BY <1>0, <2>1, <2>2 DEF TimersInOrder
  <2> QED BY <2>5, <2>6, <2>7
<1>2. CASE Gate!SendReply
  <2>1. /\ pc[Gate!Loop] = "reply" /\ pc'[Gate!Loop] = "idle"
        /\ \A h \in Gate!Timers : pc'[h] = pc[h]
        /\ reply'.kind = "silence" /\ out' = reply
        /\ UNCHANGED <<ready, inflight, gen, last, verdict>>
    BY <1>0, <1>2 DEF Gate!SendReply, Gate!Silence
  <2>2. VerdictAtGate => VerdictAtGate'
    BY <1>0, <2>1 DEF VerdictAtGate, Gate!Goroutines
  <2>3. Settling => Settling'
    BY <1>0, <2>1 DEF Settling, Publishing, Gate!Goroutines
  <2>4. LacksPeer => LacksPeer'
    BY <2>1 DEF LacksPeer, Gate!Outstanding
  <2>5. AckAtGate => RepliesToMe(out', "ack") /\ RoundComes'
    BY <2>1, <2>4 DEF AckAtGate, RepliesToMe, RoundComes, Settling
  <2>6. NackAtGate => RepliesToMe(out', "nack")
    BY <2>1 DEF NackAtGate, RepliesToMe
  <2>7. AnswersKept
    BY <2>2, <2>3, <2>4, <2>5, <2>6 DEF AnswersKept, RoundComes
  <2>8. RoundsKept
    BY <2>1, <2>3, ReplyIsNoInform DEF RoundsKept
  <2>9. TimersInOrder'
    BY <1>0, <2>1 DEF TimersInOrder
  <2> QED BY <2>7, <2>8, <2>9
<1>3. CASE Gate!OnVerdictMsg
  <2>1. /\ pc[Gate!Loop] = "idle" /\ pc'[Gate!Loop] = "settle"
        /\ \A h \in Gate!Timers : pc'[h] = pc[h] /\ verdict'[h] = verdict[h]
        /\ UNCHANGED <<ready, inflight, gen, last, reply>> /\ out'.kind = "silence"
    BY <1>0, <1>3 DEF Gate!OnVerdictMsg, Gate!Silence
  <2>2. VerdictAtGate => VerdictAtGate'
    BY <1>0, <2>1 DEF VerdictAtGate, Gate!Goroutines
  <2>3. Settling => Settling'
    BY <1>0, <2>1 DEF Settling, Publishing, Gate!Goroutines
  <2>4. LacksPeer => LacksPeer'
    BY <2>1 DEF LacksPeer, Gate!Outstanding
  <2>5. AnswersKept
    BY <2>1, <2>2, <2>3, <2>4 DEF AnswersKept, RoundComes, AckAtGate, NackAtGate
  <2>6. RoundsKept
    BY <2>1, <2>3 DEF RoundsKept
  <2>7. TimersInOrder'
    BY <1>0, <2>1 DEF TimersInOrder
  <2> QED BY <2>5, <2>6, <2>7
<1>4. CASE Gate!RunnerReplies
  <2>1. UNCHANGED <<ready, inflight, gen, last, pc, verdict, reply>> /\ out'.kind = "silence"
    BY <1>4 DEF Gate!RunnerReplies, Gate!Silence
  <2>2. AnswersKept
    BY <2>1 DEF AnswersKept, VerdictAtGate, NackAtGate, AckAtGate, RoundComes, Settling,
                LacksPeer, Publishing, Gate!Outstanding
  <2> QED BY <2>1, <2>2 DEF RoundsKept, TimersInOrder, Settling, Publishing
<1>5. ASSUME NEW t \in Gate!Timers, Gate!TimerFires(t)
      PROVE  AnswersKept /\ RoundsKept /\ TimersInOrder'
  <2>1. /\ pc[t] = "armed" /\ pc'[t] \in {"off", "settle"}
        /\ pc'[t] = "settle" => verdict'[t].versions = Gate!NoVersions
        /\ \A h \in Gate!Goroutines : h # t => pc'[h] = pc[h] /\ verdict'[h] = verdict[h]
        /\ UNCHANGED <<ready, inflight, gen, last, reply>> /\ out'.kind = "silence"
    BY <1>0, <1>5 DEF Gate!TimerFires, Gate!Verdict, Gate!Silence
  <2>2. VerdictAtGate => VerdictAtGate'
    BY <1>0, <2>1 DEF VerdictAtGate
  <2>3. Settling => Settling'
    BY <1>0, <2>1 DEF Settling, Publishing
  <2>4. LacksPeer => LacksPeer'
    BY <2>1 DEF LacksPeer, Gate!Outstanding
  <2>5. AnswersKept
    BY <1>0, <2>1, <2>2, <2>3, <2>4 DEF AnswersKept, RoundComes, AckAtGate, NackAtGate
  <2>6. RoundsKept
    BY <2>1, <2>3 DEF RoundsKept
  <2>7. TimersInOrder'
    BY <1>0, <2>1 DEF TimersInOrder
  <2> QED BY <2>5, <2>6, <2>7
<1>6. CASE \E g \in Gate!Goroutines : Gate!Resolve(g)
  BY <1>6, ResolveAnswers
<1> QED BY <1>0, <1>1, <1>2, <1>3, <1>4, <1>5, <1>6 DEF Gate!LoopStep, Gate!TimerStep

\* A Ready ends no round and starts none behind the agent's back.
LEMMA ReadyRounds ==
    ASSUME Gate!TypeOK, TimersInOrder, NEW p \in Required, NEW v \in Versions,
           OnReadyFrom(p, v)
    PROVE  /\ RoundsKept /\ TimersInOrder'
           /\ pc[Gate!Loop] = "idle" /\ out'.kind = "silence" /\ gen' = gen
           /\ \A t \in Gate!Timers : pc'[t] = pc[t] /\ verdict'[t] = verdict[t]
<1> USE DEF Gate!gateState, Gate!runner, Gate!locals
<1>0. /\ Gate!Loop \in Gate!Goroutines /\ Gate!Loop \notin Gate!Timers
      /\ Gate!Timers \subseteq Gate!Goroutines
      /\ DOMAIN pc = Gate!Goroutines /\ DOMAIN verdict = Gate!Goroutines
  BY DEF Gate!Loop, Gate!Goroutines, Gate!Timers, Gate!TypeOK
<1>1. /\ pc[Gate!Loop] = "idle" /\ pc'[Gate!Loop] # "inform" /\ out'.kind = "silence"
      /\ gen' = gen /\ (inflight => inflight')
      /\ reply'.kind = "nack" => reply.kind = "nack" \/ inflight
      /\ \A t \in Gate!Timers : pc'[t] = pc[t] /\ verdict'[t] = verdict[t]
  <2>1. CASE Gate!ReplayVerdict(p, v)
    BY <1>0, <2>1 DEF Gate!ReplayVerdict, Gate!Silence
  <2>2. CASE Gate!RecordReady(p, v)
    BY <1>0, <2>2 DEF Gate!RecordReady, Gate!Silence, Gate!Ack
  <2>3. CASE Gate!RefuseReady(p)
    BY <1>0, <2>3 DEF Gate!RefuseReady, Gate!Silence
  <2> QED BY <2>1, <2>2, <2>3 DEF OnReadyFrom
<1>2. Settling => Settling'
  BY <1>0, <1>1 DEF Settling, Publishing, Gate!Goroutines
<1>3. inflight' => Settling'
  BY DEF Settling
<1>4. RoundsKept
  BY <1>1, <1>2, <1>3 DEF RoundsKept
<1>5. TimersInOrder'
  BY <1>1 DEF TimersInOrder
<1> QED BY <1>1, <1>4, <1>5

\* Recording somebody's Ready completes the quorum, or leaves a peer lacking.
LEMMA ClaimFills ==
    ASSUME NEW p, NEW v, NEW r, r = Gate!Claim(p, v),
           ~Gate!Full(r), DOMAIN ready \subseteq Required, p \in Required
    PROVE  Gate!Outstanding(r) # {}
<1>1. DOMAIN r = DOMAIN ready \cup {p}
  BY DEF Gate!Claim
<1>2. DOMAIN r # Required
  BY DEF Gate!Full
<1> QED BY <1>1, <1>2 DEF Gate!Outstanding

\* A peer's Ready leaves the agent's answer where it is.
LEMMA PeerAnswers ==
    ASSUME Gate!TypeOK, CoordinatorFacts, TimersInOrder, version \in Versions,
           UNCHANGED version, NEW p \in Required \ {Me}, NEW v \in Versions,
           OnReadyFrom(p, v)
    PROVE  AnswersKept
<1> USE DEF Gate!gateState, Gate!runner, Gate!locals
<1>1. /\ RoundsKept /\ out'.kind = "silence" /\ pc[Gate!Loop] = "idle"
      /\ \A t \in Gate!Timers : pc'[t] = pc[t] /\ verdict'[t] = verdict[t]
  BY ReadyRounds
<1>2. VerdictAtGate => VerdictAtGate'
  BY <1>1 DEF VerdictAtGate, Gate!Goroutines
<1>3. RoundComes => RoundComes'
  <2>1. CASE Settling
    BY <1>1, <2>1 DEF RoundsKept, RoundComes
  <2>2. CASE LacksPeer
    <3>1. CASE Gate!ReplayVerdict(p, v)
      BY <3>1 DEF Gate!ReplayVerdict, RoundComes, Settling
    <3>2. CASE Gate!RecordReady(p, v) /\ Gate!Full(ready')
      BY <3>2 DEF Gate!RecordReady, RoundComes, Settling, Gate!TypeOK, Gate!Goroutines
    <3>3. CASE Gate!RecordReady(p, v) /\ ~Gate!Full(ready')
      <4>1. ready' = Gate!Claim(p, v) /\ DOMAIN ready \subseteq Required
        BY <3>3 DEF Gate!RecordReady, Gate!TypeOK, Gate!VersionMaps
      <4>2. Gate!Outstanding(ready)'# {}
        BY <3>3, <4>1, ClaimFills DEF Gate!Outstanding
      <4>3. VersionOf(ready') = version
        BY <2>2, <4>1, NamesVersion DEF LacksPeer, Gate!Claim
      <4> QED BY <4>2, <4>3 DEF RoundComes, LacksPeer
    <3>4. CASE Gate!RefuseReady(p)
      BY <3>4 DEF Gate!RefuseReady, RoundComes, Settling
    <3> QED BY <3>1, <3>2, <3>3, <3>4 DEF OnReadyFrom
  <2> QED BY <2>1, <2>2 DEF RoundComes
<1> QED BY <1>1, <1>2, <1>3 DEF AnswersKept, NackAtGate, AckAtGate

\* Once there has been a round, a Ready is followed by one.
LEMMA ReadySettles ==
    ASSUME Gate!TypeOK, CoordinatorFacts, NEW p \in Required, NEW v \in Versions,
           OnReadyFrom(p, v), inflight \/ gen > 0
    PROVE  Settling'
<1> USE DEF Gate!gateState
<1>1. CASE Gate!ReplayVerdict(p, v)
  BY <1>1 DEF Gate!ReplayVerdict, Settling
<1>2. CASE Gate!RecordReady(p, v)
  <2>1. DOMAIN ready = Required
    BY DEF CoordinatorFacts, Gate!QuorumIsNeverLost
  <2>2. Gate!Full(ready')
    BY <1>2, <2>1 DEF Gate!RecordReady, Gate!Claim, Gate!Full
  <2>3. pc'[Gate!Loop] = "open"
    BY <1>2, <2>2 DEF Gate!RecordReady, Gate!TypeOK, Gate!Goroutines
  <2> QED BY <2>3 DEF Settling
<1>3. CASE Gate!RefuseReady(p)
  BY <1>3 DEF Gate!RefuseReady, Settling
<1> QED BY <1>1, <1>2, <1>3 DEF OnReadyFrom

\* The agent's own Ready is answered, and once there has been a round it is
\* followed by another.
LEMMA MyAnswers ==
    ASSUME Gate!TypeOK, CoordinatorFacts, TimersInOrder, version \in Versions,
           UNCHANGED version, OnReadyFrom(Me, version)
    PROVE  /\ VerdictAtGate' \/ NackAtGate' \/ AckAtGate'
           /\ inflight' \/ gen' > 0 => Settling'
<1> USE DEF Gate!gateState, Gate!runner, Gate!locals
<1>0. /\ Me \in Required /\ Gate!Loop \in Gate!Goroutines
      /\ DOMAIN pc = Gate!Goroutines /\ DOMAIN verdict = Gate!Goroutines
  BY MeAssumption DEF Gate!Loop, Gate!Goroutines, Gate!TypeOK
<1>1. CASE Gate!ReplayVerdict(Me, version)
  <2>1. /\ inflight' /\ pc'[Gate!Loop] = "settle" /\ ready' = ready
        /\ verdict'[Gate!Loop].versions = last.versions
        /\ last # Gate!NoVerdict /\ ~inflight
        /\ Me \in DOMAIN last.versions /\ last.versions[Me] = version
    BY <1>0, <1>1 DEF Gate!ReplayVerdict, Gate!Remembered, Gate!Verdict
  <2>2. Me \in DOMAIN ready /\ ready[Me] = version
    BY <1>0, <2>1 DEF CoordinatorFacts, Gate!QuorumIsNeverLost, Gate!RememberedRoundIsCurrent
  <2>3. VersionOf(last.versions) = version /\ VersionOf(ready) = version
    BY <2>1, <2>2, NamesVersion
  <2> QED BY <2>1, <2>3 DEF VerdictAtGate, Settling
<1>2. CASE Gate!RecordReady(Me, version)
  <2>1. /\ ready' = Gate!Claim(Me, version) /\ reply'.kind = "ack" /\ reply'.to = Me
        /\ pc'[Gate!Loop] = IF Gate!Full(ready') THEN "open" ELSE "reply"
        /\ UNCHANGED <<inflight, gen>> /\ ~inflight
    BY <1>0, <1>2 DEF Gate!RecordReady, Gate!Ack
  <2>2. VersionOf(ready') = version
    BY <2>1, NamesVersion DEF Gate!Claim
  <2>3. DOMAIN ready \subseteq Required /\ DOMAIN ready' = DOMAIN ready \cup {Me}
    BY <2>1 DEF Gate!TypeOK, Gate!VersionMaps, Gate!Claim
  <2>4. CASE Gate!Full(ready')
    BY <2>1, <2>2, <2>4 DEF AckAtGate, Settling
  <2>5. CASE ~Gate!Full(ready')
    <3>1. Gate!Outstanding(ready')# {}
      BY <1>0, <2>1, <2>3, <2>5, ClaimFills
    <3>2. gen = 0
      BY <2>1, <2>3, <3>1, <1>0 DEF CoordinatorFacts, Gate!QuorumIsNeverLost, Gate!TypeOK,
                                   Gate!Outstanding
    <3> QED BY <2>1, <2>2, <2>5, <3>1, <3>2 DEF AckAtGate, LacksPeer
  <2> QED BY <2>4, <2>5
<1>3. CASE Gate!RefuseReady(Me)
  <2>1. /\ pc'[Gate!Loop] = "reply" /\ reply'.kind = "nack" /\ reply'.to = Me /\ inflight'
    BY <1>0, <1>3 DEF Gate!RefuseReady, Gate!Nack
  <2> QED BY <2>1 DEF NackAtGate, Settling
<1> QED BY <1>1, <1>2, <1>3 DEF OnReadyFrom

(***************************************************************************)
(* The bus: what the coordinator publishes for the agent is in its mail.   *)
(***************************************************************************)

\* The mail that is there stays; what is appended is what was published, and
\* it is fresh.
LEMMA MailArrives ==
    ASSUME SubmitTypeOK, Carried
    PROVE  /\ \A i \in DOMAIN mail : i \in DOMAIN mail' /\ mail'[i] = mail[i]
           /\ \A i \in DOMAIN mail' \ DOMAIN mail :
                 \/ /\ mail'[i].kind = "inform" /\ out'.kind = "inform"
                    /\ mail'[i].tested = VersionOf(out'.verdict.versions)
                 \/ mail'[i].kind \in {"ack", "nack"} /\ RepliesToMe(out', mail'[i].kind)
           /\ at # "done" =>
                 /\ out'.kind = "inform" =>
                       \E i \in FreshMail("inform")' :
                           /\ mail'[i].tested = VersionOf(out'.verdict.versions)
                           /\ \A j \in DOMAIN mail : j < i
                 /\ RepliesToMe(out', "ack") => FreshMail("ack")' # {}
                 /\ RepliesToMe(out', "nack") => FreshMail("nack")' # {}
<1>0. mail \in Seq(Mail)
  BY DEF SubmitTypeOK
<1>1. CASE mail' = mail /\ (at = "done" \/ ToMe(out') = <<>>)
  <2>1. ToMe(out') = <<>> => out'.kind # "inform" /\ ~RepliesToMe(out', "ack") /\ ~RepliesToMe(out', "nack")
    BY DEF ToMe, RepliesToMe
  <2> QED BY <1>1, <2>1
<1>2. ASSUME NEW x, at # "done", mail' = Append(mail, x), ~x.old,
             \/ /\ x.kind = "inform" /\ out'.kind = "inform"
                /\ x.tested = VersionOf(out'.verdict.versions)
             \/ x.kind \in {"ack", "nack"} /\ RepliesToMe(out', x.kind)
      PROVE  /\ \A i \in DOMAIN mail : i \in DOMAIN mail' /\ mail'[i] = mail[i]
             /\ \A i \in DOMAIN mail' \ DOMAIN mail :
                   \/ /\ mail'[i].kind = "inform" /\ out'.kind = "inform"
                      /\ mail'[i].tested = VersionOf(out'.verdict.versions)
                   \/ mail'[i].kind \in {"ack", "nack"} /\ RepliesToMe(out', mail'[i].kind)
             /\ \A kind \in {"inform", "ack", "nack"} : out'.kind = kind =>
                   \E i \in FreshMail(kind)' : mail'[i] = x /\ \A j \in DOMAIN mail : j < i
  <2> DEFINE n == Len(mail) + 1
  <2>1. /\ DOMAIN mail' = DOMAIN mail \cup {n} /\ n \notin DOMAIN mail
        /\ mail'[n] = x /\ \A i \in DOMAIN mail : mail'[i] = mail[i] /\ i < n
    BY <1>0, <1>2
  <2> HIDE DEF n
  <2>2. x.kind = out'.kind
    BY <1>2 DEF RepliesToMe
  <2>3. ASSUME NEW kind, out'.kind = kind PROVE n \in FreshMail(kind)'
    BY <1>2, <2>1, <2>2, <2>3 DEF FreshMail
  <2> QED BY <1>2, <2>1, <2>2, <2>3
<1>3. ASSUME NEW x, ToMe(out') = <<x>>, at # "done" PROVE mail' = Append(mail, x)
  BY <1>0, <1>3 DEF Carried
<1>4. CASE at # "done" /\ out'.kind = "inform"
  <2> DEFINE x == [kind |-> "inform", passed |-> out'.verdict.passed,
                   tested |-> VersionOf(out'.verdict.versions), old |-> FALSE]
  <2>1. ToMe(out') = <<x>>
    BY <1>4 DEF ToMe
  <2>2. x.kind = "inform" /\ ~x.old /\ x.tested = VersionOf(out'.verdict.versions)
    OBVIOUS
  <2> HIDE DEF x
  <2>3. mail' = Append(mail, x)
    BY <1>3, <1>4, <2>1
  <2>4. ~RepliesToMe(out', "ack") /\ ~RepliesToMe(out', "nack")
    BY <1>4 DEF RepliesToMe
  <2>5. \E i \in FreshMail("inform")' :
           mail'[i] = x /\ \A j \in DOMAIN mail : j < i
    BY <1>2, <1>4, <2>2, <2>3
  <2> QED BY <1>2, <1>4, <2>2, <2>3, <2>4, <2>5
<1>5. CASE at # "done" /\ out'.kind \in {"ack", "nack"} /\ out'.to = Me
  <2> DEFINE x == [kind |-> out'.kind, passed |-> FALSE, tested |-> NoVersion, old |-> FALSE]
  <2>1. ToMe(out') = <<x>>
    BY <1>5 DEF ToMe
  <2>2. x.kind = out'.kind /\ ~x.old
    OBVIOUS
  <2> HIDE DEF x
  <2>3. mail' = Append(mail, x)
    BY <1>3, <1>5, <2>1
  <2>4. x.kind \in {"ack", "nack"} /\ RepliesToMe(out', x.kind)
    BY <1>5, <2>2 DEF RepliesToMe
  <2>5. /\ out'.kind # "inform"
        /\ \A k \in {"ack", "nack"} : RepliesToMe(out', k) => out'.kind = k
    BY <1>5 DEF RepliesToMe
  <2> QED BY <1>2, <1>5, <2>2, <2>3, <2>4, <2>5
<1>6. CASE out'.kind # "inform" /\ ~(out'.kind \in {"ack", "nack"} /\ out'.to = Me)
  <2>1. ToMe(out') = <<>>
    BY <1>6 DEF ToMe
  <2>2. mail' = mail
    BY <1>0, <2>1 DEF Carried
  <2> QED BY <1>1, <2>1, <2>2
<1>7. CASE at = "done"
  BY <1>1, <1>7 DEF Carried
<1> QED BY <1>4, <1>5, <1>6, <1>7

\* Fresh mail stays fresh while the process does nothing.
LEMMA FreshStays ==
    ASSUME SubmitTypeOK, Carried, NEW kind, NEW i \in FreshMail(kind)
    PROVE  i \in FreshMail(kind)' /\ mail'[i] = mail[i] /\ i \in DOMAIN mail
BY MailArrives DEF FreshMail

\* While the attempt waits, no step of the coordinator or a peer loses its
\* answer.
LEMMA CarriedAnswers ==
    ASSUME SubmitTypeOK, Carried, AnswersKept, at \in {"ack", "verdict"},
           VerdictComes \/ NackComes \/ MismatchComes \/ AckComes
    PROVE  (VerdictComes \/ NackComes \/ MismatchComes \/ AckComes)'
<1>0. UNCHANGED <<at, version, recorded, chan, handling, offer>>
  BY DEF Carried, waiter, dispatch
<1>1. RoundComes => RoundComes' \/ \E j \in FreshMail("inform")' : \A i \in DOMAIN mail : i < j
  BY MailArrives DEF AnswersKept
<1>2. CASE VerdictComes
  <2>1. InformsOfMine' => \E i \in FreshMail("inform")' : mail'[i].tested = version'
    BY MailArrives DEF InformsOfMine
  <2>2. VerdictAtGate => VerdictComes'
    BY <2>1 DEF AnswersKept, VerdictComes
  <2>3. (\E i \in FreshMail("inform") : mail[i].tested = version) => VerdictComes'
    BY <1>0, FreshStays DEF VerdictComes
  <2> QED BY <1>0, <1>2, <2>2, <2>3 DEF VerdictComes, Has
<1>3. CASE NackComes
  <2>1. NackAtGate => NackComes'
    BY MailArrives DEF AnswersKept, NackComes
  <2>2. FreshMail("nack") # {} => FreshMail("nack")' # {}
    BY FreshStays
  <2> QED BY <1>0, <1>3, <2>1, <2>2 DEF NackComes, Has
<1>4. CASE MismatchComes
  BY <1>0, <1>4 DEF MismatchComes, Has
<1>5. CASE AckComes
  <2>1. FreshMail("inform") # {} => FreshMail("inform")' # {}
    BY FreshStays
  <2>2. RoundComes => RoundComes' \/ FreshMail("inform")' # {}
    BY <1>1
  <2>3. CASE AckAtGate
    <3>1. RepliesToMe(out', "ack") /\ RoundComes' => AckComes'
      BY MailArrives DEF AckComes
    <3> QED BY <2>3, <3>1 DEF AnswersKept, AckComes, VerdictComes
  <2>4. ASSUME NEW i \in FreshMail("ack"),
               RoundComes \/ \E j \in FreshMail("inform") : i < j
        PROVE  AckComes'
    <3>1. i \in FreshMail("ack")' /\ i \in DOMAIN mail
      BY FreshStays
    <3>2. RoundComes' \/ \E j \in FreshMail("inform")' : i < j
      BY <1>1, <2>4, <3>1, FreshStays
    <3> QED BY <3>1, <3>2 DEF AckComes
  <2>5. CASE handling.kind = "ack" /\ offer = Empty /\ (RoundComes \/ FreshMail("inform") # {})
    BY <1>0, <2>1, <2>2, <2>5 DEF AckComes
  <2>6. CASE /\ recorded /\ (at = "ack" => offer.kind = "acked" \/ Has("acked"))
             /\ \/ RoundComes \/ FreshMail("inform") # {}
                \/ handling.kind = "inform" /\ offer = Empty
    BY <1>0, <2>1, <2>2, <2>6 DEF AckComes, Has
  <2> QED BY <1>5, <2>3, <2>4, <2>5, <2>6 DEF AckComes
<1> QED BY <1>2, <1>3, <1>4, <1>5

\* Nor the end of a round.
LEMMA CarriedEnds ==
    ASSUME SubmitTypeOK, Carried, RoundsKept, NackTellsOfRound, OfferFits, NamesMe
    PROVE  /\ at # "done" /\ (Settling \/ FreshMail("inform") # {}) =>
                  Settling' \/ FreshMail("inform")' # {}
           /\ NackTellsOfRound' /\ OfferFits' /\ NamesMe'
<1>0. UNCHANGED <<at, version, recorded, chan, handling, offer>>
  BY DEF Carried, waiter, dispatch
<1>1. FreshMail("inform") # {} => FreshMail("inform")' # {}
  BY FreshStays
<1>2. at # "done" /\ Settling => Settling' \/ FreshMail("inform")' # {}
  BY MailArrives DEF RoundsKept
<1>3. NackTellsOfRound'
  <2>1. ASSUME NEW i \in DOMAIN mail', mail'[i].kind = "nack"
        PROVE  (\E j \in DOMAIN mail : mail[j].kind = "nack") \/ reply.kind = "nack"
    <3>1. CASE i \in DOMAIN mail
      BY <2>1, <3>1, MailArrives
    <3>2. CASE i \notin DOMAIN mail
      BY <2>1, <3>2, MailArrives DEF RepliesToMe, RoundsKept
    <3> QED BY <3>1, <3>2
  <2>2. /\ inflight \/ gen > 0 => inflight' \/ gen' > 0
        /\ reply'.kind = "nack" => reply.kind = "nack" \/ inflight
    BY DEF RoundsKept
  <2>3. Has("nacked")' => Has("nacked")
    BY <1>0 DEF Has
  <2>4. Refused' => Refused \/ inflight
    BY <1>0, <2>1, <2>2, <2>3 DEF Refused
  <2> QED BY <2>2, <2>4 DEF NackTellsOfRound
<1>4. OfferFits'
  BY <1>0 DEF OfferFits
<1>5. NamesMe'
  <2>1. ASSUME NEW i \in DOMAIN mail', mail'[i].kind = "inform"
        PROVE  mail'[i].tested # NoVersion
    <3>1. CASE i \in DOMAIN mail
      BY <2>1, <3>1, MailArrives DEF NamesMe
    <3>2. CASE i \notin DOMAIN mail
      BY <2>1, <3>2, MailArrives DEF RoundsKept
    <3> QED BY <3>1, <3>2
  <2> QED BY <1>0, <2>1 DEF NamesMe
<1> QED BY <1>1, <1>2, <1>3, <1>4, <1>5

(***************************************************************************)
(* The process: an answer that has come is handled, offered and taken.     *)
(***************************************************************************)

\* What the coordinator has in hand is not the process's to change.
LEMMA GateStays ==
    ASSUME UNCHANGED <<gateVars, version>>
    PROVE  /\ VerdictAtGate' <=> VerdictAtGate
           /\ NackAtGate' <=> NackAtGate
           /\ AckAtGate' <=> AckAtGate
           /\ RoundComes' <=> RoundComes
           /\ Settling' <=> Settling
           /\ reply' = reply /\ (inflight' \/ gen' > 0 <=> inflight \/ gen > 0)
<1>1. UNCHANGED <<ready, inflight, gen, pc, verdict, reply, version>>
  BY DEF gateVars
<1>2. (Settling' <=> Settling) /\ (LacksPeer' <=> LacksPeer)
  BY <1>1 DEF Settling, Publishing, LacksPeer, Gate!Outstanding
<1> QED BY <1>1, <1>2 DEF VerdictAtGate, NackAtGate, AckAtGate, RoundComes

\* The next message is in hand, if it is fresh; the others move up.
LEMMA ReceiveFacts ==
    ASSUME SubmitTypeOK, Receive
    PROVE  /\ \A kind : \A i \in FreshMail(kind) :
                 \/ /\ i = 1 /\ handling'.kind = kind /\ handling'.tested = mail[i].tested
                 \/ \E j \in FreshMail(kind)' : i = j + 1 /\ mail'[j] = mail[i]
           /\ \A j \in DOMAIN mail' : \E i \in DOMAIN mail : mail'[j] = mail[i]
           /\ handling' # Empty =>
                 \E i \in DOMAIN mail : /\ mail[i].kind = handling'.kind
                                        /\ mail[i].tested = handling'.tested
           /\ handling = Empty /\ offer = Empty /\ offer' = Empty
           /\ UNCHANGED <<at, version, stamped, recorded, chan, sent>>
<1>1. mail \in Seq(Mail) /\ mail # <<>>
  BY DEF Receive, SubmitTypeOK
<1>2. 1 \in DOMAIN mail /\ Head(mail) = mail[1] /\ mail[1] \in Mail
  BY <1>1
<1>3. /\ mail' = Tail(mail)
      /\ handling' = IF Fresh(mail[1]) THEN [mail[1] EXCEPT !.old = FALSE] ELSE Empty
      /\ handling = Empty /\ offer' = offer
      /\ UNCHANGED <<at, version, stamped, recorded, chan, sent>>
  BY <1>2 DEF Receive, waiter
<1>4. offer = Empty
  BY <1>3 DEF SubmitTypeOK
<1>5. /\ \A i \in DOMAIN mail : i = 1 \/ \E j \in DOMAIN mail' : i = j + 1 /\ mail'[j] = mail[i]
      /\ \A j \in DOMAIN mail' : j + 1 \in DOMAIN mail /\ mail'[j] = mail[j + 1]
  <2>1. /\ DOMAIN Tail(mail) = 1 .. Len(mail) - 1 /\ DOMAIN mail = 1 .. Len(mail)
        /\ \A j \in 1 .. Len(mail) - 1 : Tail(mail)[j] = mail[j + 1]
        /\ Len(mail) \in Nat
    BY <1>1
  <2>2. ASSUME NEW i \in DOMAIN mail, i # 1
        PROVE  \E j \in DOMAIN mail' : i = j + 1 /\ mail'[j] = mail[i]
    <3>1. PICK j \in 1 .. Len(mail) - 1 : i = j + 1
      BY <2>1, <2>2
    <3> QED BY <1>3, <2>1, <3>1
  <2> QED BY <1>3, <2>1, <2>2
<1>6. /\ [mail[1] EXCEPT !.old = FALSE].kind = mail[1].kind
      /\ [mail[1] EXCEPT !.old = FALSE].tested = mail[1].tested
  BY <1>2 DEF Mail
<1>7. ASSUME NEW kind, NEW i \in FreshMail(kind)
      PROVE  \/ /\ i = 1 /\ handling'.kind = kind /\ handling'.tested = mail[i].tested
             \/ \E j \in FreshMail(kind)' : i = j + 1 /\ mail'[j] = mail[i]
  <2>1. i \in DOMAIN mail /\ mail[i].kind = kind /\ ~mail[i].old
    BY <1>7 DEF FreshMail
  <2>2. CASE i = 1
    BY <1>3, <1>6, <2>1, <2>2 DEF Fresh
  <2>3. CASE i # 1
    <3>1. PICK j \in DOMAIN mail' : i = j + 1 /\ mail'[j] = mail[i]
      BY <1>5, <2>1, <2>3
    <3>2. j \in FreshMail(kind)'
      BY <2>1, <3>1 DEF FreshMail
    <3> QED BY <3>1, <3>2
  <2> QED BY <2>2, <2>3
<1>8. handling' # Empty =>
         \E i \in DOMAIN mail : mail[i].kind = handling'.kind /\ mail[i].tested = handling'.tested
  BY <1>2, <1>3, <1>6
<1> QED BY <1>3, <1>4, <1>5, <1>7, <1>8

\* The parts that speak of the attempt and of its messages.
HearingOfSubmit == AnswerComes /\ EndComes /\ NackTellsOfRound /\ OfferFits /\ NamesMe

\* A message that is received is not lost.
LEMMA ReceiveHears ==
    ASSUME SubmitTypeOK, HearingOfSubmit, UNCHANGED gateVars, Receive
    PROVE  HearingOfSubmit'
<1>0. /\ handling = Empty /\ offer = Empty /\ offer' = Empty
      /\ UNCHANGED <<at, version, recorded, chan, sent>> /\ handling.kind = "empty"
  BY ReceiveFacts DEF Empty
<1>1. \A c : Has(c)' <=> Has(c)
  BY <1>0 DEF Has
<1>2. FreshMail("inform") # {} => FreshMail("inform")' # {} \/ handling'.kind = "inform"
  BY ReceiveFacts
<1>3. VerdictComes => VerdictComes'
  <2>1. ASSUME NEW i \in FreshMail("inform"), mail[i].tested = version PROVE VerdictComes'
    <3>1. \/ handling'.kind = "inform" /\ handling'.tested = mail[i].tested
          \/ \E j \in FreshMail("inform")' : mail'[j] = mail[i]
      BY <2>1, ReceiveFacts
    <3> QED BY <1>0, <2>1, <3>1 DEF VerdictComes
  <2> QED BY <1>0, <1>1, <2>1, GateStays DEF VerdictComes
<1>4. NackComes => NackComes'
  <2>1. FreshMail("nack") # {} => FreshMail("nack")' # {} \/ handling'.kind = "nack"
    BY ReceiveFacts
  <2> QED BY <1>0, <1>1, <2>1, GateStays DEF NackComes
<1>5. MismatchComes => MismatchComes'
  BY <1>0, <1>1 DEF MismatchComes
<1>6. AckComes => AckComes'
  <2>1. ASSUME NEW i \in FreshMail("ack"),
               RoundComes \/ \E j \in FreshMail("inform") : i < j
        PROVE  AckComes'
    <3>1. CASE i = 1 /\ handling'.kind = "ack"
      <4>1. (\E j \in FreshMail("inform") : i < j) => FreshMail("inform")' # {}
        BY <3>1, ReceiveFacts
      <4> QED BY <1>0, <2>1, <3>1, <4>1, GateStays DEF AckComes
    <3>2. ASSUME NEW k \in FreshMail("ack")', i = k + 1 PROVE AckComes'
      <4>1. ASSUME NEW j \in FreshMail("inform"), i < j
            PROVE  \E l \in FreshMail("inform")' : k < l
        <5>1. k \in Nat /\ j # 1
          <6>1. DOMAIN mail \subseteq Nat \ {0} /\ DOMAIN mail' \subseteq Nat
            BY ReceiveFacts DEF SubmitTypeOK, Receive
          <6> QED BY <3>2, <4>1, <6>1 DEF FreshMail
        <5>2. PICK l \in FreshMail("inform")' : j = l + 1
          BY <4>1, <5>1, ReceiveFacts
        <5>3. l \in Nat
          BY <5>2 DEF FreshMail, SubmitTypeOK, Receive
        <5> QED BY <3>2, <4>1, <5>1, <5>2, <5>3
      <4> QED BY <1>0, <2>1, <3>2, <4>1, GateStays DEF AckComes
    <3> QED BY <3>1, <3>2, ReceiveFacts
  <2>2. CASE /\ recorded /\ (at = "ack" => offer.kind = "acked" \/ Has("acked"))
             /\ \/ RoundComes \/ FreshMail("inform") # {}
                \/ handling.kind = "inform" /\ offer = Empty
    BY <1>0, <1>1, <1>2, <2>2, GateStays DEF AckComes
  <2> QED BY <1>0, <2>1, <2>2, GateStays DEF AckComes
<1>7. AnswerComes'
  BY <1>0, <1>3, <1>4, <1>5, <1>6 DEF HearingOfSubmit, AnswerComes
<1>8. EndComes'
  BY <1>0, <1>1, <1>2, GateStays DEF HearingOfSubmit, EndComes
<1>9. NackTellsOfRound'
  <2>1. handling'.kind = "nack" => \E i \in DOMAIN mail : mail[i].kind = "nack"
    BY ReceiveFacts DEF Empty
  <2>2. (\E i \in DOMAIN mail' : mail'[i].kind = "nack") => \E i \in DOMAIN mail : mail[i].kind = "nack"
    BY ReceiveFacts
  <2>3. Refused' => Refused
    BY <1>0, <1>1, <2>1, <2>2, GateStays DEF Refused
  <2> QED BY <1>0, <2>3, GateStays DEF HearingOfSubmit, NackTellsOfRound
<1>10. OfferFits' /\ NamesMe'
  <2>1. handling'.kind = "inform" => handling'.tested # NoVersion
    BY ReceiveFacts DEF Empty, HearingOfSubmit, NamesMe
  <2>2. \A i \in DOMAIN mail' : mail'[i].kind = "inform" => mail'[i].tested # NoVersion
    BY ReceiveFacts DEF HearingOfSubmit, NamesMe
  <2> QED BY <1>0, <2>1, <2>2 DEF OfferFits, NamesMe
<1> QED BY <1>7, <1>8, <1>9, <1>10 DEF HearingOfSubmit

\* A handler that offers says what its message says, and the signal is in its
\* channel when the handler has ended.
LEMMA HandlerHears ==
    ASSUME SubmitTypeOK, HearingOfSubmit, UNCHANGED gateVars, OnInform \/ OnReply \/ Offer
    PROVE  HearingOfSubmit'
<1> USE DEF waiter, dispatch
<1>0. UNCHANGED <<at, version, stamped, mail, sent>>
  BY DEF OnInform, OnReply, Offer
<1>1. /\ FreshMail("ack")' = FreshMail("ack") /\ FreshMail("nack")' = FreshMail("nack")
      /\ FreshMail("inform")' = FreshMail("inform")
  BY <1>0 DEF FreshMail
<1>2. CASE OnInform
  <2>1. /\ handling.kind = "inform" /\ offer = Empty /\ offer' # Empty
        /\ UNCHANGED <<handling, recorded, chan>>
        /\ \/ offer'.kind = "verdicts" /\ handling.tested = version
           \/ offer'.kind = "mismatched" /\ handling.tested # version
           \/ /\ offer'.kind = "declined" /\ handling.tested # version
              /\ handling.tested = NoVersion \/ ~recorded
    BY <1>2 DEF OnInform, Signal, Answers, Empty
  <2>2. \A c : Has(c)' <=> Has(c)
    BY <2>1 DEF Has
  <2>3. offer.kind = "empty"
    BY <2>1 DEF Empty
  <2>4. AnswerComes'
    <3>1. (VerdictComes => VerdictComes') /\ (NackComes => NackComes')
      BY <1>0, <1>1, <2>1, <2>2, GateStays DEF VerdictComes, NackComes
    <3>2. MismatchComes => MismatchComes'
      BY <2>2, <2>3 DEF MismatchComes
    <3>3. recorded => VerdictComes' \/ MismatchComes'
      BY <1>0, <2>1 DEF VerdictComes, MismatchComes, HearingOfSubmit, NamesMe
    <3>4. ASSUME NEW i \in FreshMail("ack"),
                 RoundComes \/ \E j \in FreshMail("inform") : i < j
          PROVE  AckComes'
      BY <1>0, <1>1, <3>4, GateStays DEF AckComes
    <3>5. AckComes => AckComes' \/ VerdictComes' \/ MismatchComes'
      BY <1>0, <1>1, <2>1, <3>3, <3>4, GateStays DEF AckComes
    <3> QED BY <1>0, <3>1, <3>2, <3>5 DEF HearingOfSubmit, AnswerComes
  <2>5. EndComes'
    BY <1>0, <1>1, <2>1, <2>2, GateStays DEF HearingOfSubmit, EndComes
  <2>6. NackTellsOfRound'
    BY <1>0, <2>1, <2>2, GateStays DEF HearingOfSubmit, NackTellsOfRound, Refused
  <2>7. OfferFits' /\ NamesMe'
    BY <1>0, <2>1 DEF HearingOfSubmit, OfferFits, NamesMe
  <2> QED BY <2>4, <2>5, <2>6, <2>7 DEF HearingOfSubmit
<1>3. CASE OnReply
  <2>1. /\ offer = Empty /\ offer' # Empty /\ UNCHANGED <<handling, chan>>
        /\ \/ handling.kind = "ack" /\ offer'.kind = "acked" /\ recorded'
           \/ handling.kind = "nack" /\ offer'.kind = "nacked"
    BY <1>3 DEF OnReply, Signal, Empty
  <2>2. \A c : Has(c)' <=> Has(c)
    BY <2>1 DEF Has
  <2>3. offer.kind = "empty"
    BY <2>1 DEF Empty
  <2>4. AnswerComes'
    <3>1. (VerdictComes => VerdictComes') /\ (NackComes => NackComes')
      BY <1>0, <1>1, <2>1, <2>2, GateStays DEF VerdictComes, NackComes
    <3>2. MismatchComes => MismatchComes'
      BY <2>2, <2>3 DEF MismatchComes
    <3>3. handling.kind = "nack" => NackComes'
      BY <2>1 DEF NackComes
    <3>4. ASSUME NEW i \in FreshMail("ack"),
                 RoundComes \/ \E j \in FreshMail("inform") : i < j
          PROVE  AckComes'
      BY <1>0, <1>1, <3>4, GateStays DEF AckComes
    <3>5. handling.kind = "ack" /\ (RoundComes \/ FreshMail("inform") # {}) => AckComes'
      BY <1>0, <1>1, <2>1, GateStays DEF AckComes
    <3>6. AckComes => AckComes' \/ NackComes'
      BY <1>0, <1>1, <2>1, <3>3, <3>4, <3>5, GateStays DEF AckComes
    <3> QED BY <1>0, <3>1, <3>2, <3>6 DEF HearingOfSubmit, AnswerComes
  <2>5. EndComes'
    BY <1>0, <1>1, <2>1, <2>2, GateStays DEF HearingOfSubmit, EndComes
  <2>6. NackTellsOfRound'
    BY <1>0, <2>1, <2>2, GateStays DEF HearingOfSubmit, NackTellsOfRound, Refused
  <2>7. OfferFits' /\ NamesMe'
    BY <1>0, <2>1 DEF HearingOfSubmit, OfferFits, NamesMe
  <2> QED BY <2>4, <2>5, <2>6, <2>7 DEF HearingOfSubmit
<1>4. CASE Offer
  <2>1. /\ offer # Empty /\ offer.kind \in Channels /\ DOMAIN chan = Channels
        /\ handling' = Empty /\ offer' = Empty /\ recorded' = recorded
        /\ chan' = [chan EXCEPT ![offer.kind] = IF @ = Empty THEN offer ELSE @]
    BY <1>4 DEF Offer, SubmitTypeOK, Signals
  <2>2. \A c \in Channels : Has(c)' <=> Has(c) \/ c = offer.kind
    BY <2>1 DEF Has
  <2>3. {"verdicts", "acked", "nacked", "declined", "mismatched"} = Channels
    BY DEF Channels
  <2>4. handling'.kind = "empty" /\ offer'.kind = "empty"
    BY <2>1 DEF Empty
  <2>5. OfferFits
    BY DEF HearingOfSubmit
  <2>6. AnswerComes'
    <3>1. VerdictComes => VerdictComes'
      BY <1>0, <1>1, <2>1, <2>2, <2>3, <2>5, GateStays DEF VerdictComes, OfferFits
    <3>2. NackComes => NackComes'
      BY <1>0, <1>1, <2>1, <2>2, <2>3, <2>5, GateStays DEF NackComes, OfferFits
    <3>3. MismatchComes => MismatchComes'
      BY <2>2, <2>3 DEF MismatchComes
    <3>4. ASSUME NEW i \in FreshMail("ack"),
                 RoundComes \/ \E j \in FreshMail("inform") : i < j
          PROVE  AckComes'
      BY <1>0, <1>1, <3>4, GateStays DEF AckComes
    <3>5. ASSUME recorded, at = "ack" => offer.kind = "acked" \/ Has("acked"),
                 RoundComes \/ FreshMail("inform") # {}
          PROVE  AckComes'
      <4>1. at' = "ack" => Has("acked")'
        BY <1>0, <2>2, <2>3, <3>5
      <4>2. (RoundComes \/ FreshMail("inform") # {})'
        BY <1>0, <1>1, <3>5, GateStays
      <4> QED BY <2>1, <3>5, <4>1, <4>2 DEF AckComes
    <3>6. AckAtGate => AckComes'
      BY <1>0, GateStays DEF AckComes
    <3>7. AckComes => AckComes'
      BY <2>1, <3>4, <3>5, <3>6 DEF AckComes
    <3> QED BY <1>0, <3>1, <3>2, <3>3, <3>7 DEF HearingOfSubmit, AnswerComes
  <2>7. EndComes'
    <3>1. handling.kind = "inform" => offer.kind \in {"verdicts", "mismatched", "declined"}
      BY <2>1, <2>5 DEF OfferFits
    <3>2. \A c \in {"verdicts", "mismatched", "declined"} : Has(c) \/ c = offer.kind => Has(c)'
      BY <2>2, <2>3
    <3> QED BY <1>0, <1>1, <3>1, <3>2, GateStays DEF HearingOfSubmit, EndComes
  <2>8. NackTellsOfRound'
    <3>1. Has("nacked")' => Has("nacked") \/ handling.kind = "nack"
      BY <2>1, <2>2, <2>3, <2>5 DEF OfferFits
    <3>2. Refused' => Refused
      BY <1>0, <2>4, <3>1, GateStays DEF Refused
    <3> QED BY <1>0, <3>2, GateStays DEF HearingOfSubmit, NackTellsOfRound
  <2>9. OfferFits' /\ NamesMe'
    BY <1>0, <2>1, <2>4 DEF HearingOfSubmit, OfferFits, NamesMe
  <2> QED BY <2>6, <2>7, <2>8, <2>9 DEF HearingOfSubmit
<1> QED BY <1>2, <1>3, <1>4

\* The attempt declares readiness and takes what it is offered: nothing it
\* still waits for is taken or drained.
LEMMA AttemptHears ==
    ASSUME SubmitTypeOK, HearingOfSubmit, UNCHANGED gateVars,
           Start \/ DeclareReady \/ Answered \/ GiveUp
    PROVE  HearingOfSubmit'
<1> USE DEF waiter, dispatch
<1>0. mail \in Seq(Mail) /\ sent \in Seq(Versions) /\ DOMAIN chan = Channels
  BY DEF SubmitTypeOK
<1>1. ASSUME at' \notin {"ack", "verdict", "look", "round"}, UNCHANGED <<version, handling, offer>>,
             \A i \in DOMAIN mail' : \E k \in DOMAIN mail :
                 mail'[i].kind = mail[k].kind /\ mail'[i].tested = mail[k].tested,
             Has("nacked")' => Has("nacked")
      PROVE  HearingOfSubmit'
  <2>1. AnswerComes' /\ EndComes'
    BY <1>1 DEF AnswerComes, EndComes
  <2>2. Refused' => Refused
    BY <1>1, GateStays DEF Refused
  <2>3. NackTellsOfRound' /\ OfferFits' /\ NamesMe'
    BY <1>1, <2>2, GateStays DEF HearingOfSubmit, NackTellsOfRound, OfferFits, NamesMe
  <2> QED BY <2>1, <2>3 DEF HearingOfSubmit
<1>2. CASE Start
  <2>1. PICK k \in 0 .. Len(mail) : mail' = SubSeq(mail, k + 1, Len(mail))
    BY <1>2 DEF Start
  <2>2. \A i \in DOMAIN mail' : i + k \in DOMAIN mail /\ mail'[i] = mail[i + k]
    BY <1>0, <2>1
  <2>3. at' = "stamp" /\ UNCHANGED <<version, handling, offer, chan>>
    BY <1>2 DEF Start
  <2> QED BY <1>1, <2>2, <2>3 DEF Has
<1>3. CASE Stamp
  <2>1. /\ mail' = [i \in DOMAIN mail |-> [mail[i] EXCEPT !.old = TRUE]]
        /\ at' = "unrecord" /\ UNCHANGED <<version, handling, offer, chan>>
    BY <1>3 DEF Stamp
  <2>2. \A i \in DOMAIN mail : mail[i] \in Mail
    BY <1>0
  <2>3. \A i \in DOMAIN mail' : /\ i \in DOMAIN mail /\ mail'[i].kind = mail[i].kind
                                /\ mail'[i].tested = mail[i].tested
    BY <2>1, <2>2 DEF Mail
  <2> QED BY <1>1, <2>1, <2>3 DEF Has
<1>4. CASE Unrecord
  BY <1>1, <1>4 DEF Unrecord, Has
<1>5. CASE Drain
  <2>1. ~Has("nacked")' /\ at' = "publish" /\ UNCHANGED <<version, handling, offer, mail>>
    BY <1>5 DEF Drain, Has, Channels
  <2> QED BY <1>1, <2>1
<1>6. CASE Publish
  <2>1. /\ at' = "ack" /\ sent' = Append(sent, version) /\ at = "publish"
        /\ UNCHANGED <<version, handling, offer, mail, chan, recorded>>
    BY <1>6 DEF Publish
  <2>2. sent' # <<>> /\ sent'[Len(sent')] = version
    BY <1>0, <2>1
  <2>3. AnswerComes' /\ EndComes'
    BY <2>1, <2>2 DEF AnswerComes, EndComes
  <2>4. Refused' => Refused
    BY <2>1, GateStays DEF Refused, Has
  <2> QED BY <2>1, <2>3, <2>4, GateStays
          DEF HearingOfSubmit, NackTellsOfRound, OfferFits, NamesMe
<1>7. CASE LookFails
  <2>1. /\ at = "look" /\ at' = "round"
        /\ UNCHANGED <<version, handling, offer, mail, chan, recorded, sent>>
    BY <1>7 DEF LookFails
  <2>2. Refused' => Refused
    BY <2>1, GateStays DEF Refused, Has
  <2>3. EndComes'
    BY <2>1, GateStays DEF HearingOfSubmit, EndComes, FreshMail, Has
  <2> QED BY <2>1, <2>2, <2>3, GateStays
          DEF HearingOfSubmit, AnswerComes, NackTellsOfRound, OfferFits, NamesMe
<1>8. CASE TakeAck
  <2>1. /\ at = "ack" /\ at' = "verdict" /\ Has("acked")
        /\ UNCHANGED <<version, handling, offer, mail, recorded, sent>>
        /\ chan' = [chan EXCEPT !["acked"] = Empty]
    BY <1>8 DEF TakeAck, Take, Awaited
  <2>2. \A c \in {"verdicts", "nacked", "mismatched", "declined"} : Has(c)' <=> Has(c)
    BY <1>0, <2>1 DEF Has, Channels
  <2>3. /\ FreshMail("ack")' = FreshMail("ack") /\ FreshMail("nack")' = FreshMail("nack")
        /\ FreshMail("inform")' = FreshMail("inform")
    BY <2>1 DEF FreshMail
  <2>4. AnswerComes'
    <3>1. VerdictComes => VerdictComes'
      BY <2>1, <2>2, <2>3, GateStays DEF VerdictComes
    <3>2. NackComes => NackComes'
      BY <2>1, <2>2, <2>3, GateStays DEF NackComes
    <3>3. MismatchComes => MismatchComes'
      BY <2>1, <2>2 DEF MismatchComes
    <3>4. ASSUME NEW i \in FreshMail("ack"),
                 RoundComes \/ \E j \in FreshMail("inform") : i < j
          PROVE  AckComes'
      BY <2>1, <2>3, <3>4, GateStays DEF AckComes
    <3>5. AckComes => AckComes'
      BY <2>1, <2>3, <3>4, GateStays DEF AckComes
    <3> QED BY <2>1, <3>1, <3>2, <3>3, <3>5 DEF HearingOfSubmit, AnswerComes
  <2>5. EndComes'
    BY <2>1, <2>2, <2>3, GateStays DEF HearingOfSubmit, EndComes
  <2>6. Refused' => Refused
    BY <2>1, <2>2, GateStays DEF Refused
  <2> QED BY <2>1, <2>4, <2>5, <2>6, GateStays
          DEF HearingOfSubmit, NackTellsOfRound, OfferFits, NamesMe
<1>9. CASE TakeNack
  <2>1. /\ at \in {"ack", "verdict"} /\ at' = "look" /\ Has("nacked")
        /\ UNCHANGED <<version, handling, offer, mail, recorded, sent>>
        /\ chan' = [chan EXCEPT !["nacked"] = Empty]
    BY <1>9 DEF TakeNack, Take, Awaited
  <2>2. \A c \in {"verdicts", "mismatched", "declined"} : Has(c)' <=> Has(c)
    BY <1>0, <2>1 DEF Has, Channels
  <2>3. EndComes'
    BY <2>1, <2>2, GateStays DEF HearingOfSubmit, EndComes, FreshMail
  <2>4. Refused
    BY <2>1 DEF Refused
  <2> QED BY <2>1, <2>3, <2>4, GateStays
          DEF HearingOfSubmit, AnswerComes, NackTellsOfRound, OfferFits, NamesMe
<1>10. CASE RoundResolved
  <2>1. PICK c \in {"declined", "mismatched"} : Take(c, "stamp")
    BY <1>10 DEF RoundResolved
  <2>2. /\ at' = "stamp" /\ UNCHANGED <<version, handling, offer, mail>>
        /\ chan' = [chan EXCEPT ![c] = Empty]
    BY <2>1 DEF Take
  <2>3. Has("nacked")' => Has("nacked")
    BY <1>0, <2>2 DEF Has, Channels
  <2> QED BY <1>1, <2>2, <2>3
<1>11. CASE TakeVerdict \/ TakeMismatch \/ GiveUp
  <2>1. /\ chan' = [c \in Channels |-> Empty] /\ handling' = Empty /\ offer' = Empty
        /\ mail' = <<>> /\ at' = "done" /\ UNCHANGED version
    BY <1>11 DEF TakeVerdict, TakeMismatch, GiveUp, End
  <2>2. ~Has("nacked")' /\ handling'.kind = "empty"
    BY <2>1 DEF Has, Channels, Empty
  <2>3. Refused' => Refused
    BY <2>1, <2>2, GateStays DEF Refused
  <2> QED BY <2>1, <2>2, <2>3, GateStays
          DEF HearingOfSubmit, AnswerComes, EndComes, NackTellsOfRound, OfferFits, NamesMe
<1> QED BY <1>2, <1>3, <1>4, <1>5, <1>6, <1>7, <1>8, <1>9, <1>10, <1>11
        DEF DeclareReady, Answered

(***************************************************************************)
(* Together.                                                               *)
(***************************************************************************)

\* Nothing is waited for yet.
LEMMA HearingInit == Init => HearingInv
<1> SUFFICES ASSUME Init PROVE HearingInv
  OBVIOUS
<1>1. /\ at = "new" /\ mail = <<>> /\ handling.kind = "empty" /\ offer = Empty
      /\ ~Has("nacked") /\ reply.kind = "silence"
  BY DEF Init, SubmitInit, Gate!Init, Gate!Silence, Has, Channels, Empty
<1>2. TimersInOrder
  BY DEF Init, Gate!Init, TimersInOrder, Gate!Timers, Gate!Loop, Gate!Goroutines
<1> QED BY <1>1, <1>2 DEF HearingInv, AnswerComes, EndComes, NackTellsOfRound, Refused,
                         OfferFits, NamesMe

\* A step of the coordinator, the runner or a peer keeps what is waited for.
LEMMA CarriedHears ==
    ASSUME SubmitTypeOK, HearingInv, Carried, sent' = sent, AnswersKept, RoundsKept,
           TimersInOrder'
    PROVE  HearingInv'
<1>0. UNCHANGED <<at, version, chan, handling, offer>>
  BY DEF Carried, waiter, dispatch
<1>1. AnswerComes'
  BY <1>0, CarriedAnswers DEF HearingInv, AnswerComes
<1>2. /\ at # "done" /\ (Settling \/ FreshMail("inform") # {}) =>
            Settling' \/ FreshMail("inform")' # {}
      /\ NackTellsOfRound' /\ OfferFits' /\ NamesMe'
  BY CarriedEnds DEF HearingInv
<1>3. EndComes'
  BY <1>0, <1>2 DEF HearingInv, EndComes, RoundsKept, Has
<1> QED BY <1>1, <1>2, <1>3 DEF HearingInv

\* A sequence with nothing after its head ends at its head.
LEMMA LastIsHead ==
    ASSUME NEW S, NEW s \in Seq(S), s # <<>>, Tail(s) = <<>>
    PROVE  Head(s) = s[Len(s)]
<1>1. Len(Tail(s)) = Len(s) - 1 /\ Len(s) \in Nat \ {0}
  OBVIOUS
<1>2. Len(<<>>) = 0
  OBVIOUS
<1>3. Len(Tail(s)) = 0
  BY <1>2, Zenon
<1>4. Len(s) = 1
  <2>1. \A n : n \in Nat \ {0} /\ n - 1 = 0 => n = 1
    OBVIOUS
  <2> QED BY <1>1, <1>3, <2>1, Zenon
<1> QED BY <1>4

\* The agent's own Ready is the attempt's, or there are more of them.
LEMMA MyReadyHears ==
    ASSUME SubmitTypeOK, Gate!TypeOK, CoordinatorFacts, HearingInv, MyReady
    PROVE  HearingInv'
<1>0. /\ UNCHANGED <<at, version, chan, handling, offer>> /\ Carried
      /\ sent \in Seq(Versions) /\ sent # <<>> /\ sent' = Tail(sent)
      /\ OnReadyFrom(Me, Head(sent)) /\ Head(sent) \in Versions
      /\ version \in Versions
  BY DEF MyReady, Carried, waiter, dispatch, SubmitTypeOK
<1>1. RoundsKept /\ TimersInOrder'
  BY <1>0, ReadyRounds, MeAssumption DEF HearingInv
<1>2. NackTellsOfRound' /\ OfferFits' /\ NamesMe'
  BY <1>0, <1>1, CarriedEnds DEF HearingInv
<1>3. CASE sent' # <<>>
  <2>1. sent'[Len(sent')] = sent[Len(sent)]
    BY <1>0, <1>3
  <2> QED BY <1>0, <1>1, <1>2, <1>3, <2>1 DEF HearingInv, AnswerComes, EndComes
<1>4. CASE sent' = <<>> /\ at \in {"ack", "verdict"}
  <2>1. Head(sent) = version
    <3>1. sent[Len(sent)] = version
      BY <1>0, <1>4 DEF HearingInv, AnswerComes
    <3>2. sent \in Seq(Versions) /\ sent # <<>> /\ Tail(sent) = <<>>
      BY <1>0, <1>4
    <3> QED BY <3>1, <3>2, LastIsHead
  <2>2. /\ VerdictAtGate' \/ NackAtGate' \/ AckAtGate'
        /\ inflight' \/ gen' > 0 => Settling'
    BY <1>0, <2>1, MyAnswers DEF HearingInv
  <2>3. AnswerComes'
    BY <1>4, <2>2 DEF AnswerComes, VerdictComes, NackComes, AckComes
  <2>4. EndComes'
    BY <2>2 DEF EndComes
  <2> QED BY <1>1, <1>2, <2>3, <2>4 DEF HearingInv
<1>5. CASE sent' = <<>> /\ at \notin {"ack", "verdict"}
  <2>1. at \in {"look", "round"} => EndComes'
    <3>1. SUFFICES ASSUME at \in {"look", "round"} PROVE Settling'
      BY DEF EndComes
    <3>2. inflight \/ gen > 0
      BY <3>1 DEF HearingInv, NackTellsOfRound, Refused
    <3> QED BY <1>0, <3>2, ReadySettles, MeAssumption DEF HearingInv
  <2> QED BY <1>0, <1>1, <1>2, <1>5, <2>1 DEF HearingInv, AnswerComes, EndComes
<1> QED BY <1>3, <1>4, <1>5

\* Every step keeps what is waited for.
LEMMA HearingNext ==
    SystemInv /\ CoordinatorFacts /\ HearingInv /\ [Next]_vars => HearingInv'
<1> SUFFICES ASSUME SystemInv, CoordinatorFacts, HearingInv, [Next]_vars PROVE HearingInv'
  OBVIOUS
<1>0. Gate!TypeOK /\ SubmitTypeOK /\ version \in Versions /\ TimersInOrder
  BY DEF SystemInv, TypeOK, SubmitTypeOK, HearingInv
<1>1. Carried => UNCHANGED version
  BY DEF Carried
<1>2. CASE MyReady
  BY <1>0, <1>2, MyReadyHears
<1>3. CASE PeerReady
  <2>1. PICK p \in Required \ {Me}, v \in Versions : OnReadyFrom(p, v)
    BY <1>3 DEF PeerReady
  <2>2. Carried /\ sent' = sent
    BY <1>3 DEF PeerReady
  <2>3. RoundsKept /\ TimersInOrder'
    BY <1>0, <2>1, ReadyRounds
  <2>4. AnswersKept
    BY <1>0, <1>1, <2>1, <2>2, PeerAnswers
  <2> QED BY <1>0, <2>2, <2>3, <2>4, CarriedHears
<1>4. CASE RunnerReplies \/ CoordinatorStep
  <2>1. Carried /\ sent' = sent
    BY <1>4 DEF RunnerReplies, CoordinatorStep
  <2>2. \/ Gate!LoopStep \/ Gate!OnVerdictMsg \/ Gate!RunnerReplies
        \/ \E t \in Gate!Timers : Gate!TimerStep(t)
    BY <1>4 DEF RunnerReplies, CoordinatorStep
  <2>3. AnswersKept /\ RoundsKept /\ TimersInOrder'
    BY <1>0, <1>1, <2>1, <2>2, StepAnswers
  <2> QED BY <1>0, <2>1, <2>3, CarriedHears
<1>5. CASE SubmitNext /\ UNCHANGED <<gateVars, history>>
  <2>1. UNCHANGED gateVars /\ HearingOfSubmit
    BY <1>5 DEF HearingInv, HearingOfSubmit
  <2>2. HearingOfSubmit'
    BY <1>0, <1>5, <2>1, ReceiveHears, HandlerHears, AttemptHears DEF SubmitNext, Dispatch
  <2>3. TimersInOrder'
    BY <1>0, <2>1 DEF TimersInOrder, gateVars
  <2> QED BY <2>2, <2>3 DEF HearingInv, HearingOfSubmit
<1>6. CASE UNCHANGED vars
  <2>1. /\ UNCHANGED gateVars
        /\ UNCHANGED <<at, version, stamped, recorded, chan, handling, offer, mail, sent>>
    BY <1>6 DEF vars, submitVars, waiter, dispatch
  <2>2. TimersInOrder'
    BY <1>0, <2>1 DEF TimersInOrder, gateVars
  <2>3. /\ VerdictComes' <=> VerdictComes
        /\ NackComes' <=> NackComes
        /\ MismatchComes' <=> MismatchComes
        /\ AckComes' <=> AckComes
    BY <2>1, GateStays DEF VerdictComes, NackComes, MismatchComes, AckComes, FreshMail, Has
  <2>4. AnswerComes' /\ EndComes'
    BY <2>1, <2>3, GateStays DEF HearingInv, AnswerComes, EndComes, FreshMail, Has
  <2>5. NackTellsOfRound' /\ OfferFits' /\ NamesMe'
    BY <2>1, GateStays DEF HearingInv, NackTellsOfRound, Refused, OfferFits, NamesMe, Has
  <2> QED BY <2>2, <2>4, <2>5 DEF HearingInv
<1> QED BY <1>2, <1>3, <1>4, <1>5, <1>6 DEF Next

\* So it is always there.
THEOREM AnswersArePending == Spec => []HearingInv
<1>1. Spec => []CoordinatorFacts
  BY CoordinatorStands, CoordinatorGives, PTL
<1> QED BY <1>1, SystemCorrect, HearingInit, HearingNext, PTL DEF Spec

\* An attempt never waits for an answer that has come and gone: when nothing is
\* on its way any more, it has something to take, or lacks a peer (submit.go:208
\* to 264, submitwaiter.go:313).
THEOREM NobodyDeaf == Spec => []NobodyIsDeaf
<1>1. SystemInv /\ HearingInv => NobodyIsDeaf
  <2> SUFFICES ASSUME SystemInv, HearingInv, Quiet
               PROVE  /\ at = "ack" => Hearing
                      /\ at = "round" /\ ~inflight => Hearing
                      /\ at = "verdict" /\ ~inflight => Hearing \/ LacksPeer
    BY DEF NobodyIsDeaf
  <2>1. /\ sent = <<>> /\ handling = Empty /\ offer = Empty
        /\ handling.kind = "empty" /\ offer.kind = "empty"
        /\ \A kind : FreshMail(kind) = {}
        /\ pc[Gate!Loop] = "idle" /\ ~Publishing
    BY DEF Quiet, SystemInv, TypeOK, SubmitTypeOK, FreshMail, Publishing, Empty,
           Gate!Goroutines
  <2>2. ~VerdictAtGate /\ ~NackAtGate /\ ~AckAtGate
    BY <2>1 DEF VerdictAtGate, NackAtGate, AckAtGate, Publishing
  <2>3. at \in {"ack", "verdict"} =>
           \/ Has("verdicts") \/ Has("nacked") \/ Has("mismatched")
           \/ (at = "ack" => Has("acked")) /\ (inflight \/ LacksPeer)
    BY <2>1, <2>2
       DEF HearingInv, AnswerComes, VerdictComes, NackComes, MismatchComes, AckComes,
           RoundComes, Settling
  <2>4. CASE at = "ack"
    BY <2>3, <2>4 DEF Hearing, Awaited
  <2>5. CASE at = "verdict"
    BY <2>3, <2>5 DEF Hearing, Awaited
  <2>6. CASE at = "round" /\ ~inflight
    <3>1. inflight \/ gen > 0
      BY <2>6 DEF HearingInv, NackTellsOfRound, Refused
    <3>2. \E c \in {"verdicts", "mismatched", "declined"} : Has(c)
      BY <2>1, <2>6, <3>1 DEF HearingInv, EndComes, Settling
    <3> QED BY <2>6, <3>2 DEF Hearing, Awaited
  <2> QED BY <2>4, <2>5, <2>6
<1> QED BY <1>1, SystemCorrect, AnswersArePending, PTL

(***************************************************************************)
(* An agent that declares one version is told of another only when the     *)
(* runner has merged one.                                                  *)
(***************************************************************************)

\* Claims, requests and verdicts that fit give claims and verdicts that fit.
LEMMA MapsFit ==
    /\ \A v \in Versions : Fits(ready) /\ v = version => Fits(Gate!Claim(Me, v))
    /\ \A p, v : p # Me /\ Fits(ready) => Fits(Gate!Claim(p, v))
    /\ \A told : Fits(told) /\ Fits(ready) => Fits(Gate!Backfill(told))
    /\ \A told : Fits(told) /\ Fits(ready) => Fits(Gate!Restate(told))
    /\ Fits(Gate!NoVersions)
<1>1. \A v : v = version => VersionOf(Gate!Claim(Me, v)) = version
  BY DEF VersionOf, Gate!Claim
<1>2. \A p, v : p # Me => VersionOf(Gate!Claim(p, v)) = VersionOf(ready)
  BY DEF VersionOf, Gate!Claim
<1>3. \A told : VersionOf(Gate!Backfill(told)) \in {VersionOf(told), VersionOf(ready)}
  BY MeAssumption DEF VersionOf, Gate!Backfill
<1>4. \A told : VersionOf(Gate!Restate(told)) \in {VersionOf(told), VersionOf(ready)}
  BY MeAssumption DEF VersionOf, Gate!Restate
<1>5. VersionOf(Gate!NoVersions) = NoVersion
  BY DEF VersionOf, Gate!NoVersions
<1> QED BY <1>1, <1>2, <1>3, <1>4, <1>5 DEF Fits

\* A goroutine that resolves keeps it.
LEMMA FitsResolve ==
    ASSUME Gate!TypeOK, GateFits, NEW g \in Gate!Goroutines, Gate!Resolve(g),
           UNCHANGED version
    PROVE  GateFits'
<1> USE DEF Gate!gateState, Gate!runner
<1>1. verdict \in [Gate!Goroutines -> Gate!Verdicts \cup {Gate!NoVerdict}]
  BY DEF Gate!TypeOK
<1>2. CASE Gate!Settle(g)
  <2>1. verdict[g] # Gate!NoVerdict /\ Fits(verdict[g].versions)
    BY <1>2 DEF Gate!Settle, Gate!TypeOK, Gate!Resolving, GateFits
  <2>2. out'.kind = "silence" /\ UNCHANGED <<requests, replies>>
    BY <1>2 DEF Gate!Settle, Gate!Silence
  <2> DEFINE all == Gate!Backfill(verdict[g].versions)
  <2>3. Fits(all) /\ Fits(Gate!Restate(all))
    BY <2>1, MapsFit DEF GateFits
  <2>4. \A c : Gate!Backfilled(verdict[g], c).versions = all
    BY DEF Gate!Backfilled, Gate!Verdict
  <2>5. /\ last' = last \/ last' = Gate!Backfilled(verdict[g], FALSE)
        /\ ready' \in {ready, Gate!Restate(all)}
    BY <1>2 DEF Gate!Settle
  <2>6. \/ verdict' = [verdict EXCEPT ![g] = Gate!NoVerdict]
        \/ verdict' = [verdict EXCEPT ![g] = Gate!Backfilled(@, @.cached)]
    BY <1>2 DEF Gate!Settle
  <2> HIDE DEF all
  <2>7. \A h \in Gate!Goroutines :
            verdict'[h] # Gate!NoVerdict => Fits(verdict'[h].versions)
    BY <1>1, <2>3, <2>4, <2>6 DEF GateFits
  <2>8. last' # Gate!NoVerdict => Fits(last'.versions)
    BY <2>3, <2>4, <2>5 DEF GateFits
  <2>9. Fits(ready')
    BY <2>3, <2>5 DEF GateFits
  <2> QED BY <2>2, <2>7, <2>8, <2>9 DEF GateFits, Fits, VersionOf
<1>3. CASE Gate!Inform(g)
  <2>1. verdict[g] # Gate!NoVerdict /\ Fits(verdict[g].versions)
    BY <1>3 DEF Gate!Inform, Gate!TypeOK, Gate!Resolving, GateFits
  <2>2. out'.verdict = verdict[g] /\ UNCHANGED <<ready, requests, replies, last, verdict>>
    BY <1>3 DEF Gate!Inform
  <2> QED BY <2>1, <2>2 DEF GateFits, Fits, VersionOf
<1>4. CASE Gate!Block(g)
  <2>1. out'.kind = "block" /\ UNCHANGED <<ready, requests, replies, last, verdict>>
    BY <1>4 DEF Gate!Block
  <2> QED BY <2>1 DEF GateFits, Fits, VersionOf
<1>5. CASE Gate!Hook(g)
  <2>1. /\ out'.kind = "hook" /\ UNCHANGED <<ready, requests, replies, last>>
        /\ verdict' = [verdict EXCEPT ![g] = Gate!NoVerdict]
    BY <1>5 DEF Gate!Hook
  <2> QED BY <1>1, <2>1 DEF GateFits, Fits, VersionOf
<1> QED BY <1>2, <1>3, <1>4, <1>5 DEF Gate!Resolve

\* So does a Ready, if the agent's is for its version.
LEMMA FitsReady ==
    ASSUME Gate!TypeOK, GateFits, NEW p, NEW v \in Versions, OnReadyFrom(p, v),
           p = Me => v = version, UNCHANGED version
    PROVE  GateFits'
<1> USE DEF Gate!gateState, Gate!runner
<1>1. verdict \in [Gate!Goroutines -> Gate!Verdicts \cup {Gate!NoVerdict}]
  BY DEF Gate!TypeOK
<1>2. CASE Gate!ReplayVerdict(p, v)
  <2>1. last # Gate!NoVerdict /\ Fits(last.versions)
    BY <1>2 DEF Gate!ReplayVerdict, Gate!Remembered, GateFits
  <2> DEFINE w == Gate!Verdict(last.passed, last.stalled, TRUE, last.versions)
  <2>2. w.versions = last.versions
    BY DEF Gate!Verdict
  <2>3. /\ out'.kind = "silence" /\ UNCHANGED <<ready, requests, replies, last>>
        /\ verdict' = [verdict EXCEPT ![Gate!Loop] = w]
    BY <1>2 DEF Gate!ReplayVerdict, Gate!Silence
  <2> HIDE DEF w
  <2>4. Fits(w.versions)
    BY <2>1, <2>2
  <2>5. \A h \in Gate!Goroutines :
            verdict'[h] # Gate!NoVerdict => Fits(verdict'[h].versions)
    BY <1>1, <2>3, <2>4 DEF GateFits
  <2> QED BY <2>3, <2>5 DEF GateFits, Fits, VersionOf
<1>3. CASE Gate!RecordReady(p, v)
  <2>1. /\ out'.kind = "silence" /\ last' = Gate!NoVerdict
        /\ ready' = Gate!Claim(p, v) /\ UNCHANGED <<requests, replies, verdict>>
    BY <1>3 DEF Gate!RecordReady, Gate!Silence
  <2>2. Fits(ready')
    BY <2>1, MapsFit DEF GateFits
  <2> QED BY <2>1, <2>2 DEF GateFits, Fits, VersionOf
<1>4. CASE Gate!RefuseReady(p)
  <2>1. out'.kind = "silence" /\ UNCHANGED <<ready, requests, replies, last, verdict>>
    BY <1>4 DEF Gate!RefuseReady, Gate!Silence
  <2> QED BY <2>1 DEF GateFits, Fits, VersionOf
<1> QED BY <1>2, <1>3, <1>4 DEF OnReadyFrom

\* So do the loop's other steps and the timers.
LEMMA FitsCoordinator ==
    ASSUME Gate!TypeOK, GateFits, CoordinatorStep
    PROVE  GateFits'
<1> USE DEF Gate!gateState, Gate!runner
<1>1. verdict \in [Gate!Goroutines -> Gate!Verdicts \cup {Gate!NoVerdict}]
         /\ UNCHANGED version
  BY DEF Gate!TypeOK, CoordinatorStep, Carried
<1>2. CASE Gate!Open
  <2>1. /\ out'.kind = "silence" /\ UNCHANGED <<ready, replies, last, verdict>>
        /\ requests' \in {requests, Append(requests, ready)}
    BY <1>2 DEF Gate!Open, Gate!Silence
  <2>2. requests \in Seq(Gate!VersionMaps(Required))
           /\ ready \in Gate!VersionMaps(Required)
    BY DEF Gate!TypeOK
  <2>3. \A i \in DOMAIN Append(requests, ready) :
            Append(requests, ready)[i] = ready
            \/ (i \in DOMAIN requests /\ Append(requests, ready)[i] = requests[i])
    BY <2>2
  <2>4. \A i \in DOMAIN requests' : Fits(requests'[i])
    BY <2>1, <2>3 DEF GateFits
  <2> QED BY <1>1, <2>1, <2>4 DEF GateFits, Fits, VersionOf
<1>3. CASE Gate!SendReply
  <2>1. out' = reply /\ UNCHANGED <<ready, requests, replies, last, verdict>>
    BY <1>3 DEF Gate!SendReply
  <2> QED BY <1>1, <2>1, ReplyIsNoInform DEF GateFits, Fits, VersionOf
<1>4. CASE Gate!OnVerdictMsg
  <2> DEFINE r == Head(replies).report
             w == Gate!Verdict(r.passed, FALSE, FALSE, r.versions)
  <2>1. /\ out'.kind = "silence" /\ UNCHANGED <<ready, requests, last>>
        /\ replies # <<>> /\ replies' = Tail(replies)
        /\ verdict' = [verdict EXCEPT ![Gate!Loop] = w]
    BY <1>4 DEF Gate!OnVerdictMsg, Gate!Silence
  <2>2. replies \in Seq([asked : Gate!VersionMaps(Required), report : Reports])
    BY DEF Gate!TypeOK
  <2>3. 1 \in DOMAIN replies /\ Head(replies) = replies[1]
    BY <2>1, <2>2
  <2>4. \A i \in DOMAIN replies' : i + 1 \in DOMAIN replies /\ replies'[i] = replies[i + 1]
    BY <2>1, <2>2
  <2>5. w.versions = r.versions
    BY DEF Gate!Verdict
  <2> HIDE DEF w
  <2>6. Fits(w.versions)
    BY <2>3, <2>5 DEF GateFits
  <2> HIDE DEF r
  <2>7. \A i \in DOMAIN replies' : Fits(replies'[i].report.versions)
    BY <2>4 DEF GateFits
  <2>8. \A h \in Gate!Goroutines :
            verdict'[h] # Gate!NoVerdict => Fits(verdict'[h].versions)
    BY <1>1, <2>1, <2>6 DEF GateFits
  <2> QED BY <1>1, <2>1, <2>7, <2>8 DEF GateFits, Fits, VersionOf
<1>5. ASSUME NEW t \in Gate!Timers, Gate!TimerFires(t) PROVE GateFits'
  <2> DEFINE w == Gate!Verdict(FALSE, TRUE, FALSE, Gate!NoVersions)
  <2>1. /\ out'.kind = "silence" /\ UNCHANGED <<ready, requests, last, replies>>
        /\ verdict' = verdict \/ verdict' = [verdict EXCEPT ![t] = w]
    BY <1>5 DEF Gate!TimerFires, Gate!Silence
  <2>2. Fits(w.versions)
    BY MapsFit DEF Gate!Verdict
  <2> HIDE DEF w
  <2>3. \A h \in Gate!Goroutines :
            verdict'[h] # Gate!NoVerdict => Fits(verdict'[h].versions)
    BY <1>1, <2>1, <2>2 DEF GateFits
  <2> QED BY <1>1, <2>1, <2>3 DEF GateFits, Fits, VersionOf
<1>6. Gate!Loop \in Gate!Goroutines /\ Gate!Timers \subseteq Gate!Goroutines
  BY DEF Gate!Goroutines
<1> QED BY <1>1, <1>2, <1>3, <1>4, <1>5, <1>6, FitsResolve
        DEF CoordinatorStep, Gate!LoopStep, Gate!TimerStep

\* So does the runner, unless it merges another version.
LEMMA FitsReplies ==
    ASSUME Gate!TypeOK, GateFits, RunnerReplies, ~moved'
    PROVE  GateFits'
<1>1. PICK r \in Reports : replies' = Append(replies, [asked |-> Head(requests), report |-> r])
  BY DEF RunnerReplies, Gate!RunnerReplies
<1>2. replies \in Seq([asked : Gate!VersionMaps(Required), report : Reports])
         /\ requests \in Seq(Gate!VersionMaps(Required))
  BY DEF Gate!TypeOK
<1>3. /\ DOMAIN replies' = 1 .. Len(replies) + 1
      /\ replies'[Len(replies')].report = r
      /\ replies'[Len(replies) + 1].report = r
      /\ \A i \in DOMAIN replies' : i # Len(replies) + 1 =>
             i \in DOMAIN replies /\ replies'[i] = replies[i]
  BY <1>1, <1>2
<1>4. /\ out'.kind = "silence" /\ UNCHANGED <<ready, last, verdict, version>>
      /\ requests # <<>> /\ requests' = Tail(requests)
  BY DEF RunnerReplies, Carried, Gate!RunnerReplies, Gate!Silence, Gate!gateState,
         Gate!locals
<1>5. /\ 1 \in DOMAIN requests /\ Head(requests) = requests[1]
      /\ \A i \in DOMAIN requests' :
             i + 1 \in DOMAIN requests /\ requests'[i] = requests[i + 1]
  BY <1>2, <1>4
<1>6. VersionOf(r.versions) \in {VersionOf(Head(requests)), NoVersion}
  BY <1>3 DEF RunnerReplies
<1>7. Fits(r.versions)
  BY <1>5, <1>6 DEF Fits, GateFits
<1>8. \A i \in DOMAIN replies' : Fits(replies'[i].report.versions)
  BY <1>3, <1>7 DEF GateFits
<1>9. \A i \in DOMAIN requests' : Fits(requests'[i])
  BY <1>5 DEF GateFits
<1> QED BY <1>4, <1>8, <1>9 DEF GateFits, Fits, VersionOf

\* What a publication brings fits, and is put behind what is there.
LEMMA CarriedFits ==
    ASSUME SubmitTypeOK, SubmitFits, Carried, GateFits', out' \in Gate!Publications
    PROVE  SubmitFits'
<1>1. UNCHANGED <<at, version, stamped, recorded, chan, handling, offer>>
  BY DEF Carried, waiter, dispatch
<1> DEFINE box == ToMe(out')
           Told(s) == s \in Seq(Mail) /\ \A i \in DOMAIN s : s[i].tested \in {version, NoVersion}
<1>2. Told(box)
  <2>1. CASE out'.kind = "inform"
    <3> DEFINE x == [kind |-> "inform", passed |-> out'.verdict.passed,
                     tested |-> VersionOf(out'.verdict.versions), old |-> FALSE]
    <3>1. out'.verdict \in Gate!Verdicts
      BY <2>1 DEF Gate!Publications, Gate!Messages, Gate!Silence
    <3>2. out'.verdict.passed \in BOOLEAN
      BY <3>1 DEF Gate!Verdicts
    <3>3. VersionOf(out'.verdict.versions) \in Versions \cup {NoVersion}
      BY <3>1 DEF Gate!Verdicts, Gate!VersionMaps, VersionOf
    <3>4. VersionOf(out'.verdict.versions) \in {version, NoVersion}
      BY <1>1, <2>1 DEF GateFits, Fits, VersionOf
    <3>5. x \in Mail /\ x.tested \in {version, NoVersion} /\ box = <<x>>
      BY <2>1, <3>2, <3>3, <3>4 DEF Mail, ToMe
    <3> HIDE DEF x, box
    <3> QED BY <3>5
  <2>2. CASE out'.kind \in {"ack", "nack"} /\ out'.to = Me
    <3> DEFINE x == [kind |-> out'.kind, passed |-> FALSE, tested |-> NoVersion, old |-> FALSE]
    <3>1. x \in Mail /\ x.tested = NoVersion /\ box = <<x>>
      BY <2>2 DEF Mail, ToMe
    <3> HIDE DEF x, box
    <3> QED BY <3>1
  <2>3. CASE out'.kind # "inform" /\ ~(out'.kind \in {"ack", "nack"} /\ out'.to = Me)
    <3>1. box = <<>>
      BY <2>3 DEF ToMe
    <3> HIDE DEF box
    <3> QED BY <3>1
  <2> QED BY <2>1, <2>2, <2>3
<1>3. Told(mail)
  BY DEF SubmitTypeOK, SubmitFits
<1>4. mail' \in {mail, mail \o box}
  BY DEF Carried
<1> HIDE DEF box
<1>5. \A i \in DOMAIN (mail \o box) :
          \/ i \in DOMAIN mail /\ (mail \o box)[i] = mail[i]
          \/ i - Len(mail) \in DOMAIN box /\ (mail \o box)[i] = box[i - Len(mail)]
  BY <1>2, <1>3
<1>6. \A i \in DOMAIN mail' : mail'[i].tested \in {version, NoVersion}
  <2>1. CASE mail' = mail
    BY <1>3, <2>1
  <2>2. CASE mail' = mail \o box
    <3>1. \A i \in DOMAIN (mail \o box) : (mail \o box)[i].tested \in {version, NoVersion}
      BY <1>2, <1>3, <1>5
    <3> QED BY <2>2, <3>1
  <2> QED BY <1>4, <2>1, <2>2
<1> QED BY <1>1, <1>6 DEF SubmitFits, Has

\* The process offers a mismatch only for a verdict that names another version.
LEMMA SubmitKeepsFits ==
    ASSUME SubmitTypeOK, SubmitFits, SubmitNext
    PROVE  SubmitFits'
<1> USE DEF waiter, dispatch
<1>0. mail \in Seq(Mail) /\ chan \in [Channels -> Signals \cup {Empty}]
         /\ "mismatched" \in Channels
  BY DEF SubmitTypeOK, Channels
<1>1. CASE Start
  <2>1. PICK k \in 0 .. Len(mail) : mail' = SubSeq(mail, k + 1, Len(mail))
    BY <1>1 DEF Start
  <2>2. \A i \in DOMAIN mail' : i + k \in DOMAIN mail /\ mail'[i] = mail[i + k]
    BY <1>0, <2>1
  <2>3. UNCHANGED <<version, chan, handling, offer>>
    BY <1>1 DEF Start
  <2> QED BY <2>2, <2>3 DEF SubmitFits, Has
<1>2. CASE Receive
  <2>1. mail # <<>> /\ UNCHANGED <<version, chan, offer>> /\ mail' = Tail(mail)
           /\ handling' \in {[Head(mail) EXCEPT !.old = FALSE], Empty}
    BY <1>2 DEF Receive
  <2>2. /\ 1 \in DOMAIN mail /\ Head(mail) = mail[1] /\ Head(mail) \in Mail
        /\ \A i \in DOMAIN mail' : i + 1 \in DOMAIN mail /\ mail'[i] = mail[i + 1]
    BY <1>0, <2>1
  <2>3. handling' # Empty => handling'.tested \in {version, NoVersion}
    BY <2>1, <2>2 DEF SubmitFits, Mail
  <2>4. \A i \in DOMAIN mail' : mail'[i].tested \in {version, NoVersion}
    BY <2>2 DEF SubmitFits
  <2> QED BY <2>1, <2>3, <2>4 DEF SubmitFits, Has
<1>3. CASE OnInform
  <2>1. handling # Empty /\ UNCHANGED <<version, chan, handling, mail>>
    BY <1>3 DEF OnInform, Empty
  <2>2. offer'.kind \in {"verdicts", "declined"}
    BY <1>3, <2>1 DEF OnInform, Answers, Signal, SubmitFits
  <2> QED BY <2>1, <2>2 DEF SubmitFits, Has
<1>4. CASE OnReply
  BY <1>4 DEF OnReply, Signal, SubmitFits, Has
<1>5. CASE Offer
  <2>1. /\ UNCHANGED <<version, mail>> /\ handling' = Empty /\ offer' = Empty
        /\ chan'["mismatched"] = chan["mismatched"]
    BY <1>0, <1>5 DEF Offer, SubmitFits
  <2> QED BY <2>1 DEF SubmitFits, Has, Empty
<1>6. CASE Stamp
  <2>1. /\ mail' = [i \in DOMAIN mail |-> [mail[i] EXCEPT !.old = TRUE]]
        /\ UNCHANGED <<version, chan, handling, offer>>
    BY <1>6 DEF Stamp
  <2>2. \A i \in DOMAIN mail : mail[i] \in Mail
    BY <1>0
  <2>3. \A i \in DOMAIN mail' : i \in DOMAIN mail /\ mail'[i].tested = mail[i].tested
    BY <2>1, <2>2 DEF Mail
  <2> QED BY <2>1, <2>3 DEF SubmitFits, Has
<1>7. CASE Unrecord \/ Publish \/ LookFails
  BY <1>7 DEF Unrecord, Publish, LookFails, SubmitFits, Has
<1>8. CASE Drain
  <2>1. chan'["mismatched"] = Empty /\ UNCHANGED <<version, handling, offer, mail>>
    BY <1>0, <1>8 DEF Drain
  <2> QED BY <2>1 DEF SubmitFits, Has
<1>9. ASSUME NEW c, NEW label, Take(c, label) PROVE SubmitFits'
  <2>1. chan' = [chan EXCEPT ![c] = Empty] /\ UNCHANGED <<version, handling, offer, mail>>
    BY <1>9 DEF Take
  <2>2. chan'["mismatched"] \in {chan["mismatched"], Empty}
    BY <1>0, <2>1
  <2> QED BY <2>1, <2>2 DEF SubmitFits, Has
<1>10. CASE End
  <2>1. /\ chan'["mismatched"] = Empty /\ handling' = Empty /\ offer' = Empty
        /\ mail' = <<>> /\ UNCHANGED version
    BY <1>0, <1>10 DEF End
  <2> QED BY <2>1 DEF SubmitFits, Has, Empty
<1> QED BY <1>1, <1>2, <1>3, <1>4, <1>5, <1>6, <1>7, <1>8, <1>9, <1>10
        DEF SubmitNext, Dispatch, DeclareReady, Answered, TakeVerdict, TakeMismatch,
            TakeAck, TakeNack, RoundResolved, GiveUp

\* The process declares one version.
LEMMA OneVersionNext == SentOK /\ OneVersion /\ [Next]_vars => OneVersion' /\ UNCHANGED version
<1> SUFFICES ASSUME SentOK, OneVersion, [Next]_vars PROVE OneVersion' /\ UNCHANGED version
  OBVIOUS
<1> USE DEF SentOK, OneVersion
<1>1. CASE UNCHANGED <<version, sent>>
  BY <1>1
<1>2. CASE Publish
  <2>1. sent' = Append(sent, version) /\ UNCHANGED version
    BY <1>2 DEF Publish
  <2>2. \A i \in DOMAIN sent' :
            sent'[i] = version \/ (i \in DOMAIN sent /\ sent'[i] = sent[i])
    BY <2>1
  <2> QED BY <2>1, <2>2
<1>3. CASE MyReady
  <2>1. sent # <<>> /\ sent' = Tail(sent) /\ UNCHANGED version
    BY <1>3 DEF MyReady, Carried
  <2>2. \A i \in DOMAIN sent' : i + 1 \in DOMAIN sent /\ sent'[i] = sent[i + 1]
    BY <2>1
  <2> QED BY <2>1, <2>2
<1>4. CASE PeerReady \/ RunnerReplies \/ CoordinatorStep
  BY <1>1, <1>4 DEF PeerReady, RunnerReplies, CoordinatorStep, Carried
<1>5. CASE UNCHANGED vars
  BY <1>1, <1>5 DEF vars, submitVars
<1>6. CASE SubmitNext
  <2>1. CASE Start \/ Dispatch
    BY <1>1, <2>1 DEF Start, Dispatch, Receive, OnInform, OnReply, Offer
  <2>2. CASE DeclareReady
    BY <1>1, <1>2, <2>2 DEF DeclareReady, Stamp, Unrecord, Drain
  <2>3. CASE Answered \/ GiveUp
    BY <1>1, <2>3 DEF Answered, GiveUp, TakeVerdict, TakeMismatch, TakeAck,
                      TakeNack, LookFails, RoundResolved, Take, End
  <2> QED BY <1>6, <2>1, <2>2, <2>3 DEF SubmitNext
<1> QED BY <1>3, <1>4, <1>5, <1>6 DEF Next

\* Nothing names the agent yet.
LEMMA OneVersionInit == Init /\ OneVersion => OneVersionInv
<1> SUFFICES ASSUME Init, OneVersion PROVE GateFits /\ SubmitFits
  BY DEF OneVersionInv
<1>1. /\ ready = Gate!NoVersions /\ requests = <<>> /\ replies = <<>>
      /\ last = Gate!NoVerdict /\ out.kind = "silence"
      /\ verdict = [g \in Gate!Goroutines |-> Gate!NoVerdict]
  BY DEF Init, Gate!Init, Gate!Silence
<1>2. GateFits
  BY <1>1, MapsFit DEF GateFits
<1>3. chan["mismatched"] = Empty /\ mail = <<>> /\ handling = Empty /\ offer = Empty
  BY DEF Init, SubmitInit, Channels
<1>4. SubmitFits
  BY <1>3 DEF SubmitFits, Has, Empty
<1> QED BY <1>2, <1>4

\* Every step keeps it: until the runner has merged another version, no map
\* and no message names one.
LEMMA OneVersionStep ==
    SystemInv /\ Gate!TypeOK' /\ OneVersionInv /\ [Next]_vars => OneVersionInv'
<1> SUFFICES ASSUME SystemInv, Gate!TypeOK', OneVersionInv, [Next]_vars PROVE OneVersionInv'
  OBVIOUS
<1>0. /\ Gate!TypeOK /\ SubmitTypeOK /\ SentOK /\ OneVersion
      /\ out' \in Gate!Publications
  BY DEF SystemInv, TypeOK, SubmitTypeOK, Gate!TypeOK, SentOK, OneVersionInv
<1>1. OneVersion' /\ UNCHANGED version
  BY <1>0, OneVersionNext
<1>2. moved => moved'
  BY DEF Next, MyReady, PeerReady, RunnerReplies, CoordinatorStep, history, vars
<1> SUFFICES ASSUME ~moved' PROVE GateFits' /\ SubmitFits'
  BY <1>1 DEF OneVersionInv
<1>3. GateFits /\ SubmitFits
  BY <1>2 DEF OneVersionInv
<1>4. CASE MyReady
  <2>1. sent # <<>> /\ OnReadyFrom(Me, Head(sent)) /\ Carried
    BY <1>4 DEF MyReady
  <2>2. Head(sent) \in Versions /\ Head(sent) = version
    BY <1>0, <2>1 DEF SentOK, OneVersion
  <2>3. GateFits'
    BY <1>0, <1>1, <1>3, <2>1, <2>2, FitsReady
  <2> QED BY <1>0, <1>3, <2>1, <2>3, CarriedFits
<1>5. CASE PeerReady
  <2>1. PICK p \in Required \ {Me}, v \in Versions : OnReadyFrom(p, v)
    BY <1>5 DEF PeerReady
  <2>2. GateFits' /\ Carried
    BY <1>0, <1>1, <1>3, <1>5, <2>1, FitsReady DEF PeerReady
  <2> QED BY <1>0, <1>3, <2>2, CarriedFits
<1>6. CASE RunnerReplies
  <2>1. GateFits' /\ Carried
    BY <1>0, <1>3, <1>6, FitsReplies DEF RunnerReplies
  <2> QED BY <1>0, <1>3, <2>1, CarriedFits
<1>7. CASE CoordinatorStep
  <2>1. GateFits' /\ Carried
    BY <1>0, <1>3, <1>7, FitsCoordinator DEF CoordinatorStep
  <2> QED BY <1>0, <1>3, <2>1, CarriedFits
<1>8. CASE UNCHANGED <<gateVars, history>>
  <2>1. GateFits'
    BY <1>1, <1>3, <1>8 DEF gateVars, GateFits, Fits, VersionOf
  <2>2. CASE SubmitNext
    BY <1>0, <1>3, <2>1, <2>2, SubmitKeepsFits
  <2>3. CASE UNCHANGED vars
    BY <1>3, <2>1, <2>3 DEF vars, submitVars, waiter, dispatch, SubmitFits, Has
  <2>4. ~(MyReady \/ PeerReady \/ RunnerReplies \/ CoordinatorStep) => SubmitNext \/ UNCHANGED vars
    BY DEF Next
  <2> QED BY <1>4, <1>5, <1>6, <1>7, <2>1, <2>2, <2>3, <2>4
<1> QED BY <1>4, <1>5, <1>6, <1>7, <1>8 DEF Next, vars

\* "the agent's branch moved after it submitted" (submit.go:35): so it has,
\* when no earlier process of the agent has left a Ready for another version
\* unheard, which is how the statement fails otherwise.
THEOREM MismatchTellsOfMoved == OneVersionSpec => []MismatchMeansMoved
<1>1. OneVersionInv => MismatchMeansMoved
  BY DEF OneVersionInv, SubmitFits, MismatchMeansMoved
<1>2. OneVersionSpec => Spec
  BY DEF OneVersionSpec, Spec
<1>3. OneVersionSpec => []OneVersionInv
  BY <1>2, GateTypes, SystemCorrect, OneVersionInit, OneVersionStep, PTL DEF OneVersionSpec
<1> QED BY <1>1, <1>3, PTL
=============================================================================
