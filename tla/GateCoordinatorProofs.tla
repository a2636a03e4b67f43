----------------------- MODULE GateCoordinatorProofs -----------------------
(***************************************************************************)
(* Theorems about GateCoordinator, for any participants, versions, runner  *)
(* reports and bounds.                                                     *)
(***************************************************************************)
EXTENDS GateCoordinator, FiniteSetTheorems, SequenceTheorems, TLAPS

(***************************************************************************)
(* Version maps.                                                           *)
(***************************************************************************)

\* A version map over S is a function from a part of S to versions.
LEMMA VersionMapsDef ==
    ASSUME NEW S, NEW f
    PROVE  f \in VersionMaps(S) <=>
               /\ DOMAIN f \subseteq S
               /\ f \in [DOMAIN f -> Versions]
BY DEF VersionMaps

\* The empty map is a version map.
LEMMA NoVersionsType == ASSUME NEW S PROVE NoVersions \in VersionMaps(S)
<1>1. NoVersions \in [{} -> Versions] /\ DOMAIN NoVersions = {}
  BY DEF NoVersions
<1> QED BY <1>1, VersionMapsDef

\* Recording a readiness, backfilling a verdict and restating the claims
\* yield version maps, with the domains one expects.
LEMMA ClaimType ==
    ASSUME ready \in VersionMaps(Required), NEW p \in Required, NEW v \in Versions
    PROVE  /\ Claim(p, v) \in VersionMaps(Required)
           /\ DOMAIN Claim(p, v) = DOMAIN ready \cup {p}
<1>1. DOMAIN Claim(p, v) = DOMAIN ready \cup {p}
  BY DEF Claim
<1>2. \A q \in DOMAIN Claim(p, v) : Claim(p, v)[q] \in Versions
  BY VersionMapsDef DEF Claim
<1>3. Claim(p, v) \in [DOMAIN Claim(p, v) -> Versions]
  BY <1>2 DEF Claim
<1> QED BY <1>1, <1>3, VersionMapsDef

\* A backfilled verdict names what was told and whoever stands.
LEMMA BackfillType ==
    ASSUME ready \in VersionMaps(Required),
           NEW told \in VersionMaps(Participants \cup Required)
    PROVE  /\ Backfill(told) \in VersionMaps(Participants \cup Required)
           /\ DOMAIN Backfill(told) = DOMAIN told \cup DOMAIN ready
<1>0. DOMAIN ready \subseteq Required /\ DOMAIN told \subseteq Participants \cup Required
  BY VersionMapsDef
<1>1. DOMAIN Backfill(told) = DOMAIN told \cup DOMAIN ready
  BY <1>0 DEF Backfill
<1>2. \A p \in DOMAIN Backfill(told) : Backfill(told)[p] \in Versions
  BY VersionMapsDef DEF Backfill
<1>3. Backfill(told) \in [DOMAIN Backfill(told) -> Versions]
  BY <1>2 DEF Backfill
<1> QED BY <1>0, <1>1, <1>3, VersionMapsDef

\* Restating adds no agent that is not required and drops no claim.
LEMMA RestateType ==
    ASSUME ready \in VersionMaps(Required),
           NEW tested \in VersionMaps(Participants \cup Required)
    PROVE  /\ Restate(tested) \in VersionMaps(Required)
           /\ DOMAIN Restate(tested) = DOMAIN ready \cup (Required \cap DOMAIN tested)
           /\ \A p \in Required \cap DOMAIN tested : Restate(tested)[p] = tested[p]
<1>0. DOMAIN ready \subseteq Required
  BY VersionMapsDef
<1>1. DOMAIN Restate(tested) = DOMAIN ready \cup (Required \cap DOMAIN tested)
  BY DEF Restate
<1>2. \A p \in DOMAIN Restate(tested) : Restate(tested)[p] \in Versions
  BY VersionMapsDef DEF Restate
<1>3. Restate(tested) \in [DOMAIN Restate(tested) -> Versions]
  BY <1>2 DEF Restate
<1>4. \A p \in Required \cap DOMAIN tested : Restate(tested)[p] = tested[p]
  BY DEF Restate
<1> QED BY <1>0, <1>1, <1>3, <1>4, VersionMapsDef

\* The quorum test, an equality of counts, says that everybody is ready.
LEMMA FullMeansEverybody ==
    ASSUME NEW r \in VersionMaps(Required)
    PROVE  Full(r) <=> DOMAIN r = Required
<1>1. DOMAIN r \subseteq Required
  BY VersionMapsDef
<1>2. Cardinality(DOMAIN r) = Cardinality(Required) => DOMAIN r = Required
  BY <1>1, RequiredAssumption, FS_Subset
<1> QED BY <1>2 DEF Full

-----------------------------------------------------------------------------
(***************************************************************************)
(* Type correctness.                                                       *)
(***************************************************************************)

\* The fields of a verdict, which is never the missing verdict.
LEMMA VerdictFields ==
    ASSUME NEW w \in Verdicts
    PROVE  /\ w.passed \in BOOLEAN /\ w.stalled \in BOOLEAN /\ w.cached \in BOOLEAN
           /\ w.versions \in VersionMaps(Participants \cup Required)
           /\ w # NoVerdict
BY DEF Verdicts, NoVerdict

\* A verdict is made of its parts.
LEMMA VerdictType ==
    ASSUME NEW passed \in BOOLEAN, NEW stalled \in BOOLEAN, NEW cached \in BOOLEAN,
           NEW m \in VersionMaps(Participants \cup Required)
    PROVE  /\ Verdict(passed, stalled, cached, m) \in Verdicts
           /\ Verdict(passed, stalled, cached, m).versions = m
BY DEF Verdict, Verdicts

\* What resolve makes of a verdict.
LEMMA BackfilledType ==
    ASSUME ready \in VersionMaps(Required), NEW w \in Verdicts, NEW cached \in BOOLEAN
    PROVE  /\ Backfilled(w, cached) \in Verdicts
           /\ Backfilled(w, cached).versions = Backfill(w.versions)
<1>1. /\ w.passed \in BOOLEAN /\ w.stalled \in BOOLEAN
      /\ w.versions \in VersionMaps(Participants \cup Required)
  BY VerdictFields
<1>2. Backfill(w.versions) \in VersionMaps(Participants \cup Required)
  BY <1>1, BackfillType
<1>3. /\ Verdict(w.passed, w.stalled, cached, Backfill(w.versions)) \in Verdicts
      /\ Verdict(w.passed, w.stalled, cached, Backfill(w.versions)).versions
             = Backfill(w.versions)
  BY <1>1, <1>2 DEF Verdict, Verdicts
<1> QED BY <1>3 DEF Backfilled

\* A message and a broadcast are publications.
LEMMA PublicationsType ==
    /\ Messages \subseteq Publications
    /\ \A v \in Verdicts : /\ [kind |-> "inform", verdict |-> v] \in Publications
                           /\ [kind |-> "hook", verdict |-> v] \in Publications
    /\ [kind |-> "block", to |-> Required] \in Publications
    /\ Silence \in Messages
BY DEF Publications, Messages

\* The initial state of the coordinator has its types.
LEMMA TypeInit == Init => TypeOK
BY NoVersionsType, PublicationsType
   DEF Init, TypeOK, Goroutines, Timers, Loop, Resolving

\* Resolving keeps the types, for whichever goroutine resolves.
LEMMA ResolveType ==
    ASSUME TypeOK, NEW g \in Goroutines, Resolve(g)
    PROVE  TypeOK'
<1> USE DEF TypeOK, Resolving
<1>0. Return(g) \in {"idle", "off"} /\ verdict[g] \in Verdicts
  BY DEF Return, Resolve, Settle, Inform, Block, Hook
<1>1. CASE Settle(g) /\ ~inflight
  BY <1>0, <1>1, PublicationsType DEF Settle, gateState, runner
<1>2. CASE Settle(g) /\ inflight
  <2>1. /\ Backfilled(verdict[g], FALSE) \in Verdicts
        /\ Backfilled(verdict[g], verdict[g].cached) \in Verdicts
        /\ Restate(Backfill(verdict[g].versions)) \in VersionMaps(Required)
    <3>1. /\ verdict[g].cached \in BOOLEAN
          /\ verdict[g].versions \in VersionMaps(Participants \cup Required)
      BY <1>0, VerdictFields
    <3>2. Backfill(verdict[g].versions) \in VersionMaps(Participants \cup Required)
      BY <3>1, BackfillType
    <3> QED BY <1>0, <3>1, <3>2, BackfilledType, RestateType
  <2>2. Backfilled(verdict[g], verdict[g].cached) # NoVerdict
    BY <2>1, VerdictFields
  <2>3. /\ ready' = Restate(Backfill(verdict[g].versions))
        /\ inflight' = FALSE /\ gen' = gen + 1
        /\ last' = Backfilled(verdict[g], FALSE)
        /\ verdict' = [verdict EXCEPT ![g] = Backfilled(verdict[g], verdict[g].cached)]
        /\ pc' = [pc EXCEPT ![g] = "inform"]
        /\ out' = Silence
        /\ reply' = reply /\ requests' = requests /\ replies' = replies
    BY <1>2 DEF Settle, runner
  <2>4. verdict' \in [Goroutines -> Verdicts \cup {NoVerdict}]
    BY <2>1, <2>3
  <2>5. \A h \in Goroutines : Resolving(h)' => verdict'[h] # NoVerdict
    BY <2>1, <2>2, <2>3
  <2>6. /\ ready' \in VersionMaps(Required) /\ inflight' \in BOOLEAN
        /\ last' \in Verdicts \cup {NoVerdict}
    BY <2>1, <2>3, Zenon
  <2>7. gen' \in Nat
    BY <2>3
  <2>8. /\ pc' \in [Goroutines -> {"idle", "open", "reply", "settle", "inform",
                                  "block", "hook", "off", "armed"}]
        /\ out' \in Publications
    BY <2>3, PublicationsType
  <2>9. /\ reply' \in Messages
        /\ requests' \in Seq(VersionMaps(Required))
        /\ replies' \in Seq([asked : VersionMaps(Required), report : Reports])
    BY <2>3
  <2> QED BY <2>4, <2>5, <2>6, <2>7, <2>8, <2>9
<1>3. CASE Inform(g)
  BY <1>0, <1>3, PublicationsType DEF Inform, gateState, runner
<1>4. CASE Block(g)
  BY <1>0, <1>4, PublicationsType DEF Block, gateState, runner
<1>5. CASE Hook(g)
  BY <1>0, <1>5, PublicationsType DEF Hook, gateState, runner
<1> QED BY <1>1, <1>2, <1>3, <1>4, <1>5 DEF Resolve, Settle

\* onReady and open keep the types.
LEMMA ReadyType ==
    ASSUME TypeOK, NEW p \in Participants, NEW v \in Versions,
           \/ ReplayVerdict(p, v) \/ RecordReady(p, v)
           \/ RefuseReady(p) \/ IgnoreReady(p)
    PROVE  TypeOK'
<1> USE DEF TypeOK, Resolving
<1>1. CASE ReplayVerdict(p, v)
  <2> DEFINE cached == Verdict(last.passed, last.stalled, TRUE, last.versions)
  <2>1. last \in Verdicts
    BY <1>1 DEF ReplayVerdict, Remembered
  <2>2. cached \in Verdicts /\ cached # NoVerdict
    <3>1. /\ last.passed \in BOOLEAN /\ last.stalled \in BOOLEAN
          /\ last.versions \in VersionMaps(Participants \cup Required)
      BY <2>1, VerdictFields
    <3>2. cached \in Verdicts
      BY <3>1, VerdictType
    <3> HIDE DEF cached
    <3> QED BY <3>2, VerdictFields
  <2>3. verdict' = [verdict EXCEPT ![Loop] = cached]
    BY <1>1 DEF ReplayVerdict
  <2> HIDE DEF cached
  <2> QED BY <1>1, <2>2, <2>3, PublicationsType DEF ReplayVerdict, runner
<1>2. CASE RecordReady(p, v)
  <2>1. ready' \in VersionMaps(Required)
    BY <1>2, ClaimType DEF RecordReady
  <2>2. reply' \in Messages
    <3>1. Outstanding(ready') \in SUBSET Required /\ Full(ready') \in BOOLEAN
      BY DEF Outstanding, Full
    <3>2. p \in Required /\ reply' = Ack(p, Outstanding(ready'), Full(ready'))
      BY <1>2 DEF RecordReady
    <3> QED BY <3>1, <3>2 DEF Messages, Ack
  <2> QED BY <1>2, <2>1, <2>2, PublicationsType DEF RecordReady, runner
<1>3. CASE RefuseReady(p)
  <2>1. reply' \in Messages
    BY <1>3 DEF RefuseReady, Messages, Nack
  <2> QED BY <1>3, <2>1, PublicationsType DEF RefuseReady, gateState, runner
<1>4. CASE IgnoreReady(p)
  BY <1>4, PublicationsType DEF IgnoreReady, gateState, locals, runner
<1> QED BY <1>1, <1>2, <1>3, <1>4

\* The other steps of the loop, of the timers and of the runner.
LEMMA StepType ==
    ASSUME TypeOK,
           \/ Open \/ SendReply \/ OnVerdictMsg \/ RunnerReplies \/ RunnerLoses
           \/ \E t \in Timers : TimerFires(t)
    PROVE  TypeOK'
<1> USE DEF TypeOK, Resolving
<1>1. CASE Open
  <2>1. requests' \in Seq(VersionMaps(Required))
    BY <1>1 DEF Open
  <2> QED BY <1>1, <2>1, PublicationsType DEF Open
<1>2. CASE SendReply
  BY <1>2, PublicationsType DEF SendReply, gateState, runner
<1>3. CASE OnVerdictMsg
  <2> DEFINE r == Head(replies).report
             w == Verdict(r.passed, FALSE, FALSE, r.versions)
  <2>0. /\ Head(replies) \in [asked : VersionMaps(Required), report : Reports]
        /\ replies' \in Seq([asked : VersionMaps(Required), report : Reports])
    <3>1. replies # <<>> /\ replies' = Tail(replies)
      BY <1>3 DEF OnVerdictMsg
    <3> QED BY <3>1, HeadTailProperties
  <2>1. r.passed \in BOOLEAN /\ r.versions \in VersionMaps(Participants \cup Required)
    <3>1. r \in Reports
      BY <2>0
    <3> QED BY <3>1, ReportsAssumption, VersionMapsDef
  <2>2. w \in Verdicts /\ w # NoVerdict
    <3>1. w \in Verdicts
      BY <2>1, VerdictType
    <3> QED BY <3>1, VerdictFields
  <2>3. verdict' = [verdict EXCEPT ![Loop] = w]
    BY <1>3 DEF OnVerdictMsg
  <2> HIDE DEF w
  <2> QED BY <1>3, <2>0, <2>2, <2>3, PublicationsType DEF OnVerdictMsg, gateState
<1>4. CASE RunnerReplies
  <2>1. /\ requests' \in Seq(VersionMaps(Required))
        /\ replies' \in Seq([asked : VersionMaps(Required), report : Reports])
    BY <1>4 DEF RunnerReplies
  <2> QED BY <1>4, <2>1, PublicationsType DEF RunnerReplies, gateState, locals
<1>5. CASE RunnerLoses
  BY <1>5, PublicationsType DEF RunnerLoses, gateState, locals
<1>6. ASSUME NEW t \in Timers, TimerFires(t)
      PROVE  TypeOK'
  <2> DEFINE w == Verdict(FALSE, TRUE, FALSE, NoVersions)
  <2>1. w \in Verdicts /\ w # NoVerdict
    <3>1. w \in Verdicts
      BY NoVersionsType, VerdictType
    <3> QED BY <3>1, VerdictFields
  <2>2. \/ pc' = [pc EXCEPT ![t] = "off"] /\ verdict' = verdict
        \/ pc' = [pc EXCEPT ![t] = "settle"] /\ verdict' = [verdict EXCEPT ![t] = w]
    BY <1>6 DEF TimerFires
  <2> HIDE DEF w
  <2> QED BY <1>6, <2>1, <2>2, PublicationsType DEF TimerFires, gateState, runner
<1> QED BY <1>1, <1>2, <1>3, <1>4, <1>5, <1>6

\* Every step keeps the types.
LEMMA TypeNext == TypeOK /\ [Next]_vars => TypeOK'
<1> SUFFICES ASSUME TypeOK, [Next]_vars PROVE TypeOK'
  OBVIOUS
<1>1. ASSUME NEW g \in Goroutines, Resolve(g) PROVE TypeOK'
  BY <1>1, ResolveType
<1>2. CASE OnReady
  BY <1>2, ReadyType DEF OnReady
<1>3. CASE UNCHANGED vars
  BY <1>3 DEF TypeOK, Resolving, vars, gateState, locals, runner
<1> QED BY <1>1, <1>2, <1>3, StepType DEF Next, LoopStep, TimerStep, Goroutines

\* The coordinator's state, its goroutines' locals and its messages always
\* have their types; in particular no claim is ever recorded for an agent
\* that is not required, and no goroutine resolves without a verdict.
THEOREM TypeCorrect == Spec => []TypeOK
BY TypeInit, TypeNext, PTL DEF Spec

-----------------------------------------------------------------------------
(***************************************************************************)
(* The inductive invariant.                                                *)
(***************************************************************************)

\* Before the first Ready the invariant holds: no claim, no round.
LEMMA InvInit == Init => CoordinatorInv
<1> SUFFICES ASSUME Init PROVE CoordinatorInv
  OBVIOUS
<1>1. TypeOK
  BY TypeInit
<1>2. ~inflight /\ gen = 0 /\ last = NoVerdict
  BY DEF Init
<1>3. pc[Loop] = "idle" /\ \A g \in Goroutines : pc[g] \in {"idle", "off"}
  BY DEF Init, Goroutines, Loop
<1>4. ~Waiting(reply) /\ ~Waiting(out) /\ VerdictNamesEveryone
  BY DEF Init, Silence, Waiting, VerdictNamesEveryone
<1>5. QuorumIsNeverLost /\ RememberedRoundIsCurrent
  BY <1>2 DEF QuorumIsNeverLost, RememberedRoundIsCurrent
<1>6. ~(gen > 0)
  BY <1>2
<1> QED BY <1>1, <1>2, <1>3, <1>4, <1>5, <1>6 DEF CoordinatorInv

\* Settling leaves a remembered verdict that agrees with the claims.
LEMMA SettledVersions ==
    ASSUME ready \in VersionMaps(Required), DOMAIN ready = Required,
           NEW told \in VersionMaps(Participants \cup Required)
    PROVE  /\ Required \subseteq DOMAIN Backfill(told)
           /\ DOMAIN Restate(Backfill(told)) = Required
           /\ \A p \in Required : Restate(Backfill(told))[p] = Backfill(told)[p]
<1>1. Backfill(told) \in VersionMaps(Participants \cup Required)
  BY BackfillType
<1>2. DOMAIN Backfill(told) = DOMAIN told \cup Required
  BY BackfillType
<1> QED BY <1>1, <1>2, RestateType

\* resolve keeps the invariant: it is what makes claims and memory agree.
LEMMA ResolveInv ==
    ASSUME CoordinatorInv, NEW g \in Goroutines, Resolve(g)
    PROVE  CoordinatorInv'
<1> USE DEF CoordinatorInv
<1>0. TypeOK'
  BY ResolveType
<1>1. CASE Settle(g) /\ ~inflight
  <2>1. /\ pc' = [pc EXCEPT ![g] = Return(g)] /\ Return(g) \in {"idle", "off"}
        /\ verdict' = [verdict EXCEPT ![g] = NoVerdict]
        /\ ready' = ready /\ inflight' = inflight /\ gen' = gen /\ last' = last
        /\ out' = Silence /\ reply' = reply
        /\ pc[g] = "settle"
    BY <1>1 DEF Settle, gateState, Return
  <2>2. QuorumIsNeverLost' /\ RememberedRoundIsCurrent' /\ VerdictNamesEveryone'
    BY <2>1 DEF QuorumIsNeverLost, RememberedRoundIsCurrent, VerdictNamesEveryone, Silence
  <2>3. /\ \A h \in Goroutines : pc'[h] \in {"inform", "block", "hook"} =>
               Required \subseteq DOMAIN verdict'[h].versions
        /\ pc'[Loop] = "open" => pc[Loop] = "open"
        /\ pc[Loop] = "open" => pc'[Loop] = "open"
    BY <2>1 DEF TypeOK
  <2>4. ~Waiting(out)' /\ (Waiting(reply)' => Waiting(reply))
    BY <2>1 DEF Waiting, Silence
  <2> QED BY <1>0, <2>1, <2>2, <2>3, <2>4
<1>2. CASE Settle(g) /\ inflight
  <2> DEFINE told == verdict[g].versions
  <2>1. /\ DOMAIN ready = Required /\ gen \in Nat /\ pc[Loop] # "open"
        /\ ~Waiting(reply)
    BY <1>2 DEF TypeOK, QuorumIsNeverLost
  <2>2. verdict[g] \in Verdicts /\ told \in VersionMaps(Participants \cup Required)
    <3>1. verdict[g] \in Verdicts
      BY <1>2 DEF TypeOK, Resolving, Settle
    <3> QED BY <3>1, VerdictFields
  <2>3. /\ Required \subseteq DOMAIN Backfill(told)
        /\ DOMAIN Restate(Backfill(told)) = Required
        /\ \A p \in Required : Restate(Backfill(told))[p] = Backfill(told)[p]
    BY <2>1, <2>2, SettledVersions DEF TypeOK
  <2>4. /\ ready' = Restate(Backfill(told))
        /\ inflight' = FALSE /\ gen' = gen + 1
        /\ last' = Backfilled(verdict[g], FALSE)
        /\ verdict' = [verdict EXCEPT ![g] = Backfilled(verdict[g], verdict[g].cached)]
        /\ pc' = [pc EXCEPT ![g] = "inform"]
        /\ out' = Silence /\ reply' = reply
    BY <1>2 DEF Settle
  <2>5. /\ Backfilled(verdict[g], FALSE).versions = Backfill(told)
        /\ Backfilled(verdict[g], verdict[g].cached).versions = Backfill(told)
        /\ Backfilled(verdict[g], FALSE) # NoVerdict
    <3>1. verdict[g].cached \in BOOLEAN
      BY <2>2, VerdictFields
    <3> QED BY <2>2, <3>1, BackfilledType, VerdictFields DEF TypeOK
  <2>6. gen' > 0
    BY <2>1, <2>4
  <2>7. QuorumIsNeverLost' /\ RememberedRoundIsCurrent' /\ last' # NoVerdict
    BY <2>3, <2>4, <2>5 DEF QuorumIsNeverLost, RememberedRoundIsCurrent
  <2>8. pc'[Loop] # "open"
    BY <2>1, <2>4 DEF TypeOK
  <2>9. \A h \in Goroutines : pc'[h] \in {"inform", "block", "hook"} =>
           Required \subseteq DOMAIN verdict'[h].versions
    BY <2>3, <2>4, <2>5 DEF TypeOK
  <2>10. VerdictNamesEveryone' /\ ~Waiting(reply)' /\ ~Waiting(out)'
    BY <2>1, <2>4 DEF VerdictNamesEveryone, Waiting, Silence
  <2> QED BY <1>0, <2>6, <2>7, <2>8, <2>9, <2>10
<1>3. CASE Inform(g)
  BY <1>0, <1>3 DEF Inform, gateState, TypeOK, QuorumIsNeverLost,
     RememberedRoundIsCurrent, VerdictNamesEveryone, Waiting
<1>4. CASE Block(g)
  BY <1>0, <1>4 DEF Block, gateState, TypeOK, QuorumIsNeverLost,
     RememberedRoundIsCurrent, VerdictNamesEveryone, Waiting
<1>5. CASE Hook(g)
  BY <1>0, <1>5 DEF Hook, gateState, Return, TypeOK, QuorumIsNeverLost,
     RememberedRoundIsCurrent, VerdictNamesEveryone, Waiting, Loop
<1> QED BY <1>1, <1>2, <1>3, <1>4, <1>5 DEF Resolve, Settle

\* onReady and open keep the invariant: a divergent Ready discards the
\* memory and, with the quorum standing, goes on to open a round.
LEMMA ReadyInv ==
    ASSUME CoordinatorInv, NEW p \in Participants, NEW v \in Versions,
           \/ ReplayVerdict(p, v) \/ RecordReady(p, v)
           \/ RefuseReady(p) \/ IgnoreReady(p)
    PROVE  CoordinatorInv'
<1> USE DEF CoordinatorInv
<1>0. TypeOK'
  BY ReadyType
<1>1. CASE ReplayVerdict(p, v)
  <2>1. /\ last # NoVerdict /\ ~inflight /\ inflight' = TRUE
        /\ ready' = ready /\ gen' = gen /\ last' = last /\ reply' = reply
        /\ out' = Silence
        /\ pc' = [pc EXCEPT ![Loop] = "settle"]
        /\ \A g \in Goroutines \ {Loop} : verdict'[g] = verdict[g]
    BY <1>1 DEF ReplayVerdict, Remembered, TypeOK
  <2>2. gen > 0
    BY <2>1
  <2>3. QuorumIsNeverLost' /\ RememberedRoundIsCurrent' /\ VerdictNamesEveryone'
    BY <2>1, <2>2 DEF QuorumIsNeverLost, RememberedRoundIsCurrent,
       VerdictNamesEveryone, Silence
  <2>4. /\ pc'[Loop] # "open"
        /\ \A g \in Goroutines : pc'[g] \in {"inform", "block", "hook"} =>
               Required \subseteq DOMAIN verdict'[g].versions
    BY <2>1 DEF TypeOK, Goroutines
  <2>5. ~Waiting(reply)' /\ ~Waiting(out)'
    <3>1. gen # 0
      BY <2>2 DEF TypeOK
    <3> QED BY <2>1, <3>1 DEF Waiting, Silence
  <2> QED BY <1>0, <2>1, <2>2, <2>3, <2>4, <2>5
<1>2. CASE RecordReady(p, v)
  <2>1. /\ p \in Required /\ ~inflight /\ inflight' = inflight /\ gen' = gen
        /\ last' = NoVerdict /\ verdict' = verdict /\ out' = Silence
        /\ ready' = Claim(p, v)
        /\ reply' = Ack(p, Outstanding(ready'), Full(ready'))
        /\ pc' = [pc EXCEPT ![Loop] = IF Full(ready') THEN "open" ELSE "reply"]
    BY <1>2 DEF RecordReady
  <2>2. ready' \in VersionMaps(Required) /\ DOMAIN ready' = DOMAIN ready \cup {p}
    BY <2>1, ClaimType DEF TypeOK
  <2>3. Full(ready') <=> DOMAIN ready' = Required
    BY <2>2, FullMeansEverybody
  <2>4. gen > 0 => DOMAIN ready' = Required
    BY <2>1, <2>2 DEF QuorumIsNeverLost
  <2>5. QuorumIsNeverLost' /\ RememberedRoundIsCurrent' /\ VerdictNamesEveryone'
    BY <2>1, <2>4 DEF QuorumIsNeverLost, RememberedRoundIsCurrent,
       VerdictNamesEveryone, Silence
  <2>6. /\ pc'[Loop] = IF Full(ready') THEN "open" ELSE "reply"
        /\ \A g \in Goroutines : pc'[g] \in {"inform", "block", "hook"} =>
               Required \subseteq DOMAIN verdict'[g].versions
    BY <2>1 DEF TypeOK, Goroutines
  <2>7. Waiting(reply)' => DOMAIN ready' # Required
    <3>1. DOMAIN ready' = Required => Outstanding(ready') = {} /\ Full(ready')
      BY <2>3 DEF Outstanding
    <3> QED BY <2>1, <3>1 DEF Waiting, Ack
  <2>8. ~Waiting(out)'
    BY <2>1 DEF Waiting, Silence
  <2>9. gen = 0 \/ gen > 0
    BY DEF TypeOK
  <2> QED BY <1>0, <2>1, <2>3, <2>4, <2>5, <2>6, <2>7, <2>8, <2>9
<1>3. CASE RefuseReady(p)
  <2>1. /\ UNCHANGED gateState /\ inflight /\ out' = Silence /\ verdict' = verdict
        /\ reply' = Nack(p, ready) /\ pc' = [pc EXCEPT ![Loop] = "reply"]
    BY <1>3 DEF RefuseReady
  <2>2. ~Waiting(reply)' /\ ~Waiting(out)'
    BY <2>1 DEF Waiting, Nack, Silence
  <2> QED BY <1>0, <2>1, <2>2 DEF gateState, TypeOK, Goroutines, QuorumIsNeverLost,
          RememberedRoundIsCurrent, VerdictNamesEveryone, Silence
<1>4. CASE IgnoreReady(p)
  BY <1>0, <1>4 DEF IgnoreReady, gateState, locals, QuorumIsNeverLost,
     RememberedRoundIsCurrent, VerdictNamesEveryone, Waiting, Silence
<1> QED BY <1>1, <1>2, <1>3, <1>4

\* The remaining steps of the loop, the timers and the runner keep it.
LEMMA StepInv ==
    ASSUME CoordinatorInv,
           \/ Open \/ SendReply \/ OnVerdictMsg \/ RunnerReplies \/ RunnerLoses
           \/ \E t \in Timers : TimerFires(t)
    PROVE  CoordinatorInv'
<1> USE DEF CoordinatorInv
<1>0. TypeOK'
  BY StepType
<1>1. CASE Open
  <2>1. /\ inflight' = TRUE /\ ready' = ready /\ gen' = gen /\ last' = last
        /\ verdict' = verdict /\ reply' = reply /\ out' = Silence
        /\ pc[Loop] = "open"
        /\ pc' = [pc EXCEPT ![Loop] = "reply", ![gen + 1] = "armed"]
    BY <1>1 DEF Open
  <2>2. \A g \in Goroutines : pc'[g] \in {pc[g], "reply", "armed"}
    BY <2>1 DEF TypeOK
  <2>3. Loop \in Goroutines /\ gen + 1 # Loop /\ pc'[Loop] # "open"
    BY <2>1 DEF TypeOK, Loop, Goroutines
  <2>4. ~Waiting(reply)' /\ ~Waiting(out)'
    BY <2>1 DEF Waiting, Silence
  <2> QED BY <1>0, <2>1, <2>2, <2>3, <2>4 DEF QuorumIsNeverLost,
          RememberedRoundIsCurrent, VerdictNamesEveryone, Silence
<1>2. CASE SendReply
  <2>1. /\ UNCHANGED gateState /\ verdict' = verdict /\ reply' = Silence
        /\ out' = reply /\ reply \in Messages
        /\ pc[Loop] = "reply" /\ pc' = [pc EXCEPT ![Loop] = "idle"]
    BY <1>2 DEF SendReply, TypeOK
  <2>2. VerdictNamesEveryone'
    BY <2>1 DEF VerdictNamesEveryone, Messages, Silence
  <2>3. ~Waiting(reply)' /\ (Waiting(out)' <=> Waiting(reply))
    BY <2>1 DEF Waiting, Silence
  <2> QED BY <1>0, <2>1, <2>2, <2>3 DEF gateState, TypeOK, Goroutines,
          QuorumIsNeverLost, RememberedRoundIsCurrent
<1>3. CASE OnVerdictMsg
  <2>1. /\ UNCHANGED gateState /\ reply' = reply /\ out' = Silence
        /\ pc[Loop] = "idle" /\ pc' = [pc EXCEPT ![Loop] = "settle"]
        /\ \A g \in Goroutines \ {Loop} : verdict'[g] = verdict[g]
    BY <1>3 DEF OnVerdictMsg, TypeOK
  <2>2. ~Waiting(out)' /\ (Waiting(reply)' <=> Waiting(reply))
    BY <2>1 DEF Waiting, Silence
  <2> QED BY <1>0, <2>1, <2>2 DEF gateState, TypeOK, Goroutines, Silence,
          QuorumIsNeverLost, RememberedRoundIsCurrent, VerdictNamesEveryone
<1>4. CASE RunnerReplies
  BY <1>0, <1>4 DEF RunnerReplies, gateState, locals, QuorumIsNeverLost,
     RememberedRoundIsCurrent, VerdictNamesEveryone, Waiting, Silence
<1>5. CASE RunnerLoses
  BY <1>0, <1>5 DEF RunnerLoses, gateState, locals, QuorumIsNeverLost,
     RememberedRoundIsCurrent, VerdictNamesEveryone, Waiting, Silence
<1>6. ASSUME NEW t \in Timers, TimerFires(t)
      PROVE  CoordinatorInv'
  <2>1. /\ UNCHANGED gateState /\ reply' = reply /\ out' = Silence
        /\ pc[t] = "armed" /\ t # Loop
        /\ \/ pc' = [pc EXCEPT ![t] = "off"]
           \/ pc' = [pc EXCEPT ![t] = "settle"]
        /\ \A g \in Goroutines \ {t} : verdict'[g] = verdict[g]
    <3>1. \/ pc' = [pc EXCEPT ![t] = "off"] /\ verdict' = verdict
          \/ /\ pc' = [pc EXCEPT ![t] = "settle"]
             /\ verdict' = [verdict EXCEPT ![t] = Verdict(FALSE, TRUE, FALSE, NoVersions)]
      BY <1>6 DEF TimerFires
    <3>2. \A g \in Goroutines \ {t} : verdict'[g] = verdict[g]
      BY <3>1 DEF TypeOK
    <3>3. /\ UNCHANGED gateState /\ reply' = reply /\ out' = Silence
          /\ pc[t] = "armed" /\ t # Loop
      BY <1>6 DEF TimerFires, Timers, Loop
    <3> QED BY <3>1, <3>2, <3>3
  <2>2. ~Waiting(out)' /\ (Waiting(reply)' <=> Waiting(reply))
    BY <2>1 DEF Waiting, Silence
  <2> QED BY <1>0, <2>1, <2>2 DEF gateState, TypeOK, Goroutines, Silence,
          QuorumIsNeverLost, RememberedRoundIsCurrent, VerdictNamesEveryone
<1> QED BY <1>1, <1>2, <1>3, <1>4, <1>5, <1>6

\* Every step keeps the invariant.
LEMMA InvNext == CoordinatorInv /\ [Next]_vars => CoordinatorInv'
<1> SUFFICES ASSUME CoordinatorInv, [Next]_vars PROVE CoordinatorInv'
  OBVIOUS
<1>1. ASSUME NEW g \in Goroutines, Resolve(g) PROVE CoordinatorInv'
  BY <1>1, ResolveInv
<1>2. CASE OnReady
  BY <1>2, ReadyInv DEF OnReady
<1>3. CASE UNCHANGED vars
  <2>1. TypeOK'
    BY <1>3, TypeNext DEF CoordinatorInv
  <2> QED BY <1>3, <2>1 DEF CoordinatorInv, QuorumIsNeverLost, vars, gateState,
          locals, runner, RememberedRoundIsCurrent, VerdictNamesEveryone, Waiting
<1> QED BY <1>1, <1>2, <1>3, StepInv DEF Next, LoopStep, TimerStep, Goroutines

\* The strengthened invariant of the coordinator holds in every reachable
\* state; the theorems below are its consequences.
THEOREM InvCorrect == Spec => []CoordinatorInv
BY InvInit, InvNext, PTL DEF Spec

-----------------------------------------------------------------------------
(***************************************************************************)
(* What follows.                                                           *)
(***************************************************************************)

\* Once a round has been opened every required participant has a standing
\* claim, and nobody else has: resolve never loses the quorum.
THEOREM QuorumStands == Spec => []QuorumIsNeverLost
BY InvCorrect, PTL DEF CoordinatorInv

\* Whenever onReady may answer from the remembered verdict, that verdict
\* covers the versions everybody claims: no cached answer is stale.
THEOREM CacheIsCurrent == Spec => []RememberedRoundIsCurrent
BY InvCorrect, PTL DEF CoordinatorInv

\* The nil that sticky invalidation writes is never read by a later Ready.
THEOREM DiscardIsUnread == Spec => []DiscardIsNeverRead
<1>1. CoordinatorInv => DiscardIsNeverRead
  BY DEF CoordinatorInv, DiscardIsNeverRead
<1> QED BY <1>1, InvCorrect, PTL

\* Every broadcast verdict says of every required participant at which
\* version it was tested, whatever the runner reported.
THEOREM EverybodyIsNamed == Spec => []VerdictNamesEveryone
BY InvCorrect, PTL DEF CoordinatorInv

\* After the first round no submitter is told to wait for a peer.
THEOREM ReadinessStands == Spec => []NobodyWaitsForAPeer
<1>1. CoordinatorInv => NobodyWaitsForAPeer
  BY DEF CoordinatorInv, TypeOK, NobodyWaitsForAPeer, Waiting
<1> QED BY <1>1, InvCorrect, PTL

\* A remembered verdict is discarded only by a combination of claims that
\* differs from the one it covered.
THEOREM NewCombination == Spec => DiscardMeansANewCombination
<1>1. ASSUME CoordinatorInv, CoordinatorInv', [Next]_vars,
             last # NoVerdict, last' = NoVerdict
      PROVE  \E p \in Required : ready'[p] # last.versions[p]
  <2>1. \A g \in Goroutines : ~Resolve(g)
    <3>1. SUFFICES ASSUME NEW g \in Goroutines, Resolve(g) PROVE FALSE
      OBVIOUS
    <3>2. Settle(g) /\ inflight
      BY <1>1, <3>1 DEF Resolve, Settle, Inform, Block, Hook, gateState
    <3>3. /\ verdict[g] \in Verdicts /\ ready \in VersionMaps(Required)
      BY <1>1, <3>2 DEF CoordinatorInv, TypeOK, Resolving, Settle
    <3>4. last' = Backfilled(verdict[g], FALSE)
      BY <3>2 DEF Settle
    <3> QED BY <1>1, <3>3, <3>4, BackfilledType, VerdictFields
  <2>2. PICK p \in Participants, v \in Versions : RecordReady(p, v)
    BY <1>1, <2>1 DEF Next, LoopStep, TimerStep, Goroutines, OnReady, ReplayVerdict,
       RefuseReady, IgnoreReady, Open, SendReply, OnVerdictMsg, RunnerReplies,
       RunnerLoses, TimerFires, gateState, locals, vars
  <2>3. p \in Required /\ ~Remembered(p, v) /\ ~inflight /\ ready' = Claim(p, v)
    BY <2>2 DEF RecordReady
  <2>4. ready'[p] = v
    BY <2>3 DEF Claim
  <2>5. p \in DOMAIN last.versions
    BY <1>1, <2>3 DEF CoordinatorInv, RememberedRoundIsCurrent
  <2> QED BY <1>1, <2>3, <2>4, <2>5 DEF Remembered
<1>2. CoordinatorInv /\ CoordinatorInv' /\ [Next]_vars =>
          [last # NoVerdict /\ last' = NoVerdict =>
               \E p \in Required : ready'[p] # last.versions[p]]_vars
  BY <1>1
<1> QED BY <1>2, InvCorrect, PTL DEF Spec, DiscardMeansANewCombination

-----------------------------------------------------------------------------
(***************************************************************************)
(* Every round has something that ends it.                                 *)
(***************************************************************************)

\* Timers are goroutines other than the loop.
LEMMA TimersFacts ==
    /\ Loop \in Goroutines /\ Loop \notin Timers
    /\ \A t \in Timers : t \in Goroutines /\ t \in Nat
    /\ \A n \in Nat : n < MaxGen => n + 1 \in Timers
BY BoundsAssumption DEF Loop, Timers, Goroutines

\* resolve keeps the rounds timed: it ends the one in flight.
LEMMA ResolveTimed ==
    ASSUME CoordinatorInv, TimedInv, NEW g \in Goroutines, Resolve(g)
    PROVE  TimedInv'
<1>0. /\ gen \in Nat /\ DOMAIN pc = Goroutines /\ inflight \in BOOLEAN
      /\ pc[Loop] = "open" => ~inflight
      /\ Loop \in Goroutines /\ \A t \in Timers : t \in Goroutines /\ t \in Nat
  BY TimersFacts DEF CoordinatorInv, TypeOK
<1>1. CASE Settle(g) /\ ~inflight
  <2>1. /\ UNCHANGED <<inflight, gen>> /\ pc' = [pc EXCEPT ![g] = Return(g)]
        /\ Return(g) \in {"idle", "off"}
        /\ g # Loop => Return(g) = "off"
    BY <1>1 DEF Settle, gateState, Return
  <2>2. \A h \in Goroutines : pc'[h] = pc[h] \/ (h = g /\ pc'[h] \in {"idle", "off"})
    BY <1>0, <2>1
  <2>3. \A t \in Timers : pc'[t] # "off" => pc[t] # "off"
    BY <1>0, <2>1, TimersFacts
  <2> QED BY <1>0, <1>1, <2>1, <2>2, <2>3 DEF TimedInv, RoundIsTimed
<1>2. CASE Settle(g) /\ inflight
  <2>1. /\ inflight' = FALSE /\ gen' = gen + 1 /\ pc[g] = "settle"
        /\ pc' = [pc EXCEPT ![g] = "inform"]
    BY <1>2 DEF Settle
  <2>2. pc'[Loop] # "open"
    BY <1>0, <1>2, <2>1
  <2>3. \A t \in Timers : pc'[t] # "off" => t <= gen + 1
    BY <1>0, <1>2, <2>1 DEF TimedInv
  <2> QED BY <1>0, <2>1, <2>2, <2>3 DEF TimedInv, RoundIsTimed
<1>3. CASE Inform(g) \/ Block(g) \/ Hook(g)
  <2>1. /\ UNCHANGED <<inflight, gen>> /\ pc[g] \in {"inform", "block", "hook"}
        /\ \E l \in {"block", "hook", "idle", "off"} : pc' = [pc EXCEPT ![g] = l]
    BY <1>3 DEF Inform, Block, Hook, gateState, Return
  <2>2. \A h \in Goroutines : pc'[h] = pc[h] \/ (h = g /\ pc'[h] # "open")
    BY <1>0, <2>1
  <2>3. \A t \in Timers : pc'[t] # "off" => pc[t] # "off"
    BY <1>0, <2>1
  <2> QED BY <1>0, <2>1, <2>2, <2>3 DEF TimedInv, RoundIsTimed
<1> QED BY <1>1, <1>2, <1>3 DEF Resolve

\* The steps of the loop and of the runner keep the rounds timed.
LEMMA LoopTimed ==
    ASSUME CoordinatorInv, TimedInv,
           \/ OnReady \/ OnVerdictMsg \/ Open \/ SendReply
           \/ RunnerReplies \/ RunnerLoses
    PROVE  TimedInv'
<1>0. /\ gen \in Nat /\ DOMAIN pc = Goroutines /\ inflight \in BOOLEAN
      /\ pc[Loop] = "open" => ~inflight
      /\ Loop \in Goroutines /\ Loop \notin Timers
      /\ \A t \in Timers : t \in Goroutines /\ t \in Nat
  BY TimersFacts DEF CoordinatorInv, TypeOK
<1>1. CASE OnReady
  <2>1. PICK p \in Participants, v \in Versions :
            ReplayVerdict(p, v) \/ RecordReady(p, v) \/ RefuseReady(p) \/ IgnoreReady(p)
    BY <1>1 DEF OnReady
  <2>2. CASE ReplayVerdict(p, v)
    <3>1. /\ ~inflight /\ gen < MaxGen /\ inflight' = TRUE /\ gen' = gen
          /\ pc' = [pc EXCEPT ![Loop] = "settle"]
      BY <2>2 DEF ReplayVerdict
    <3>2. gen + 1 \in Timers /\ pc'[Loop] = "settle" /\ \A t \in Timers : pc'[t] = pc[t]
      BY <1>0, <3>1, TimersFacts
    <3> QED BY <3>1, <3>2 DEF TimedInv, RoundIsTimed
  <2>3. CASE RecordReady(p, v)
    <3>1. /\ ~inflight /\ gen < MaxGen /\ UNCHANGED <<inflight, gen>>
          /\ \E l : pc' = [pc EXCEPT ![Loop] = l]
      BY <2>3 DEF RecordReady
    <3>2. \A t \in Timers : pc'[t] = pc[t]
      BY <1>0, <3>1
    <3> QED BY <3>1, <3>2 DEF TimedInv, RoundIsTimed
  <2>4. CASE RefuseReady(p)
    <3>1. /\ UNCHANGED <<inflight, gen>> /\ pc[Loop] = "idle"
          /\ pc' = [pc EXCEPT ![Loop] = "reply"]
      BY <2>4 DEF RefuseReady, gateState
    <3>2. pc'[Loop] = "reply" /\ \A t \in Timers : pc'[t] = pc[t]
      BY <1>0, <3>1
    <3> QED BY <3>1, <3>2 DEF TimedInv, RoundIsTimed
  <2>5. CASE IgnoreReady(p)
    BY <2>5 DEF IgnoreReady, gateState, locals, TimedInv, RoundIsTimed
  <2> QED BY <2>1, <2>2, <2>3, <2>4, <2>5
<1>2. CASE OnVerdictMsg
  <2>1. /\ UNCHANGED <<inflight, gen>>
        /\ pc' = [pc EXCEPT ![Loop] = "settle"]
    BY <1>2 DEF OnVerdictMsg, gateState
  <2>2. pc'[Loop] = "settle" /\ \A t \in Timers : pc'[t] = pc[t]
    BY <1>0, <2>1
  <2> QED BY <2>1, <2>2 DEF TimedInv, RoundIsTimed
<1>3. CASE Open
  <2>1. /\ pc[Loop] = "open" /\ inflight' = TRUE /\ gen' = gen
        /\ pc' = [pc EXCEPT ![Loop] = "reply", ![gen + 1] = "armed"]
    BY <1>3 DEF Open
  <2>2. gen < MaxGen /\ gen + 1 \in Timers
    BY <1>0, <2>1, TimersFacts DEF TimedInv
  <2>3. /\ pc'[gen + 1] = "armed" /\ pc'[Loop] = "reply"
        /\ \A t \in Timers : t # gen + 1 => pc'[t] = pc[t]
    BY <1>0, <2>1, <2>2
  <2> QED BY <1>0, <2>1, <2>2, <2>3 DEF TimedInv, RoundIsTimed
<1>4. CASE SendReply
  <2>1. /\ UNCHANGED <<inflight, gen>> /\ pc[Loop] = "reply"
        /\ pc' = [pc EXCEPT ![Loop] = "idle"]
    BY <1>4 DEF SendReply, gateState
  <2>2. pc'[Loop] = "idle" /\ \A t \in Timers : pc'[t] = pc[t]
    BY <1>0, <2>1
  <2> QED BY <2>1, <2>2 DEF TimedInv, RoundIsTimed
<1>5. CASE RunnerReplies \/ RunnerLoses
  BY <1>5 DEF RunnerReplies, RunnerLoses, gateState, locals, TimedInv, RoundIsTimed
<1> QED BY <1>1, <1>2, <1>3, <1>4, <1>5

\* A timer that fires settles its own round if that is still in flight.
LEMMA FireTimed ==
    ASSUME CoordinatorInv, TimedInv, NEW t \in Timers, TimerFires(t)
    PROVE  TimedInv'
<1>0. /\ gen \in Nat /\ DOMAIN pc = Goroutines /\ Loop # t
      /\ Loop \in Goroutines /\ \A u \in Timers : u \in Goroutines /\ u \in Nat
  BY TimersFacts DEF CoordinatorInv, TypeOK
<1>1. CASE Stale(t)
  <2>1. /\ UNCHANGED <<inflight, gen>> /\ pc' = [pc EXCEPT ![t] = "off"]
    BY <1>1 DEF TimerFires, gateState
  <2>2. inflight => t # gen + 1
    BY <1>0, <1>1 DEF Stale
  <2> QED BY <1>0, <2>1, <2>2 DEF TimedInv, RoundIsTimed
<1>2. CASE ~Stale(t)
  <2>1. /\ UNCHANGED <<inflight, gen>> /\ pc[t] = "armed"
        /\ pc' = [pc EXCEPT ![t] = "settle"]
    BY <1>2 DEF TimerFires, gateState
  <2> QED BY <1>0, <2>1 DEF TimedInv, RoundIsTimed
<1> QED BY <1>1, <1>2

LEMMA TimedInit == Init => TimedInv
BY TimersFacts DEF Init, TimedInv, RoundIsTimed

LEMMA TimedNext == CoordinatorInv /\ TimedInv /\ [Next]_vars => TimedInv'
<1> SUFFICES ASSUME CoordinatorInv, TimedInv, [Next]_vars PROVE TimedInv'
  OBVIOUS
<1>1. ASSUME NEW g \in Goroutines, Resolve(g) PROVE TimedInv'
  BY <1>1, ResolveTimed
<1>2. CASE UNCHANGED vars
  BY <1>2 DEF TimedInv, RoundIsTimed, vars, gateState, locals
<1> QED BY <1>1, <1>2, LoopTimed, FireTimed, TimersFacts DEF Next, LoopStep, TimerStep

\* A round in flight has its own timer running or is being settled, for any
\* number of rounds and whatever the runner does (gate.go:416): the
\* safety behind QuorumIsAnswered.
THEOREM RoundsAreTimed == Spec => []RoundIsTimed
<1>1. TimedInv => RoundIsTimed
  BY DEF TimedInv
<1> QED BY <1>1, InvCorrect, TimedInit, TimedNext, PTL DEF Spec

\* A goroutine gets to inform only by settling, and settling takes the round in
\* flight.
LEMMA SettleEndsRound ==
    ASSUME CoordinatorInv, Next, NEW g \in Goroutines, pc[g] = "settle",
           pc'[g] = "inform"
    PROVE  inflight /\ ~inflight' /\ gen' = gen + 1
<1>0. DOMAIN pc = Goroutines /\ Loop \in Goroutines /\ \A t \in Timers : t \in Goroutines
  BY TimersFacts DEF CoordinatorInv, TypeOK
<1>1. \E h \in Goroutines : Settle(h) /\ inflight /\ pc'[h] = "inform" /\ h = g
  <2>1. CASE OnReady
    <3>1. PICK p \in Participants, v \in Versions :
              ReplayVerdict(p, v) \/ RecordReady(p, v) \/ RefuseReady(p) \/ IgnoreReady(p)
      BY <2>1 DEF OnReady
    <3>2. pc' = pc \/ \E l \in {"settle", "open", "reply"} : pc' = [pc EXCEPT ![Loop] = l]
      BY <3>1 DEF ReplayVerdict, RecordReady, RefuseReady, IgnoreReady, locals
    <3> QED BY <1>0, <3>2
  <2>2. CASE OnVerdictMsg \/ SendReply \/ RunnerReplies \/ RunnerLoses
    <3>1. pc' = pc \/ \E l \in {"settle", "idle"} : pc' = [pc EXCEPT ![Loop] = l]
      BY <2>2 DEF OnVerdictMsg, SendReply, RunnerReplies, RunnerLoses, locals
    <3> QED BY <1>0, <3>1
  <2>3. CASE Open
    <3>1. pc' = [pc EXCEPT ![Loop] = "reply", ![gen + 1] = "armed"]
      BY <2>3 DEF Open
    <3> QED BY <1>0, <3>1
  <2>4. ASSUME NEW t \in Timers, TimerFires(t) PROVE FALSE
    <3>1. \E l \in {"off", "settle"} : pc' = [pc EXCEPT ![t] = l]
      BY <2>4 DEF TimerFires
    <3> QED BY <1>0, <3>1
  <2>5. ASSUME NEW h \in Goroutines, Inform(h) \/ Block(h) \/ Hook(h) PROVE FALSE
    <3>1. \E l \in {"block", "hook", "idle", "off"} : pc' = [pc EXCEPT ![h] = l]
      BY <2>5 DEF Inform, Block, Hook, Return
    <3> QED BY <1>0, <3>1
  <2>6. ASSUME NEW h \in Goroutines, Settle(h)
        PROVE  Settle(h) /\ inflight /\ pc'[h] = "inform" /\ h = g
    <3>1. \/ ~inflight /\ pc' = [pc EXCEPT ![h] = Return(h)] /\ Return(h) \in {"idle", "off"}
          \/ inflight /\ pc' = [pc EXCEPT ![h] = "inform"]
      BY <2>6 DEF Settle, Return
    <3> QED BY <1>0, <2>6, <3>1
  <2> QED BY <1>0, <2>1, <2>2, <2>3, <2>4, <2>5, <2>6
          DEF Next, LoopStep, TimerStep, Resolve
<1> QED BY <1>1 DEF Settle

\* Each settlement ends one round and starts the next generation, and a timer
\* that outlived its round never settles an earlier one (gate.go:102).
THEOREM SettleInTurn == Spec => RoundsSettleInTurn
<1> DEFINE InTurn ==
       \A g \in Goroutines : pc[g] = "settle" /\ pc'[g] = "inform" =>
           /\ inflight /\ ~inflight' /\ gen' = gen + 1
           /\ g \in Timers => g <= gen + 1
<1>1. CoordinatorInv /\ TimedInv /\ [Next]_vars => [InTurn]_vars
  <2> SUFFICES ASSUME CoordinatorInv, TimedInv, Next, NEW g \in Goroutines,
                      pc[g] = "settle", pc'[g] = "inform"
               PROVE  /\ inflight /\ ~inflight' /\ gen' = gen + 1
                      /\ g \in Timers => g <= gen + 1
    OBVIOUS
  <2>1. inflight /\ ~inflight' /\ gen' = gen + 1
    BY SettleEndsRound
  <2>2. gen \in Nat /\ \A t \in Timers : t \in Nat
    BY TimersFacts DEF CoordinatorInv, TypeOK
  <2>3. g \in Timers => g <= gen + 1
    BY <2>2 DEF TimedInv
  <2> QED BY <2>1, <2>3
<1> QED BY <1>1, InvCorrect, TimedInit, TimedNext, PTL DEF Spec, RoundsSettleInTurn

-----------------------------------------------------------------------------
(***************************************************************************)
(* A runner that is never too late.                                        *)
(***************************************************************************)

\* If two sequences hold one element at most, and one holds it, that is all.
LEMMA OnlyOne ==
    ASSUME NEW S, NEW s \in Seq(S), NEW T, NEW r \in Seq(T),
           Len(s) + Len(r) <= 1, s # <<>>
    PROVE  /\ 1 \in DOMAIN s /\ Head(s) = s[1]
           /\ Len(Tail(s)) = 0 /\ Tail(s) \in Seq(S) /\ DOMAIN Tail(s) = {}
           /\ Len(r) = 0 /\ DOMAIN r = {} /\ r = <<>>
<1>1. Len(s) \in Nat /\ Len(s) # 0 /\ Len(r) \in Nat
  BY EmptySeq
<1>2. Len(s) = 1 /\ Len(r) = 0
  <2>1. \A m, n \in Nat : m # 0 /\ m + n <= 1 => m = 1 /\ n = 0
    OBVIOUS
  <2> QED BY <1>1, <2>1, Zenon
<1>3. Len(Tail(s)) = 0 /\ Tail(s) \in Seq(S)
  BY <1>2, HeadTailProperties
<1>4. DOMAIN Tail(s) = {} /\ DOMAIN r = {} /\ 1 \in DOMAIN s
  <2>1. /\ DOMAIN Tail(s) = 1 .. Len(Tail(s)) /\ DOMAIN r = 1 .. Len(r)
        /\ DOMAIN s = 1 .. Len(s)
    BY <1>3, LenProperties
  <2>2. 1 .. 0 = {} /\ 1 \in 1 .. 1
    OBVIOUS
  <2> QED BY <1>2, <1>3, <2>1, <2>2, Zenon
<1> QED BY <1>2, <1>3, <1>4, EmptySeq

\* Nothing is under way once the loop takes a reply or a round is over.
LEMMA NothingUnderWay ==
    ASSUME TypeOK, PromptInv, ~(inflight /\ pc[Loop] \in {"idle", "reply"})
    PROVE  requests = <<>> /\ replies = <<>>
BY DEF PromptInv

LEMMA PromptInit == Init => PromptInv
<1> SUFFICES ASSUME Init PROVE PromptInv
  OBVIOUS
<1>1. \A t \in Timers : pc[t] \in {"off", "armed"}
  BY TimersFacts DEF Init
<1>2. Len(requests) = 0 /\ Len(replies) = 0 /\ requests = <<>> /\ replies = <<>>
  BY DEF Init
<1>3. DOMAIN requests = {} /\ DOMAIN replies = {}
  BY <1>2
<1> QED BY <1>1, <1>2, <1>3 DEF PromptInv

\* While no round is declared stalled, there is one question and one answer.
LEMMA PromptStep ==
    ASSUME CoordinatorInv, PromptInv, Next, \A t \in Timers : pc'[t] # "settle"
    PROVE  PromptInv' /\ (OnVerdictMsg => inflight /\ Head(replies).asked = ready)
<1> DEFINE R == [asked : VersionMaps(Required), report : Reports]
<1>0. /\ requests \in Seq(VersionMaps(Required)) /\ replies \in Seq(R)
      /\ gen \in Nat /\ DOMAIN pc = Goroutines
      /\ pc[Loop] = "open" => ~inflight
      /\ Loop \in Goroutines /\ Loop \notin Timers /\ \A t \in Timers : t \in Goroutines
      /\ Len(requests) \in Nat /\ Len(replies) \in Nat
  BY TimersFacts DEF CoordinatorInv, TypeOK
<1>1. CASE OnReady
  <2>1. PICK p \in Participants, v \in Versions :
            ReplayVerdict(p, v) \/ RecordReady(p, v) \/ RefuseReady(p) \/ IgnoreReady(p)
    BY <1>1 DEF OnReady
  <2>2. CASE ReplayVerdict(p, v) \/ RecordReady(p, v)
    <3>1. /\ ~inflight /\ UNCHANGED <<requests, replies>> /\ ~OnVerdictMsg
          /\ \E l : pc' = [pc EXCEPT ![Loop] = l]
      <4>1. /\ ~inflight /\ UNCHANGED <<requests, replies>>
            /\ \E l \in {"settle", "open", "reply"} : pc' = [pc EXCEPT ![Loop] = l]
        BY <2>2 DEF ReplayVerdict, RecordReady, runner
      <4>2. OnVerdictMsg => replies # <<>>
        BY DEF OnVerdictMsg
      <4>3. replies = <<>>
        BY <4>1 DEF PromptInv
      <4> QED BY <4>1, <4>2, <4>3
    <3>2. requests = <<>> /\ replies = <<>>
      BY <3>1 DEF PromptInv
    <3>3. \A t \in Timers : pc'[t] = pc[t]
      BY <1>0, <3>1
    <3>4. DOMAIN requests = {} /\ DOMAIN replies = {}
      BY <3>2
    <3> QED BY <3>1, <3>2, <3>3, <3>4 DEF PromptInv
  <2>3. CASE RefuseReady(p)
    <3>1. /\ inflight' = inflight /\ ready' = ready /\ UNCHANGED <<requests, replies>>
          /\ pc' = [pc EXCEPT ![Loop] = "reply"]
      BY <2>3 DEF RefuseReady, gateState, runner
    <3>2. ~OnVerdictMsg
      BY <1>0, <3>1 DEF OnVerdictMsg
    <3>3. pc'[Loop] = "reply" /\ \A t \in Timers : pc'[t] = pc[t]
      BY <1>0, <3>1
    <3> QED BY <3>1, <3>2, <3>3 DEF PromptInv
  <2>4. CASE IgnoreReady(p)
    <3>1. ~OnVerdictMsg
      <4>1. UNCHANGED pc
        BY <2>4 DEF IgnoreReady, locals
      <4>2. OnVerdictMsg => pc'[Loop] = "settle" /\ pc[Loop] = "idle"
        BY <1>0 DEF OnVerdictMsg
      <4> QED BY <4>1, <4>2
    <3> QED BY <2>4, <3>1 DEF IgnoreReady, gateState, locals, runner, PromptInv
  <2> QED BY <2>1, <2>2, <2>3, <2>4
<1>2. CASE OnVerdictMsg
  <2>1. /\ pc[Loop] = "idle" /\ replies # <<>> /\ replies' = Tail(replies)
        /\ requests' = requests /\ inflight' = inflight /\ ready' = ready
        /\ pc' = [pc EXCEPT ![Loop] = "settle"]
    BY <1>2 DEF OnVerdictMsg, gateState
  <2>2. inflight /\ Len(replies) + Len(requests) <= 1
    BY <1>0, <2>1 DEF PromptInv
  <2>3. /\ 1 \in DOMAIN replies /\ Head(replies) = replies[1]
        /\ Len(Tail(replies)) = 0 /\ Tail(replies) \in Seq(R) /\ DOMAIN Tail(replies) = {}
        /\ requests = <<>> /\ Len(requests) = 0 /\ DOMAIN requests = {}
    <3> HIDE DEF R
    <3> QED BY <1>0, <2>1, <2>2, OnlyOne
  <2>4. Head(replies).asked = ready
    BY <2>3 DEF PromptInv
  <2>5. \A t \in Timers : pc'[t] = pc[t]
    BY <1>0, <2>1
  <2>6. requests' = <<>> /\ replies' = <<>>
    BY <2>1, <2>3, EmptySeq
  <2>7. PromptInv'
    BY <2>1, <2>3, <2>5, <2>6 DEF PromptInv
  <2> QED BY <2>2, <2>4, <2>7
<1>3. CASE Open
  <2>1. /\ pc[Loop] = "open" /\ inflight' = TRUE /\ ready' = ready
        /\ requests' = IF Len(requests) < MaxQueue THEN Append(requests, ready)
                                                   ELSE requests
        /\ replies' = replies
        /\ pc' = [pc EXCEPT ![Loop] = "reply", ![gen + 1] = "armed"]
    BY <1>3 DEF Open
  <2>2. requests = <<>> /\ replies = <<>>
    BY <2>1, NothingUnderWay DEF CoordinatorInv
  <2>3. requests' = <<>> \/ requests' = <<ready>>
    BY <2>1, <2>2
  <2>4. /\ Len(<<>>) = 0 /\ Len(<<ready>>) = 1 /\ DOMAIN <<>> = {}
        /\ DOMAIN <<ready>> = {1} /\ <<ready>>[1] = ready
    OBVIOUS
  <2>5. /\ Len(requests') \in {0, 1} /\ Len(replies') = 0
        /\ \A i \in DOMAIN requests' : requests'[i] = ready
        /\ DOMAIN replies' = {}
    BY <2>1, <2>2, <2>3, <2>4
  <2>6. /\ \A t \in Timers : pc'[t] \in {"off", "armed"}
        /\ pc'[Loop] = "reply"
    <3>1. /\ \A t \in Timers : pc'[t] \in {pc[t], "armed"}
          /\ gen + 1 # Loop
      BY <1>0, <2>1 DEF Loop
    <3> QED BY <1>0, <2>1, <3>1 DEF PromptInv
  <2>7. ~OnVerdictMsg
    BY <2>2 DEF OnVerdictMsg
  <2>8. Len(requests') + Len(replies') <= 1
    BY <2>5
  <2>9. ready' = ready /\ inflight' /\ pc'[Loop] \in {"idle", "reply"}
    BY <2>1, <2>6
  <2> QED BY <2>5, <2>6, <2>7, <2>8, <2>9 DEF PromptInv
<1>4. CASE SendReply
  <2>1. /\ inflight' = inflight /\ ready' = ready /\ UNCHANGED <<requests, replies>>
        /\ pc[Loop] = "reply" /\ pc' = [pc EXCEPT ![Loop] = "idle"]
    BY <1>4 DEF SendReply, gateState, runner
  <2>2. ~OnVerdictMsg
    BY <2>1 DEF OnVerdictMsg
  <2>3. pc'[Loop] = "idle" /\ \A t \in Timers : pc'[t] = pc[t]
    BY <1>0, <2>1
  <2> QED BY <2>1, <2>2, <2>3 DEF PromptInv
<1>5. CASE Resolve(Loop)
  <2>1. /\ pc[Loop] \in {"settle", "inform", "block", "hook"}
        /\ UNCHANGED <<requests, replies>> /\ \E l : pc' = [pc EXCEPT ![Loop] = l]
    <3>1. /\ pc[Loop] \in {"settle", "inform", "block", "hook"}
          /\ UNCHANGED <<requests, replies>>
          /\ \E l \in {"idle", "off", "inform", "block", "hook"} :
                 pc' = [pc EXCEPT ![Loop] = l]
      BY <1>5 DEF Resolve, Settle, Inform, Block, Hook, runner, Return
    <3> QED BY <3>1
  <2>2. requests = <<>> /\ replies = <<>>
    BY <2>1, NothingUnderWay DEF CoordinatorInv
  <2>3. DOMAIN requests = {} /\ DOMAIN replies = {}
    BY <2>2
  <2>4. \A t \in Timers : pc'[t] = pc[t]
    BY <1>0, <2>1
  <2>5. ~OnVerdictMsg
    BY <2>2 DEF OnVerdictMsg
  <2> QED BY <2>1, <2>2, <2>3, <2>4, <2>5 DEF PromptInv
<1>6. ASSUME NEW t \in Timers, TimerFires(t) \/ Resolve(t)
      PROVE  PromptInv' /\ (OnVerdictMsg => inflight /\ Head(replies).asked = ready)
  <2>1. pc[t] \in {"off", "armed"}
    BY DEF PromptInv
  <2>2. ~Resolve(t)
    BY <2>1 DEF Resolve, Settle, Inform, Block, Hook
  <2>3. /\ inflight' = inflight /\ ready' = ready /\ UNCHANGED <<requests, replies>>
        /\ \E l \in {"off", "settle"} : pc' = [pc EXCEPT ![t] = l]
    BY <1>6, <2>2 DEF TimerFires, gateState, runner
  <2>4. pc'[Loop] = pc[Loop] /\ \A u \in Timers : pc'[u] \in {pc[u], "off"}
    BY <1>0, <2>3
  <2>5. ~OnVerdictMsg
    BY <1>0, <2>4 DEF OnVerdictMsg
  <2> QED BY <2>3, <2>4, <2>5 DEF PromptInv
<1>7. CASE RunnerReplies \/ RunnerLoses
  <2>1. /\ requests # <<>> /\ requests' = Tail(requests)
        /\ UNCHANGED <<inflight, ready, pc>>
        /\ \/ replies' = replies
           \/ \E r \in Reports :
                  replies' = Append(replies, [asked |-> Head(requests), report |-> r])
    BY <1>7 DEF RunnerReplies, RunnerLoses, gateState, locals
  <2>2. Len(requests) + Len(replies) <= 1
    BY DEF PromptInv
  <2>3. /\ 1 \in DOMAIN requests /\ Head(requests) = requests[1]
        /\ Len(Tail(requests)) = 0 /\ DOMAIN Tail(requests) = {}
        /\ replies = <<>> /\ Len(replies) = 0 /\ DOMAIN replies = {}
    <3> HIDE DEF R
    <3> QED BY <1>0, <2>1, <2>2, OnlyOne
  <2>4. Head(requests) = ready /\ inflight /\ pc[Loop] \in {"idle", "reply"}
    BY <2>1, <2>3 DEF PromptInv
  <2>5. /\ Len(replies') \in {0, 1}
        /\ \A i \in DOMAIN replies' : replies'[i].asked = ready
    <3>1. CASE replies' = replies
      BY <2>3, <3>1
    <3>2. ASSUME NEW r \in Reports,
                 replies' = Append(replies, [asked |-> Head(requests), report |-> r])
          PROVE  /\ Len(replies') \in {0, 1}
                 /\ \A i \in DOMAIN replies' : replies'[i].asked = ready
      <4>1. replies' = <<[asked |-> ready, report |-> r]>>
        BY <2>3, <2>4, <3>2
      <4> QED BY <4>1
    <3> QED BY <2>1, <3>1, <3>2
  <2>6. ~OnVerdictMsg
    BY <2>3 DEF OnVerdictMsg
  <2> QED BY <2>1, <2>3, <2>4, <2>5, <2>6 DEF PromptInv
<1> QED BY <1>1, <1>2, <1>3, <1>4, <1>5, <1>6, <1>7 DEF Next, LoopStep, TimerStep

\* As long as no round is declared stalled, every reply is taken for the round
\* it answers, with the claims it was asked for: what BackfillDescribesTheRound
\* says unconditionally, and the code keeps only while the runner is in time.
THEOREM PromptRepliesFit == PromptSpec => RepliesFitTheRound /\ BackfillDescribesTheRound
<1> DEFINE Prompt == \A t \in Timers : pc'[t] # "settle"
           Fits == OnVerdictMsg => inflight /\ Head(replies).asked = ready
<1>1. CoordinatorInv /\ [Next /\ Prompt]_vars => CoordinatorInv'
  BY InvNext
<1>2. PromptInv /\ CoordinatorInv /\ [Next /\ Prompt]_vars => PromptInv' /\ [Fits]_vars
  <2> SUFFICES ASSUME PromptInv, CoordinatorInv, [Next /\ Prompt]_vars
               PROVE  PromptInv' /\ [Fits]_vars
    OBVIOUS
  <2>1. CASE Next /\ Prompt
    BY <2>1, PromptStep
  <2>2. CASE UNCHANGED vars
    BY <2>2 DEF vars, gateState, locals, runner, PromptInv
  <2> QED BY <2>1, <2>2
<1>3. [Fits]_vars =>
          [OnVerdictMsg /\ inflight /\ Head(replies).report.versions = NoVersions =>
               Head(replies).asked = ready]_vars
  OBVIOUS
<1> QED BY <1>1, <1>2, <1>3, InvInit, PromptInit, PTL
        DEF PromptSpec, RepliesFitTheRound, BackfillDescribesTheRound

-----------------------------------------------------------------------------
(***************************************************************************)
(* Rounds that start while no timer is between its two critical sections.  *)
(***************************************************************************)

\* A step that starts no round behind a timer's back keeps the fence.
LEMMA FenceStep ==
    ASSUME CoordinatorInv, FenceInv, Next, Unraced
    PROVE  FenceInv'
<1>0. /\ DOMAIN pc = Goroutines /\ gen \in Nat
      /\ \A t \in Timers : t \in Goroutines /\ t # Loop
  BY TimersFacts DEF CoordinatorInv, TypeOK
<1>1. CASE ~inflight
  <2>1. ASSUME NEW t \in Timers, pc'[t] = "settle", inflight' PROVE pc[t] = "settle"
    <3>1. ~TimerFires(t) \/ Stale(t)
      BY <1>1 DEF Stale
    <3>2. ASSUME NEW u \in Timers, TimerFires(u) PROVE FALSE
      BY <1>1, <2>1, <3>2 DEF TimerFires, gateState
    <3>3. CASE OnReady
      <4>1. \E l : pc' = [pc EXCEPT ![Loop] = l] \/ pc' = pc
        BY <3>3 DEF OnReady, ReplayVerdict, RecordReady, RefuseReady, IgnoreReady, locals
      <4> QED BY <1>0, <2>1, <4>1
    <3>4. CASE Open
      <4>1. pc' = [pc EXCEPT ![Loop] = "reply", ![gen + 1] = "armed"]
        BY <3>4 DEF Open
      <4> QED BY <1>0, <2>1, <4>1
    <3>5. CASE OnVerdictMsg \/ SendReply \/ RunnerReplies \/ RunnerLoses
      BY <1>1, <2>1, <3>5
         DEF OnVerdictMsg, SendReply, RunnerReplies, RunnerLoses, gateState
    <3>6. ASSUME NEW g \in Goroutines, Resolve(g) PROVE FALSE
      BY <1>1, <2>1, <3>6 DEF Resolve, Settle, Inform, Block, Hook, gateState
    <3> QED BY <1>0, <3>2, <3>3, <3>4, <3>5, <3>6, TimersFacts
            DEF Next, LoopStep, TimerStep
  <2> QED BY <1>1, <2>1 DEF FenceInv, Unraced
<1>2. CASE inflight
  <2>1. ASSUME NEW t \in Timers, pc'[t] = "settle", inflight' PROVE gen' = t - 1
    <3>1. ASSUME NEW u \in Timers, TimerFires(u) PROVE gen' = t - 1
      <4>1. gen' = gen /\ pc[u] = "armed"
        BY <3>1 DEF TimerFires, gateState
      <4>2. CASE t = u
        <5>1. ~Stale(u)
          BY <1>0, <2>1, <3>1, <4>2 DEF TimerFires
        <5> QED BY <4>1, <4>2, <5>1 DEF Stale
      <4>3. CASE t # u
        <5>1. pc[t] = "settle"
          BY <1>0, <2>1, <3>1, <4>3 DEF TimerFires
        <5> QED BY <1>2, <4>1, <5>1 DEF FenceInv
      <4> QED BY <4>2, <4>3
    <3>2. CASE OnReady
      <4>1. /\ gen' = gen
            /\ \E l : pc' = [pc EXCEPT ![Loop] = l] \/ pc' = pc
        BY <3>2 DEF OnReady, ReplayVerdict, RecordReady, RefuseReady, IgnoreReady, locals,
                    gateState
      <4> QED BY <1>0, <1>2, <2>1, <4>1 DEF FenceInv
    <3>3. CASE Open
      <4>1. pc' = [pc EXCEPT ![Loop] = "reply", ![gen + 1] = "armed"] /\ gen' = gen
        BY <3>3 DEF Open
      <4> QED BY <1>0, <1>2, <2>1, <4>1 DEF FenceInv
    <3>4. CASE OnVerdictMsg \/ SendReply
      <4>1. gen' = gen /\ \E l : pc' = [pc EXCEPT ![Loop] = l]
        BY <3>4 DEF OnVerdictMsg, SendReply, gateState
      <4> QED BY <1>0, <1>2, <2>1, <4>1 DEF FenceInv
    <3>5. CASE RunnerReplies \/ RunnerLoses
      BY <1>2, <2>1, <3>5 DEF RunnerReplies, RunnerLoses, gateState, locals, FenceInv
    <3>6. ASSUME NEW g \in Goroutines, Resolve(g) PROVE gen' = t - 1
      <4>1. /\ gen' = gen
            /\ \E l : l # "settle" /\ pc' = [pc EXCEPT ![g] = l]
        BY <1>2, <2>1, <3>6 DEF Resolve, Settle, Inform, Block, Hook, Return, gateState
      <4> QED BY <1>0, <1>2, <2>1, <4>1 DEF FenceInv
    <3> QED BY <1>0, <3>1, <3>2, <3>3, <3>4, <3>5, <3>6, TimersFacts
            DEF Next, LoopStep, TimerStep
  <2> QED BY <2>1 DEF FenceInv
<1> QED BY <1>1, <1>2

\* A timer settles only the round it was armed for, as gate.go:102 has it, if
\* nobody starts a round between its check and its resolve (gate.go:417, 455).
THEOREM UnracedTimersAreFenced == UnracedSpec => TimersAreFenced
<1> DEFINE Fenced == \A t \in Timers : pc[t] = "settle" /\ pc'[t] = "inform" => gen = t - 1
<1>1. CoordinatorInv /\ [Next /\ Unraced]_vars => CoordinatorInv'
  BY InvNext
<1>2. CoordinatorInv /\ FenceInv /\ [Next /\ Unraced]_vars => FenceInv' /\ [Fenced]_vars
  <2> SUFFICES ASSUME CoordinatorInv, FenceInv, [Next /\ Unraced]_vars
               PROVE  FenceInv' /\ [Fenced]_vars
    OBVIOUS
  <2>1. CASE Next /\ Unraced
    <3>1. ASSUME NEW t \in Timers, pc[t] = "settle", pc'[t] = "inform" PROVE inflight
      BY <2>1, <3>1, SettleEndsRound, TimersFacts
    <3> QED BY <2>1, <3>1, FenceStep DEF FenceInv
  <2>2. CASE UNCHANGED vars
    BY <2>2 DEF vars, gateState, locals, FenceInv
  <2> QED BY <2>1, <2>2
<1>3. Init => FenceInv
  BY TimersFacts DEF Init, FenceInv
<1> QED BY <1>1, <1>2, <1>3, InvInit, PTL DEF UnracedSpec, TimersAreFenced
=============================================================================
