--------------------------- MODULE RunLoopProofs ---------------------------
(***************************************************************************)
(* Run gives up in time, never overlooks a dead session and never forgets  *)
(* a lost lease, for any number of agents, versions, rounds and any        *)
(* capacity of the verdicts channel.                                       *)
(***************************************************************************)
EXTENDS RunLoop, FiniteSetTheorems, SequenceTheorems, TLAPS

(***************************************************************************)
(* Lemmas about the operators.                                             *)
(***************************************************************************)

\* Counting agents and leases: the channels have a slot for everybody.
LEMMA Counts ==
    /\ Cardinality(Agents) \in Nat
    /\ IsFiniteSet(Leases) /\ Cardinality(Leases) = Cardinality(Agents) + 1
    /\ Cardinality(Required) \in Nat
<1>1. Cardinality(Agents) \in Nat /\ Cardinality(Required) \in Nat
  BY AgentsAssumption, RequiredAssumption, FS_CardinalityType
<1>2. IsFiniteSet(Leases) /\ Cardinality(Leases) = Cardinality(Agents) + 1
  BY AgentsAssumption, FS_AddElement DEF Leases
<1> QED BY <1>1, <1>2

\* A send that may drop keeps the type and the bound of the channel, and a
\* channel with a free slot takes the value.
LEMMA OfferFacts ==
    ASSUME NEW S, NEW c \in Seq(S), NEW x \in S, NEW n \in Nat
    PROVE  /\ Offer(c, x, n) \in Seq(S)
           /\ Len(c) <= n => Len(Offer(c, x, n)) <= n
           /\ n > 0 => Offer(c, x, n) # <<>>
           /\ Len(c) < n => Offer(c, x, n) = Append(c, x)
BY DEF Offer

\* What a queue holds after another element was appended.
LEMMA AppendRange ==
    ASSUME NEW S, NEW c \in Seq(S), NEW x \in S
    PROVE  Range(Append(c, x)) = Range(c) \cup {x}
<1>1. ASSUME NEW y \in Range(c) PROVE y \in Range(Append(c, x))
  <2>1. PICK i \in 1 .. Len(c) : y = c[i]
    BY <1>1 DEF Range
  <2>2. i \in DOMAIN Append(c, x) /\ Append(c, x)[i] = c[i]
    BY <2>1
  <2> QED BY <2>1, <2>2 DEF Range
<1>2. x \in Range(Append(c, x))
  <2>1. Len(c) + 1 \in DOMAIN Append(c, x) /\ Append(c, x)[Len(c) + 1] = x
    OBVIOUS
  <2> QED BY <2>1 DEF Range
<1>3. ASSUME NEW y \in Range(Append(c, x)) PROVE y \in Range(c) \cup {x}
  <2>1. PICK i \in 1 .. Len(c) + 1 : y = Append(c, x)[i]
    BY <1>3 DEF Range
  <2>2. CASE i = Len(c) + 1
    BY <2>1, <2>2
  <2>3. CASE i \in 1 .. Len(c)
    BY <2>1, <2>3 DEF Range
  <2> QED BY <2>1, <2>2, <2>3
<1> QED BY <1>1, <1>2, <1>3

\* The limit on failing verdicts is a number.
LEMMA LimitFacts == Limit \in Nat
<1>1. MaxRounds - 1 \in Nat /\ Cardinality(Required) + 1 \in Nat
  BY Counts, RoundsAssumption
<1>2. ASSUME NEW m \in Nat, NEW n \in Nat PROVE 1 + m * n \in Nat
  OBVIOUS
<1> QED BY <1>1, <1>2 DEF Limit

\* One more counted round pays for one more verdict per required
\* participant and the one that ends the cycle.
LEMMA PaidFacts ==
    ASSUME NEW n \in Nat
    PROVE  /\ Paid(1) = 1
           /\ Paid(n) \in Int
           /\ Paid(n + 1) = Paid(n) + Cardinality(Required) + 1
           /\ Limit = Paid(MaxRounds)
           /\ n + 1 < MaxRounds => Paid(n + 1) + Cardinality(Required) < Limit
<1> DEFINE N == Cardinality(Required) + 1
<1>0. N \in Nat /\ N > 0
  BY Counts
<1>1. Paid(1) = 1 /\ Paid(n) \in Int /\ Limit = Paid(MaxRounds)
  BY <1>0, RoundsAssumption DEF Paid, Limit
<1>2. n * N = (n - 1) * N + N
  BY <1>0
<1>3. Paid(n + 1) = Paid(n) + N
  BY <1>0, <1>2 DEF Paid
<1>4. ASSUME n + 1 < MaxRounds PROVE Paid(n + 1) + Cardinality(Required) < Limit
  <2>1. PICK k \in Nat : MaxRounds - 1 = n + 1 + k
    <3>1. MaxRounds - 2 - n \in Nat
      BY <1>4, RoundsAssumption
    <3> QED BY <3>1, RoundsAssumption
  <2>2. (n + 1 + k) * N = n * N + N + k * N
    BY <1>0
  <2>3. k * N >= 0
    BY <1>0
  <2>4. Limit = 1 + n * N + N + k * N
    BY <2>1, <2>2, <1>0 DEF Limit
  <2>5. Paid(n + 1) = 1 + n * N
    BY <1>0 DEF Paid
  <2>6. n * N \in Int /\ k * N \in Int
    BY <1>0
  <2>7. Cardinality(Required) = N - 1
    BY Counts
  <2>8. QED
    <3> HIDE DEF N
    <3> QED BY <2>3, <2>4, <2>5, <2>6, <2>7, <1>0
<1> QED BY <1>1, <1>3, <1>4, Counts

(***************************************************************************)
(* Types.                                                                  *)
(***************************************************************************)

\* The initial state has its types.
LEMMA TypeInit == Init => TypeOK
<1> SUFFICES ASSUME Init PROVE TypeOK
  OBVIOUS
<1>1. NoVersions \in VersionMaps
  <2>1. NoVersions \in [{} -> Versions]
    BY DEF NoVersions
  <2> QED BY <2>1 DEF VersionMaps
<1>2. held \in Seq(Leases) /\ verdicts \in Seq(Verdicts) /\ Len(verdicts) <= Buffer
  BY RoundsAssumption DEF Init
<1>3. rounds \in 0 .. MaxRounds - 1 /\ fails \in Nat
  BY RoundsAssumption DEF Init
<1>4. told \in BOOLEAN /\ started \in BOOLEAN
  BY DEF Init
<1>5. failures \in Seq(Agents) /\ lost \in Seq(Leases) /\ moved \in SUBSET Required
  BY DEF Init
<1> QED BY <1>1, <1>2, <1>3, <1>4, <1>5 DEF Init, TypeOK

\* Returning leaves everything but the outcome as it was at the start.
LEMMA TypeReturn ==
    ASSUME TypeOK, NEW k, NEW w, Return(k, w),
           UNCHANGED <<held, session, beat>>, fails' \in Nat
    PROVE  TypeOK'
<1>1. NoVersions \in VersionMaps
  <2>1. NoVersions \in [{} -> Versions]
    BY DEF NoVersions
  <2> QED BY <2>1 DEF VersionMaps
<1>2. verdicts' \in Seq(Verdicts) /\ Len(verdicts') <= Buffer
  BY RoundsAssumption DEF Return
<1>3. rounds' \in 0 .. MaxRounds - 1
  BY RoundsAssumption DEF Return
<1>4. told' \in BOOLEAN /\ started' \in BOOLEAN
  BY DEF Return
<1>5. failures' \in Seq(Agents) /\ lost' \in Seq(Leases) /\ moved' \in SUBSET Required
  BY DEF Return
<1>6. phase' = "close" /\ informed' = NoVerdict /\ base' = NoVersions
  BY DEF Return
<1> QED BY <1>1, <1>2, <1>3, <1>4, <1>5, <1>6 DEF TypeOK

\* Taking a failing verdict keeps the types.
LEMMA TypeTakeFailure == TypeOK /\ TakeFailure => TypeOK'
<1> SUFFICES ASSUME TypeOK, TakeFailure PROVE TypeOK'
  OBVIOUS
<1> DEFINE v == Head(verdicts)
<1>1. v \in Verdicts /\ Tail(verdicts) \in Seq(Verdicts)
         /\ Len(Tail(verdicts)) = Len(verdicts) - 1
  BY HeadTailProperties DEF TypeOK, TakeFailure
<1>2. v.versions \in VersionMaps
  BY <1>1, VerdictsAssumption
<1>3. fails' \in Nat
  BY DEF TakeFailure, TypeOK
<1>4. Len(Tail(verdicts)) <= Buffer
  BY <1>1, RoundsAssumption DEF TypeOK
<1>5. UNCHANGED <<held, session, beat>>
  BY DEF TakeFailure
<1>6. CASE AdvanceCycle(v)
  <2>1. moved' \in SUBSET Required
    BY <1>6 DEF AdvanceCycle, MovedNow, TypeOK
  <2> QED BY <1>1, <1>3, <1>4, <1>5, <1>6, <2>1 DEF AdvanceCycle, gate, TypeOK
<1>7. CASE CountRound(v) /\ rounds + 1 >= MaxRounds
  BY <1>3, <1>5, <1>7, TypeReturn DEF CountRound
<1>8. CASE CountRound(v) /\ ~(rounds + 1 >= MaxRounds)
  <2>1. rounds' \in 0 .. MaxRounds - 1
    BY <1>8, RoundsAssumption DEF CountRound, TypeOK
  <2> QED BY <1>1, <1>2, <1>3, <1>4, <1>5, <1>8, <2>1 DEF CountRound, gate, TypeOK
<1> QED BY <1>6, <1>7, <1>8 DEF TakeFailure

\* The steps by which Run returns keep the types.
LEMMA TypeReturns ==
    ASSUME TypeOK,
           StartFails \/ TakePass \/ TakeDeath \/ TakeLoss \/ BudgetExhausted
    PROVE  TypeOK'
<1>1. fails' \in Nat /\ UNCHANGED <<held, session, beat>>
  BY DEF StartFails, TakePass, TakeDeath, TakeLoss, BudgetExhausted, TypeOK
<1>2. \E k, w : Return(k, w)
  BY DEF StartFails, TakePass, TakeDeath, TakeLoss, BudgetExhausted
<1> QED BY <1>1, <1>2, TypeReturn

\* Starting and unwinding keep the types.
LEMMA TypeRun ==
    ASSUME TypeOK, Start \/ Unwind
    PROVE  TypeOK'
<1>1. ASSUME NEW l \in Leases, Acquire(l) PROVE TypeOK'
  <2>1. held' \in Seq(Leases) /\ beat' \in [Leases -> {"off", "on", "fenced"}]
    BY <1>1 DEF Acquire, TypeOK
  <2> QED BY <1>1, <2>1 DEF Acquire, TypeOK, gate, chans, loop, cycle
<1>2. ASSUME NEW a \in Agents, StartSession(a) PROVE TypeOK'
  BY <1>2 DEF StartSession, TypeOK, gate, chans, loop, cycle
<1>3. CASE CloseSession
  <2>1. session' \in [Agents -> {"none", "live", "died", "finished", "closed"}]
    BY <1>3 DEF CloseSession, TypeOK
  <2> QED BY <1>3, <2>1 DEF CloseSession, TypeOK, gate, chans, loop, cycle
<1>4. CASE StopHeartbeat
  <2>1. beat' \in [Leases -> {"off", "on", "fenced"}]
    BY <1>4 DEF StopHeartbeat, TypeOK
  <2> QED BY <1>4, <2>1 DEF StopHeartbeat, TypeOK, gate, chans, loop, cycle
<1>5. CASE Release
  <2>1. Len(held) \in Nat /\ Len(held) # 0
    BY <1>5, EmptySeq DEF Release, TypeOK
  <2>2. held' \in Seq(Leases)
    BY <1>5, <2>1, SubSeqProperties DEF Release, TypeOK
  <2> QED BY <1>5, <2>2 DEF Release, TypeOK, gate, chans, loop, cycle
<1>6. CASE Returned
  BY <1>6 DEF Returned, TypeOK, gate, chans, loop, cycle
<1> QED BY <1>1, <1>2, <1>3, <1>4, <1>5, <1>6 DEF Start, Unwind

\* The other goroutines keep the types.
LEMMA TypeOthers ==
    ASSUME TypeOK,
           \/ Broadcast \/ OnVerdict
           \/ \E a \in Agents : Session(a)
           \/ \E l \in Leases : Fenced(l)
    PROVE  TypeOK'
<1>1. CASE Broadcast
  <2>1. told' \in BOOLEAN /\ informed' \in Verdicts
    BY <1>1, VerdictsAssumption DEF Broadcast, TypeOK
  <2> QED BY <1>1, <2>1 DEF Broadcast, TypeOK, chans, loop, cycle
<1>2. CASE OnVerdict
  <2>1. informed \in Verdicts
    BY <1>2 DEF OnVerdict, TypeOK
  <2>2. verdicts' \in Seq(Verdicts) /\ Len(verdicts') <= Buffer
    BY <1>2, <2>1, RoundsAssumption, OfferFacts DEF OnVerdict, TypeOK
  <2> QED BY <1>2, <2>2 DEF OnVerdict, TypeOK, loop, cycle
<1>3. ASSUME NEW a \in Agents, Session(a) PROVE TypeOK'
  <2>1. failures' \in Seq(Agents)
    BY <1>3, Counts, OfferFacts DEF Session, SessionDies, SessionFinishes, Forward, TypeOK
  <2>2. session' \in [Agents -> {"none", "live", "died", "finished", "closed"}]
    BY <1>3 DEF Session, SessionDies, SessionFinishes, TypeOK
  <2> QED BY <1>3, <2>1, <2>2 DEF Session, SessionDies, SessionFinishes, TypeOK,
             gate, loop, cycle
<1>4. ASSUME NEW l \in Leases, Fenced(l) PROVE TypeOK'
  <2>1. lost' \in Seq(Leases)
    BY <1>4, Counts, OfferFacts DEF Fenced, Report, TypeOK
  <2>2. beat' \in [Leases -> {"off", "on", "fenced"}]
    BY <1>4 DEF Fenced, TypeOK
  <2> QED BY <1>4, <2>1, <2>2 DEF Fenced, TypeOK, gate, loop, cycle
<1> QED BY <1>1, <1>2, <1>3, <1>4

\* Every step keeps the types.
LEMMA TypeNext == TypeOK /\ [Next]_vars => TypeOK'
<1> SUFFICES ASSUME TypeOK, [Next]_vars PROVE TypeOK'
  OBVIOUS
<1>1. CASE UNCHANGED vars
  BY <1>1 DEF vars, gate, chans, loop, cycle, TypeOK
<1> QED BY <1>1, TypeTakeFailure, TypeReturns, TypeRun, TypeOthers DEF Next, Wait

\* Every variable keeps its type, and no channel outgrows its capacity.
THEOREM TypeCorrect == Spec => []TypeOK
BY TypeInit, TypeNext, PTL DEF Spec

(***************************************************************************)
(* The inductive invariant.                                                *)
(***************************************************************************)

\* The invariant holds before anything is leased.
LEMMA InvInit == Init => RunInv
<1> SUFFICES ASSUME Init PROVE RunInv
  OBVIOUS
<1>1. TypeOK
  BY TypeInit
<1>2. GivesUpInTime
  <2>1. fails = 0
    BY DEF Init
  <2> QED BY <2>1, LimitFacts DEF GivesUpInTime
<1>3. FencedLeases = {} /\ Len(lost) = 0
  BY DEF Init, FencedLeases
<1>4. Len(lost) = Cardinality(FencedLeases)
  BY <1>3, FS_EmptySet
<1> QED BY <1>1, <1>2, <1>4 DEF Init, RunInv, DeathIsVisible, LossIsKept, Running

\* Returning keeps it, if the failing verdicts taken are within the limit.
LEMMA InvReturn ==
    ASSUME TypeOK', NEW k, NEW w, Return(k, w), fails' <= Limit
    PROVE  RunInv'
BY DEF Return, RunInv, GivesUpInTime, DeathIsVisible, LossIsKept, Running

\* A failing verdict that does not count makes a further participant move.
LEMMA AdvanceMoves ==
    ASSUME TypeOK, NEW v \in Verdicts, ~Completes(v)
    PROVE  /\ moved \cup MovedNow(v) \subseteq Required
           /\ Cardinality(moved) + 1 <= Cardinality(moved \cup MovedNow(v))
           /\ Cardinality(moved \cup MovedNow(v)) <= Cardinality(Required)
<1> DEFINE M == moved \cup MovedNow(v)
<1>1. moved \subseteq Required /\ M \subseteq Required
  BY DEF TypeOK, MovedNow
<1>2. PICK p \in M : p \notin moved
  BY DEF Completes
<1>3. IsFiniteSet(M) /\ Cardinality(M) <= Cardinality(Required)
  BY <1>1, RequiredAssumption, FS_Subset
<1>4. IsFiniteSet(moved) /\ moved \cup {p} \subseteq M
  BY <1>2, <1>3, FS_Subset
<1>5. Cardinality(moved \cup {p}) = Cardinality(moved) + 1
  BY <1>2, <1>4, FS_AddElement
<1>6. Cardinality(moved \cup {p}) <= Cardinality(M)
  BY <1>3, <1>4, FS_Subset
<1> QED BY <1>1, <1>3, <1>5, <1>6

\* Taking a failing verdict keeps the invariant: it either counts, and the
\* cycle it ends was paid for, or makes a further participant move.
LEMMA InvTakeFailure == RunInv /\ TakeFailure => RunInv'
<1> SUFFICES ASSUME RunInv, TakeFailure PROVE RunInv'
  OBVIOUS
<1> DEFINE v == Head(verdicts)
           N == Cardinality(Required)
<1>0. TypeOK /\ TypeOK' /\ Running /\ phase = "waiting"
  BY TypeTakeFailure DEF RunInv, TakeFailure, Running
<1>1. v \in Verdicts
  BY <1>0, HeadTailProperties DEF TypeOK, TakeFailure
<1>2. fails \in Nat /\ fails' = fails + 1
  <2>1. Limit \in Nat /\ fails \in Nat /\ fails <= Limit
    BY <1>0, LimitFacts DEF RunInv, GivesUpInTime, TypeOK
  <2>2. fails' = IF fails > Limit THEN fails ELSE fails + 1
    BY DEF TakeFailure
  <2> QED BY <2>1, <2>2
<1>3. Cardinality(moved) \in Nat /\ Cardinality(moved) <= N /\ N \in Nat
  BY <1>0, Counts, RequiredAssumption, FS_Subset, FS_CardinalityType DEF TypeOK
<1>4. rounds \in Nat /\ rounds < MaxRounds
  BY <1>0, RoundsAssumption DEF TypeOK
<1>5. Limit \in Int /\ Limit = Paid(MaxRounds) /\ Paid(1) = 1 /\ Paid(rounds) \in Int
         /\ Paid(rounds + 1) = Paid(rounds) + N + 1
  BY <1>4, PaidFacts, Counts, RoundsAssumption DEF Limit
<1>6. CASE AdvanceCycle(v)
  <2>1. started /\ rounds >= 1 /\ fails <= Paid(rounds) + Cardinality(moved)
    BY <1>0, <1>6 DEF AdvanceCycle, Completes, RunInv
  <2>2. /\ Cardinality(moved) + 1 <= Cardinality(moved')
        /\ Cardinality(moved') <= N /\ Cardinality(moved') \in Nat
    <3>1. moved' = moved \cup MovedNow(v) /\ ~Completes(v)
      BY <1>6 DEF AdvanceCycle
    <3>2. IsFiniteSet(moved')
      BY <1>0, <1>1, <3>1, AdvanceMoves, RequiredAssumption, FS_Subset
    <3> QED BY <1>0, <1>1, <3>1, <3>2, AdvanceMoves, FS_CardinalityType
  <2>3. fails' <= Paid(rounds) + Cardinality(moved')
    BY <1>2, <1>3, <1>5, <2>1, <2>2
  <2>4. Paid(rounds) + N < Limit
    <3>1. rounds - 1 \in Nat /\ (rounds - 1) + 1 = rounds
      BY <1>4, <2>1
    <3> QED BY <3>1, <1>4, PaidFacts
  <2>5. GivesUpInTime'
    BY <1>2, <1>3, <1>5, <2>2, <2>3, <2>4 DEF GivesUpInTime, Limit
  <2>6. UNCHANGED <<phase, held, session, beat, failures, lost, started, rounds>>
    BY <1>6 DEF AdvanceCycle, TakeFailure
  <2>7. Paid(rounds)' = Paid(rounds)
    BY <2>6 DEF Paid
  <2> QED BY <1>0, <2>1, <2>3, <2>5, <2>6, <2>7 DEF RunInv, DeathIsVisible, LossIsKept,
             Running, FencedLeases
<1>7. CASE CountRound(v) /\ rounds + 1 >= MaxRounds
  <2>1. Return("cap", Nobody) /\ rounds + 1 = MaxRounds
    BY <1>4, <1>7, RoundsAssumption DEF CountRound
  <2>2. CASE ~started
    BY <1>0, <1>2, <1>5, <2>1, <2>2, InvReturn DEF RunInv
  <2>3. CASE started
    <3>1. fails <= Paid(rounds) + Cardinality(moved)
      BY <1>0, <2>3 DEF RunInv
    <3>2. fails' <= Limit
      BY <1>2, <1>3, <1>5, <2>1, <3>1
    <3> QED BY <1>0, <2>1, <3>2, InvReturn
  <2> QED BY <1>0, <2>2, <2>3 DEF TypeOK
<1>8. CASE CountRound(v) /\ ~(rounds + 1 >= MaxRounds)
  <2>1. started' /\ rounds' = rounds + 1 /\ moved' = {}
    BY <1>8 DEF CountRound
  <2>2. Cardinality(moved') = 0
    BY <2>1, FS_EmptySet
  <2>3. Paid(rounds') = Paid(rounds + 1)
    BY <2>1
  <2>4. fails' <= Paid(rounds + 1)
    <3>1. CASE ~started
      BY <1>0, <1>2, <1>5, <3>1 DEF RunInv
    <3>2. CASE started
      BY <1>0, <1>2, <1>3, <1>5, <3>2 DEF RunInv
    <3> QED BY <1>0, <3>1, <3>2 DEF TypeOK
  <2>5. Paid(rounds + 1) + N < Limit
    BY <1>4, <1>8, PaidFacts, RoundsAssumption
  <2>6. GivesUpInTime'
    BY <1>2, <1>3, <1>5, <2>4, <2>5 DEF GivesUpInTime, Limit
  <2>7. UNCHANGED <<phase, held, session, beat, failures, lost>>
    BY <1>8 DEF CountRound, TakeFailure
  <2>8. Paid(rounds)' = Paid(rounds + 1)
    BY <2>1 DEF Paid
  <2>9. rounds' >= 1 /\ fails' <= Paid(rounds)' + Cardinality(moved)'
    <3>1. rounds' >= 1
      BY <1>4, <2>1
    <3>2. Paid(rounds + 1) \in Int /\ fails' \in Nat
      BY <1>2, <1>3, <1>5
    <3>3. Cardinality(moved)' = 0
      BY <2>2
    <3> QED BY <2>4, <2>8, <3>1, <3>2, <3>3
  <2> QED BY <1>0, <2>1, <2>6, <2>7, <2>9 DEF RunInv, DeathIsVisible, LossIsKept,
             Running, FencedLeases
<1> QED BY <1>6, <1>7, <1>8 DEF TakeFailure

\* The other returns take no failing verdict.
LEMMA InvReturns ==
    ASSUME RunInv,
           StartFails \/ TakePass \/ TakeDeath \/ TakeLoss \/ BudgetExhausted
    PROVE  RunInv'
<1>1. TypeOK'
  BY TypeReturns DEF RunInv
<1>2. fails' <= Limit
  BY DEF RunInv, GivesUpInTime, StartFails, TakePass, TakeDeath, TakeLoss,
         BudgetExhausted
<1>3. \E k, w : Return(k, w)
  BY DEF StartFails, TakePass, TakeDeath, TakeLoss, BudgetExhausted
<1> QED BY <1>1, <1>2, <1>3, InvReturn

\* Starting another lease or session keeps it: nothing has gone wrong yet in
\* a session that was just started, or with a lease that was just acquired.
LEMMA InvStart == RunInv /\ Start => RunInv'
<1> SUFFICES ASSUME RunInv, Start PROVE RunInv'
  OBVIOUS
<1>0. TypeOK /\ TypeOK'
  BY TypeRun DEF RunInv
<1>1. ASSUME NEW l \in Leases, Acquire(l) PROVE RunInv'
  <2>1. /\ phase = "starting" /\ held' = Append(held, l) /\ l \notin Range(held)
        /\ beat' = [beat EXCEPT ![l] = "on"]
        /\ UNCHANGED <<phase, session, failures, lost, started, moved, rounds, fails>>
    BY <1>1 DEF Acquire, chans, loop, cycle
  <2>2. Range(held') = Range(held) \cup {l}
    BY <1>0, <2>1, AppendRange DEF TypeOK
  <2>3. beat[l] = "off"
    BY <2>1 DEF RunInv, Running
  <2>4. \A m \in Leases : beat'[m] = "fenced" <=> beat[m] = "fenced"
    BY <1>0, <2>1, <2>3 DEF TypeOK
  <2>5. FencedLeases' = FencedLeases
    BY <2>4 DEF FencedLeases
  <2>6. \A m \in Leases \ Range(held') : beat'[m] = "off"
    BY <1>0, <2>1, <2>2 DEF RunInv, Running, TypeOK
  <2>7. Paid(rounds)' = Paid(rounds) /\ Running' = Running
    BY <2>1 DEF Paid, Running
  <2>8. GivesUpInTime' /\ DeathIsVisible' /\ LossIsKept'
    BY <2>1, <2>4, <2>7 DEF RunInv, GivesUpInTime, DeathIsVisible, LossIsKept
  <2> QED BY <1>0, <2>1, <2>5, <2>6, <2>7, <2>8 DEF RunInv
<1>2. ASSUME NEW a \in Agents, StartSession(a) PROVE RunInv'
  <2>1. /\ Running /\ Running'
        /\ session' = [session EXCEPT ![a] = "live"]
        /\ UNCHANGED <<held, beat, failures, lost, started, moved, rounds, fails>>
    BY <1>2 DEF StartSession, Running, chans, loop, cycle
  <2>2. \A b \in Agents : session'[b] \in {"died", "finished"} =>
              session[b] \in {"died", "finished"}
    BY <1>0, <2>1 DEF TypeOK
  <2>3. GivesUpInTime' /\ DeathIsVisible' /\ LossIsKept'
    BY <2>1, <2>2 DEF RunInv, GivesUpInTime, DeathIsVisible, LossIsKept
  <2>4. Paid(rounds)' = Paid(rounds) /\ FencedLeases' = FencedLeases
    BY <2>1 DEF Paid, FencedLeases
  <2> QED BY <1>0, <2>1, <2>3, <2>4 DEF RunInv
<1> QED BY <1>1, <1>2 DEF Start

\* Unwinding keeps it: Run no longer waits.
LEMMA InvUnwind == RunInv /\ Unwind => RunInv'
<1> SUFFICES ASSUME RunInv, Unwind PROVE RunInv'
  OBVIOUS
<1>1. TypeOK'
  BY TypeRun DEF RunInv
<1>2. ~Running' /\ fails' = fails
  BY DEF Unwind, CloseSession, StopHeartbeat, Release, Returned, Running, loop
<1> QED BY <1>1, <1>2 DEF RunInv, GivesUpInTime, DeathIsVisible, LossIsKept

\* A verdict on its way touches neither the cycle nor the queues of trouble.
LEMMA InvVerdict == RunInv /\ (Broadcast \/ OnVerdict) => RunInv'
<1> SUFFICES ASSUME RunInv, Broadcast \/ OnVerdict PROVE RunInv'
  OBVIOUS
<1>1. TypeOK'
  BY TypeOthers DEF RunInv
<1>2. UNCHANGED <<phase, held, session, beat, failures, lost, started, moved, rounds, fails>>
  BY DEF Broadcast, OnVerdict, chans, loop, cycle
<1>3. Paid(rounds)' = Paid(rounds) /\ FencedLeases' = FencedLeases /\ Running' = Running
  BY <1>2 DEF Paid, FencedLeases, Running
<1>4. GivesUpInTime' /\ DeathIsVisible' /\ LossIsKept'
  BY <1>2, <1>3 DEF RunInv, GivesUpInTime, DeathIsVisible, LossIsKept
<1> QED BY <1>1, <1>2, <1>3, <1>4 DEF RunInv

\* A session that ends leaves a failure in the queue, dropped or not.
LEMMA InvSession == ASSUME RunInv, NEW a \in Agents, Session(a) PROVE RunInv'
<1>1. TypeOK /\ TypeOK'
  BY TypeOthers DEF RunInv
<1>2. UNCHANGED <<phase, held, beat, lost, started, moved, rounds, fails>>
         /\ failures' = Offer(failures, a, Cardinality(Agents) + 1)
  BY DEF Session, SessionDies, SessionFinishes, Forward, loop, cycle
<1>3. failures' # <<>>
  BY <1>1, <1>2, Counts, OfferFacts DEF TypeOK
<1>4. Paid(rounds)' = Paid(rounds) /\ FencedLeases' = FencedLeases /\ Running' = Running
  BY <1>2 DEF Paid, FencedLeases, Running
<1>5. GivesUpInTime' /\ DeathIsVisible' /\ LossIsKept'
  BY <1>2, <1>3, <1>4 DEF RunInv, GivesUpInTime, DeathIsVisible, LossIsKept
<1> QED BY <1>1, <1>2, <1>4, <1>5 DEF RunInv

\* A fenced lease finds a slot: the channel holds one loss per lease fenced
\* before it, and there are fewer of those than leases.
LEMMA InvFenced == ASSUME RunInv, NEW l \in Leases, Fenced(l) PROVE RunInv'
<1>1. TypeOK /\ TypeOK'
  BY TypeOthers DEF RunInv
<1>2. /\ Running /\ beat[l] = "on" /\ lost' = Report(l)
      /\ beat' = [beat EXCEPT ![l] = "fenced"]
      /\ UNCHANGED <<phase, held, session, failures, started, moved, rounds, fails>>
  BY DEF Fenced, loop, cycle
<1>3. FencedLeases' = FencedLeases \cup {l} /\ l \notin FencedLeases
  BY <1>1, <1>2 DEF FencedLeases, TypeOK
<1>4. IsFiniteSet(FencedLeases) /\ IsFiniteSet(FencedLeases')
  BY Counts, FS_Subset DEF FencedLeases
<1>5. Cardinality(FencedLeases') = Cardinality(FencedLeases) + 1
  BY <1>3, <1>4, FS_AddElement
<1>6. Cardinality(FencedLeases') <= Cardinality(Leases)
  <2>1. FencedLeases' \subseteq Leases
    BY DEF FencedLeases
  <2> QED BY <2>1, Counts, FS_Subset
<1>7. Len(lost) < 1 + Cardinality(Agents)
  BY <1>2, <1>4, <1>5, <1>6, Counts, FS_CardinalityType DEF RunInv
<1>8. lost' = Append(lost, l)
  BY <1>1, <1>2, <1>7, Counts, OfferFacts DEF Report, TypeOK
<1>9. Len(lost') = Cardinality(FencedLeases')
  BY <1>1, <1>2, <1>5, <1>8 DEF RunInv, TypeOK
<1>10. Range(lost') = Range(lost) \cup {l}
  BY <1>1, <1>8, AppendRange DEF TypeOK
<1>11. LossIsKept'
  BY <1>1, <1>2, <1>10 DEF RunInv, LossIsKept, TypeOK
<1>12. l \in Range(held)
  BY <1>2 DEF RunInv
<1>13. \A m \in Leases \ Range(held') : beat'[m] = "off"
  BY <1>1, <1>2, <1>12 DEF RunInv, TypeOK
<1>14. Paid(rounds)' = Paid(rounds) /\ Running' = Running
  BY <1>2 DEF Paid, Running
<1>15. GivesUpInTime' /\ DeathIsVisible'
  BY <1>2, <1>14 DEF RunInv, GivesUpInTime, DeathIsVisible
<1> QED BY <1>1, <1>2, <1>9, <1>11, <1>13, <1>14, <1>15 DEF RunInv

\* Every step keeps the invariant.
LEMMA InvNext == RunInv /\ [Next]_vars => RunInv'
<1> SUFFICES ASSUME RunInv, [Next]_vars PROVE RunInv'
  OBVIOUS
<1>1. CASE UNCHANGED vars
  <2>1. TypeOK'
    BY <1>1, TypeNext DEF RunInv
  <2> QED BY <1>1, <2>1 DEF vars, gate, chans, loop, cycle, RunInv, GivesUpInTime,
             DeathIsVisible, LossIsKept, Running, FencedLeases, Paid
<1> QED BY <1>1, InvTakeFailure, InvReturns, InvStart, InvUnwind, InvVerdict,
           InvSession, InvFenced DEF Next, Wait

\* The inductive invariant holds in every reachable state.
THEOREM InvCorrect == Spec => []RunInv
BY InvInit, InvNext, PTL DEF Spec

\* Run gives up on a gate that keeps failing, whatever the participants
\* resubmit: maxRounds fix cycles, each at most one verdict per required
\* participant beyond the one that ends it (run.go:65).
THEOREM GivesUp == Spec => []GivesUpInTime
<1>1. RunInv => GivesUpInTime
  BY DEF RunInv
<1> QED BY <1>1, InvCorrect, PTL

\* A dead session is never invisible to a waiting Run (run.go:362).
THEOREM DeathSeen == Spec => []DeathIsVisible
<1>1. RunInv => DeathIsVisible
  BY DEF RunInv
<1> QED BY <1>1, InvCorrect, PTL

\* No lost lease is forgotten before Run returns (run.go:215).
THEOREM LossSeen == Spec => []LossIsKept
<1>1. RunInv => LossIsKept
  BY DEF RunInv
<1> QED BY <1>1, InvCorrect, PTL

(***************************************************************************)
(* Whom Run blames.                                                        *)
(***************************************************************************)

\* Returning keeps it, if whoever is blamed deserves it.
LEMMA BlameReturn ==
    ASSUME NEW k, NEW w, Return(k, w), UNCHANGED <<session, beat>>,
           k = "died" => w \in Agents /\ session[w] \in {"died", "finished"},
           k = "lease lost" => w \in Leases /\ beat[w] = "fenced"
    PROVE  BlameInv'
BY DEF Return, BlameInv, BlameIsDeserved, Running, Outcome

\* The head of a queue is in it.
LEMMA HeadInRange ==
    ASSUME NEW S, NEW c \in Seq(S), c # <<>>
    PROVE  Head(c) \in Range(c)
<1>1. 1 \in DOMAIN c /\ Head(c) = c[1]
  BY EmptySeq
<1> QED BY <1>1 DEF Range

\* A send that may drop adds at most the value.
LEMMA OfferRange ==
    ASSUME NEW S, NEW c \in Seq(S), NEW x \in S, NEW n \in Nat
    PROVE  Range(Offer(c, x, n)) \subseteq Range(c) \cup {x}
BY AppendRange DEF Offer

\* A step that starts, ends or fences something keeps it, if it blames nobody
\* and queues only what it ended or fenced.
LEMMA BlameRunning ==
    ASSUME TypeOK, BlameInv, Running, UNCHANGED outcome,
           \A a \in Range(failures') : session'[a] \in {"died", "finished"},
           \A l \in Range(lost') : beat'[l] = "fenced"
    PROVE  BlameInv'
<1>1. outcome' = Outcome("none", Nobody)
  BY DEF BlameInv
<1>2. outcome'.kind = "none"
  BY <1>1 DEF Outcome
<1> QED BY <1>1, <1>2 DEF BlameInv, BlameIsDeserved

\* Every step keeps it.
LEMMA BlameNext == RunInv /\ BlameInv /\ [Next]_vars => BlameInv'
<1> SUFFICES ASSUME RunInv, BlameInv, [Next]_vars PROVE BlameInv'
  OBVIOUS
<1>0. TypeOK
  BY DEF RunInv
<1>1. ASSUME NEW l \in Leases, Acquire(l) PROVE BlameInv'
  <2>1. beat[l] = "off"
    BY <1>1 DEF Acquire, RunInv, Running
  <2>2. /\ Running /\ UNCHANGED <<session, failures, lost, outcome>>
        /\ beat' = [beat EXCEPT ![l] = "on"]
    BY <1>1 DEF Acquire, Running, chans
  <2>3. \A m \in Range(lost) : m \in Leases /\ m # l
    <3>1. Range(lost) \subseteq Leases
      BY <1>0 DEF TypeOK, Range
    <3>2. \A m \in Range(lost) : beat[m] = "fenced"
      BY <2>2 DEF BlameInv
    <3> QED BY <2>1, <3>1, <3>2
  <2>4. \A m \in Range(lost) : beat'[m] = "fenced"
    BY <1>0, <2>2, <2>3 DEF BlameInv, TypeOK
  <2> QED BY <1>0, <2>2, <2>4, BlameRunning DEF BlameInv
<1>2. ASSUME NEW a \in Agents, StartSession(a) PROVE BlameInv'
  <2>1. a \notin Range(failures)
    BY <1>2 DEF StartSession, BlameInv, Running
  <2>2. \A b \in Range(failures) : session'[b] = session[b]
    BY <1>0, <1>2, <2>1 DEF StartSession, TypeOK
  <2> QED BY <1>0, <1>2, <2>2, BlameRunning
          DEF StartSession, BlameInv, Running, chans
<1>3. CASE TakeDeath
  <2>1. Head(failures) \in Agents /\ Head(failures) \in Range(failures)
    BY <1>0, <1>3, HeadInRange, HeadTailProperties DEF TakeDeath, TypeOK
  <2>2. session[Head(failures)] \in {"died", "finished"}
    BY <1>3, <2>1 DEF TakeDeath, BlameInv, Running
  <2> QED BY <1>3, <2>1, <2>2, BlameReturn DEF TakeDeath
<1>4. CASE TakeLoss
  <2>1. Head(lost) \in Leases /\ Head(lost) \in Range(lost)
    BY <1>0, <1>4, HeadInRange, HeadTailProperties DEF TakeLoss, TypeOK
  <2>2. beat[Head(lost)] = "fenced"
    BY <1>4, <2>1 DEF TakeLoss, BlameInv, Running
  <2> QED BY <1>4, <2>1, <2>2, BlameReturn DEF TakeLoss
<1>5. CASE StartFails \/ TakePass \/ BudgetExhausted
  BY <1>5, BlameReturn DEF StartFails, TakePass, BudgetExhausted
<1>6. CASE TakeFailure
  <2>1. CASE Return("cap", Nobody)
    BY <1>6, <2>1, BlameReturn DEF TakeFailure
  <2>2. CASE UNCHANGED <<phase, failures, lost, outcome>>
    BY <1>0, <1>6, <2>2, BlameRunning DEF TakeFailure, BlameInv, Running
  <2> QED BY <1>6, <2>1, <2>2 DEF TakeFailure, CountRound, AdvanceCycle
<1>7. ASSUME NEW a \in Agents, Session(a) PROVE BlameInv'
  <2>1. Range(failures') \subseteq Range(failures) \cup {a}
    BY <1>0, <1>7, Counts, OfferRange
       DEF Session, SessionDies, SessionFinishes, Forward, TypeOK
  <2>2. /\ Running /\ UNCHANGED <<beat, lost, outcome>>
        /\ \A b \in Range(failures) : session[b] \in {"died", "finished"}
    BY <1>7 DEF Session, SessionDies, SessionFinishes, BlameInv
  <2>3. /\ session'[a] \in {"died", "finished"}
        /\ \A b \in Agents \ {a} : session'[b] = session[b]
    BY <1>0, <1>7 DEF Session, SessionDies, SessionFinishes, TypeOK
  <2>4. Range(failures) \subseteq Agents
    BY <1>0 DEF TypeOK, Range
  <2>5. \A b \in Range(failures') : session'[b] \in {"died", "finished"}
    BY <2>1, <2>2, <2>3, <2>4
  <2> QED BY <1>0, <2>2, <2>5, BlameRunning DEF BlameInv
<1>8. ASSUME NEW l \in Leases, Fenced(l) PROVE BlameInv'
  <2>1. Range(lost') \subseteq Range(lost) \cup {l}
    BY <1>0, <1>8, Counts, OfferRange DEF Fenced, Report, TypeOK
  <2>2. beat'[l] = "fenced" /\ \A m \in Leases \ {l} : beat'[m] = beat[m]
    BY <1>0, <1>8 DEF Fenced, TypeOK
  <2>3. Range(lost) \subseteq Leases
    BY <1>0 DEF TypeOK, Range
  <2>4. \A m \in Range(lost') : beat'[m] = "fenced"
    BY <1>8, <2>1, <2>2, <2>3 DEF Fenced, BlameInv
  <2> QED BY <1>0, <1>8, <2>4, BlameRunning DEF Fenced, BlameInv
<1>9. CASE Broadcast \/ OnVerdict
  BY <1>9 DEF Broadcast, OnVerdict, chans, BlameInv, BlameIsDeserved, Running
<1>10. CASE Unwind
  <2>1. ~Running' /\ outcome' = outcome
    BY <1>10 DEF Unwind, CloseSession, StopHeartbeat, Release, Returned, Running
  <2>2. \A a \in Agents : session[a] \in {"died", "finished"} => session'[a] = session[a]
    BY <1>0, <1>10 DEF Unwind, CloseSession, StopHeartbeat, Release, Returned, TypeOK
  <2>3. \A l \in Leases : beat[l] = "fenced" => beat'[l] = "fenced"
    BY <1>0, <1>10 DEF Unwind, CloseSession, StopHeartbeat, Release, Returned, TypeOK
  <2> QED BY <2>1, <2>2, <2>3 DEF BlameInv, BlameIsDeserved
<1>11. CASE UNCHANGED vars
  BY <1>11 DEF vars, chans, BlameInv, BlameIsDeserved, Running
<1> QED BY <1>1, <1>2, <1>3, <1>4, <1>5, <1>6, <1>7, <1>8, <1>9, <1>10, <1>11
        DEF Next, Start, Wait

\* Run's attribution is right: whom it blames has ended, or has lost a lease
\* (run.go:145, 151).
THEOREM BlameDeserved == Spec => []BlameIsDeserved
<1>1. Init => BlameInv
  BY DEF Init, BlameInv, BlameIsDeserved, Outcome, Range
<1>2. BlameInv => BlameIsDeserved
  BY DEF BlameInv
<1> QED BY <1>1, <1>2, BlameNext, InvCorrect, PTL DEF Spec

(***************************************************************************)
(* The order of unwinding.                                                 *)
(***************************************************************************)

\* Whoever is taken off the top is the only one no longer held.
LEMMA PopRange ==
    ASSUME NEW S, NEW c \in Seq(S), c # <<>>
    PROVE  Range(c) \subseteq Range(SubSeq(c, 1, Len(c) - 1)) \cup {c[Len(c)]}
<1> SUFFICES ASSUME NEW i \in 1 .. Len(c)
             PROVE  c[i] \in Range(SubSeq(c, 1, Len(c) - 1)) \cup {c[Len(c)]}
  BY DEF Range
<1>1. CASE i = Len(c)
  BY <1>1
<1>2. CASE i # Len(c)
  <2>1. i \in DOMAIN SubSeq(c, 1, Len(c) - 1) /\ SubSeq(c, 1, Len(c) - 1)[i] = c[i]
    BY <1>2
  <2> QED BY <2>1 DEF Range
<1> QED BY <1>1, <1>2

\* The lease on top is held.
LEMMA TopIsHeld == ASSUME TypeOK, held # <<>> PROVE Top \in Range(held) /\ Top \in Leases
<1>1. Len(held) \in DOMAIN held
  BY EmptySeq DEF TypeOK
<1> QED BY <1>1 DEF Top, Range, TypeOK

\* While Run starts or waits, whatever makes no lease outside the held ones
\* busy keeps it.
LEMMA UnwindRunning ==
    ASSUME phase' \in {"starting", "waiting", "close", "done"},
           \A l \in Leases \ Range(held') : Idle(l)'
    PROVE  UnwindInv'
BY DEF UnwindInv

\* Every step keeps it.
LEMMA UnwindNext == TypeOK /\ UnwindInv /\ [Next]_vars => UnwindInv'
<1> SUFFICES ASSUME TypeOK, UnwindInv, [Next]_vars PROVE UnwindInv'
  OBVIOUS
<1>1. ASSUME NEW l \in Leases, Acquire(l) PROVE UnwindInv'
  <2>1. Range(held') = Range(held) \cup {l}
    BY <1>1, AppendRange DEF Acquire, TypeOK
  <2>2. \A m \in Leases \ Range(held') : beat'[m] = beat[m]
    BY <1>1, <2>1 DEF Acquire, TypeOK
  <2>3. \A m \in Leases \ Range(held') : Idle(m)'
    BY <1>1, <2>1, <2>2 DEF Acquire, UnwindInv, Idle
  <2> QED BY <1>1, <2>3, UnwindRunning DEF Acquire
<1>2. ASSUME NEW a \in Agents, StartSession(a) PROVE UnwindInv'
  <2>1. a \in Range(held)
    BY <1>2, TopIsHeld DEF StartSession
  <2>2. \A m \in Leases \ Range(held') : Idle(m)'
    BY <1>2, <2>1 DEF StartSession, UnwindInv, Idle, TypeOK
  <2> QED BY <1>2, <2>2, UnwindRunning DEF StartSession
<1>3. ASSUME StartFails \/ TakePass \/ TakeDeath \/ TakeLoss \/ BudgetExhausted
      PROVE  UnwindInv'
  <2>1. phase' = "close" /\ UNCHANGED <<held, session, beat>>
    BY <1>3 DEF StartFails, TakePass, TakeDeath, TakeLoss, BudgetExhausted, Return
  <2> QED BY <2>1 DEF UnwindInv, Idle
<1>4. CASE TakeFailure
  <2>1. phase' \in {"waiting", "close"} /\ UNCHANGED <<held, session, beat>>
    BY <1>4 DEF TakeFailure, CountRound, AdvanceCycle, Return
  <2> QED BY <2>1 DEF UnwindInv, Idle
<1>5. ASSUME NEW a \in Agents, Session(a) PROVE UnwindInv'
  <2>1. Running /\ UNCHANGED <<phase, held, beat>>
    BY <1>5 DEF Session, SessionDies, SessionFinishes
  <2>2. \A b \in Agents : session'[b] = "live" => session[b] = "live"
    BY <1>5 DEF Session, SessionDies, SessionFinishes, TypeOK
  <2> QED BY <2>1, <2>2 DEF UnwindInv, Idle, Running
<1>6. ASSUME NEW l \in Leases, Fenced(l) PROVE UnwindInv'
  <2>1. Running /\ UNCHANGED <<phase, held, session>>
    BY <1>6 DEF Fenced
  <2>2. \A m \in Leases : beat'[m] = "on" => beat[m] = "on"
    BY <1>6 DEF Fenced, TypeOK
  <2> QED BY <2>1, <2>2 DEF UnwindInv, Idle, Running
<1>7. CASE Broadcast \/ OnVerdict
  BY <1>7 DEF Broadcast, OnVerdict, UnwindInv, Idle, Top
<1>8. CASE CloseSession
  <2>1. /\ phase' = "stop" /\ UNCHANGED <<held, beat>> /\ held # <<>>
        /\ \A b \in Agents : session'[b] = "live" => session[b] = "live" /\ b # Top
    BY <1>8 DEF CloseSession, TypeOK
  <2>2. Top' = Top
    BY <2>1 DEF Top
  <2> QED BY <2>1, <2>2 DEF UnwindInv, Idle
<1>9. CASE StopHeartbeat
  <2>1. phase = "stop" /\ phase' = "release" /\ UNCHANGED <<held, session>>
    BY <1>9 DEF StopHeartbeat
  <2>2. Top \in Leases
    BY <2>1, TopIsHeld DEF TypeOK
  <2>3. beat'[Top] # "on" /\ \A m \in Leases : beat'[m] = "on" => beat[m] = "on"
    BY <1>9, <2>2 DEF StopHeartbeat, TypeOK
  <2>4. Top' = Top
    BY <2>1 DEF Top
  <2> QED BY <2>1, <2>3, <2>4 DEF UnwindInv, Idle
<1>10. CASE Release
  <2>1. /\ phase = "release" /\ phase' = "close" /\ UNCHANGED <<session, beat>>
        /\ held' = SubSeq(held, 1, Len(held) - 1)
    BY <1>10 DEF Release
  <2>2. Range(held) \subseteq Range(held') \cup {Top}
    BY <2>1, PopRange DEF TypeOK, Top
  <2>3. Idle(Top)
    BY <2>1 DEF UnwindInv, Idle
  <2> QED BY <2>1, <2>2, <2>3 DEF UnwindInv, Idle
<1>11. CASE Returned
  BY <1>11 DEF Returned, UnwindInv, Idle
<1>12. CASE UNCHANGED vars
  BY <1>12 DEF vars, UnwindInv, Idle, Top
<1> QED BY <1>1, <1>2, <1>3, <1>4, <1>5, <1>6, <1>7, <1>8, <1>9, <1>10, <1>11, <1>12
        DEF Next, Start, Wait, Unwind

\* No worktree is given up under a session that works in it, and no renewal
\* starts once the lease is given up (run.go:386).
THEOREM IdleWhenGivenUp == Spec => []GivenUpLast
<1>1. Init => UnwindInv
  BY DEF Init, UnwindInv, Idle, Leases
<1>2. UnwindInv => GivenUpLast
  BY DEF UnwindInv, Idle, GivenUpLast
<1> QED BY <1>1, <1>2, UnwindNext, TypeCorrect, PTL DEF Spec

(***************************************************************************)
(* Run's own steps are bounded.                                            *)
(***************************************************************************)

\* What is left to start is finite, and nothing is left unaccounted for.
LEMMA StepsFacts ==
    ASSUME TypeOK
    PROVE  /\ IsFiniteSet(Unleased) /\ IsFiniteSet(Unstarted)
           /\ Cardinality(Unleased) \in Nat /\ Cardinality(Unstarted) \in Nat
           /\ Len(held) \in Nat /\ Limit \in Nat /\ fails \in Nat
           /\ phase \in {"stop", "release"} => Len(held) > 0
<1>1. Unleased \subseteq Leases /\ Unstarted \subseteq Agents
  BY DEF Unleased, Unstarted
<1>2. IsFiniteSet(Unleased) /\ IsFiniteSet(Unstarted)
  BY <1>1, Counts, AgentsAssumption, FS_Subset
<1>3. Cardinality(Unleased) \in Nat /\ Cardinality(Unstarted) \in Nat
  BY <1>2, FS_CardinalityType
<1> QED BY <1>2, <1>3, LimitFacts, EmptySeq DEF TypeOK

\* The steps left are a number.
LEMMA StepsAreNat == RunInv => StepsLeft \in Nat
<1> SUFFICES ASSUME RunInv PROVE StepsLeft \in Nat
  OBVIOUS
<1>1. TypeOK /\ fails <= Limit
  BY DEF RunInv, GivesUpInTime
<1>2. phase \in {"starting", "waiting", "close", "stop", "release", "done"}
  BY <1>1 DEF TypeOK
<1> HIDE DEF Limit
<1> QED BY <1>1, <1>2, StepsFacts DEF StepsLeft

LEMMA StepsStayNat == RunInv' => (StepsLeft \in Nat)'
BY StepsAreNat, PTL

\* Another lease, or another session, is one that is not left.
LEMMA StartSteps ==
    ASSUME RunInv, TypeOK', Start
    PROVE  StepsLeft' < StepsLeft
<1>0. TypeOK
  BY DEF RunInv
<1>1. ASSUME NEW l \in Leases, Acquire(l) PROVE StepsLeft' < StepsLeft
  <2>1. /\ phase = "starting" /\ phase' = "starting" /\ held' = Append(held, l)
        /\ l \notin Range(held) /\ session' = session
    BY <1>1 DEF Acquire
  <2>2. Range(held') = Range(held) \cup {l} /\ Len(held') = Len(held) + 1
    BY <1>0, <2>1, AppendRange DEF TypeOK
  <2>3. l \in Unleased /\ Unleased' = Unleased \ {l} /\ Unstarted' = Unstarted
    BY <2>1, <2>2 DEF Unleased, Unstarted
  <2>4. Cardinality(Unleased') = Cardinality(Unleased) - 1
    BY <1>0, <2>3, StepsFacts, FS_RemoveElement
  <2> HIDE DEF Limit
  <2> QED BY <1>0, <2>1, <2>2, <2>3, <2>4, StepsFacts DEF StepsLeft
<1>2. ASSUME NEW a \in Agents, StartSession(a) PROVE StepsLeft' < StepsLeft
  <2>1. /\ phase = "starting" /\ phase' \in {"starting", "waiting"}
        /\ held' = held /\ session[a] = "none" /\ fails' = fails
        /\ session' = [session EXCEPT ![a] = "live"]
    BY <1>2 DEF StartSession, loop
  <2>2. a \in Unstarted /\ Unleased' = Unleased /\ Unstarted' = Unstarted \ {a}
    BY <1>0, <2>1 DEF TypeOK, Unleased, Unstarted
  <2>3. Cardinality(Unstarted') = Cardinality(Unstarted) - 1
    BY <1>0, <2>2, StepsFacts, FS_RemoveElement
  <2>4. CASE phase' = "starting"
    <3> HIDE DEF Limit
    <3> QED BY <1>0, <2>1, <2>2, <2>3, <2>4, StepsFacts DEF StepsLeft
  <2>5. CASE phase' = "waiting"
    <3>1. Cardinality(Unstarted) > 0
      BY <1>0, <2>2, StepsFacts, FS_EmptySet
    <3> HIDE DEF Limit
    <3> QED BY <1>0, <2>1, <2>5, <3>1, StepsFacts DEF StepsLeft
  <2> QED BY <2>1, <2>4, <2>5
<1> QED BY <1>1, <1>2 DEF Start

\* Leaving the loop leaves the deferred calls.
LEMMA ReturnSteps ==
    ASSUME RunInv, phase \in {"starting", "waiting"}, phase' = "close", held' = held
    PROVE  StepsLeft' < StepsLeft
<1>1. TypeOK /\ fails <= Limit
  BY DEF RunInv, GivesUpInTime
<1> HIDE DEF Limit
<1> QED BY <1>1, StepsFacts DEF StepsLeft

LEMMA WaitSteps ==
    ASSUME RunInv, RunInv', StartFails \/ Wait \/ BudgetExhausted
    PROVE  /\ StepsLeft' < StepsLeft
           /\ phase = "waiting" /\ phase' = "waiting" =>
                  UNCHANGED <<failures, lost>>
<1>1. /\ phase \in {"starting", "waiting"} /\ held' = held
      /\ phase' = "close" \/ (phase = "waiting" /\ phase' = "waiting" /\ TakeFailure
                              /\ UNCHANGED <<failures, lost>>)
  BY DEF StartFails, Wait, BudgetExhausted, TakePass, TakeFailure, TakeDeath,
     TakeLoss, CountRound, AdvanceCycle, Return
<1>2. CASE phase' = "close"
  BY <1>1, <1>2, ReturnSteps
<1>3. CASE phase = "waiting" /\ phase' = "waiting" /\ TakeFailure
  <2>1. TypeOK /\ fails <= Limit /\ fails' <= Limit /\ Limit \in Nat /\ fails \in Nat
        /\ Len(held) \in Nat
    BY StepsFacts DEF RunInv, GivesUpInTime, Limit
  <2>2. fails' = fails + 1
    BY <1>3, <2>1 DEF TakeFailure
  <2> HIDE DEF Limit
  <2>3. Limit' = Limit
    BY DEF Limit
  <2>4. StepsLeft' = Limit + 2 - fails' + 3 * Len(held')
    BY <1>3, <2>3 DEF StepsLeft
  <2>5. StepsLeft = Limit + 2 - fails + 3 * Len(held)
    BY <1>3 DEF StepsLeft
  <2> QED BY <1>1, <1>3, <2>1, <2>2, <2>4, <2>5
<1> QED BY <1>1, <1>2, <1>3

LEMMA PrefixLength ==
    ASSUME NEW S, NEW q, NEW n \in Nat, \A i \in 1 .. n : q[i] \in S
    PROVE  Len(SubSeq(q, 1, n)) = n
<1>1. Len(SubSeq(q, 1, n)) = IF 1 <= n THEN n - 1 + 1 ELSE 0
  BY SubSeqProperties
<1>2. \A x : x = (IF 1 <= n THEN n - 1 + 1 ELSE 0) => x = n
  OBVIOUS
<1> QED BY <1>1, <1>2, Zenon

LEMMA UnwindSteps ==
    ASSUME RunInv, Unwind
    PROVE  StepsLeft' < StepsLeft /\ phase # "waiting"
<1>0. TypeOK
  BY DEF RunInv
<1> HIDE DEF Limit
<1>1. CASE CloseSession
  BY <1>0, <1>1, StepsFacts DEF CloseSession, StepsLeft
<1>2. CASE StopHeartbeat
  BY <1>0, <1>2, StepsFacts DEF StopHeartbeat, StepsLeft
<1>3. CASE Release
  <2>1. Len(held) > 0 /\ Len(held) \in Nat
    BY <1>0, <1>3, StepsFacts DEF Release
  <2>2. Len(SubSeq(held, 1, Len(held) - 1)) = Len(held) - 1
    <3>1. held \in Seq(Leases)
      BY <1>0 DEF TypeOK
    <3>2. Len(held) - 1 \in Nat /\ \A i \in 1 .. Len(held) - 1 : held[i] \in Leases
      BY <2>1, <3>1, ElementOfSeq
    <3> QED BY <3>2, PrefixLength, Zenon
  <2> QED BY <1>3, <2>1, <2>2 DEF Release, StepsLeft
<1>4. CASE Returned
  BY <1>0, <1>4, StepsFacts DEF Returned, StepsLeft
<1> QED BY <1>1, <1>2, <1>3, <1>4 DEF Unwind

\* The others neither give Run more to do nor empty its channels.
LEMMA OthersSteps ==
    ASSUME RunInv,
           \/ Broadcast \/ OnVerdict
           \/ \E a \in Agents : Session(a)
           \/ \E l \in Leases : Fenced(l)
    PROVE  /\ StepsLeft' = StepsLeft /\ UNCHANGED <<phase, held, fails>>
           /\ failures # <<>> => failures' # <<>>
           /\ lost # <<>> => lost' # <<>>
<1>0. TypeOK
  BY DEF RunInv
<1>1. UNCHANGED <<phase, held, fails>>
  BY DEF Broadcast, OnVerdict, Session, SessionDies, SessionFinishes, Fenced, loop
<1>2. /\ failures # <<>> => failures' # <<>>
      /\ lost # <<>> => lost' # <<>>
  <2>1. \A S : \A c \in Seq(S), x \in S, n \in Nat : c # <<>> => Offer(c, x, n) # <<>>
    BY DEF Offer
  <2>2. Cardinality(Agents) + 1 \in Nat /\ 1 + Cardinality(Agents) \in Nat
    BY Counts
  <2>3. failures' = failures \/ \E a \in Agents : failures' = Forward(a)
    BY DEF Broadcast, OnVerdict, Session, SessionDies, SessionFinishes, Fenced, chans
  <2>4. lost' = lost \/ \E l \in Leases : lost' = Report(l)
    BY DEF Broadcast, OnVerdict, Session, SessionDies, SessionFinishes, Fenced, chans
  <2> QED BY <1>0, <2>1, <2>2, <2>3, <2>4 DEF Forward, Report, TypeOK
<1>3. Unleased' = Unleased /\ Unstarted' = Unstarted
  <2>1. \A b \in Agents : session'[b] = "none" <=> session[b] = "none"
    BY <1>0 DEF Broadcast, OnVerdict, Session, SessionDies, SessionFinishes, Fenced,
       TypeOK
  <2> QED BY <1>1, <2>1 DEF Unleased, Unstarted
<1>4. StepsLeft' = StepsLeft
  BY <1>1, <1>3 DEF StepsLeft, Limit
<1> QED BY <1>1, <1>2, <1>4

\* Run's goroutine takes a bounded number of steps, for any number of agents
\* and any cap (run.go:65, 362): with TroubleEndsTheRun's fairness it returns.
THEOREM RunEnds == Spec => [](StepsLeft \in Nat) /\ RunIsBounded
<1> DEFINE Own == Start \/ StartFails \/ Wait \/ BudgetExhausted \/ Unwind
           Bounded ==
               /\ StepsLeft' <= StepsLeft
               /\ Own => StepsLeft' < StepsLeft
               /\ phase = "waiting" /\ phase' = "waiting" =>
                      /\ failures # <<>> => failures' # <<>>
                      /\ lost # <<>> => lost' # <<>>
<1>1. RunInv /\ RunInv' /\ [Next]_vars => [Bounded]_vars
  <2> SUFFICES ASSUME RunInv, RunInv', Next PROVE Bounded
    OBVIOUS
  <2>0. StepsLeft \in Nat /\ StepsLeft' \in Nat
    <3>1. StepsLeft \in Nat
      BY StepsAreNat
    <3>2. (StepsLeft \in Nat)'
      BY StepsStayNat, Zenon
    <3> QED BY <3>1, <3>2
  <2> HIDE DEF StepsLeft
  <2>1. CASE Start
    <3>1. StepsLeft' < StepsLeft
      BY <2>1, StartSteps DEF RunInv
    <3>2. phase = "starting"
      BY <2>1 DEF Start, Acquire, StartSession
    <3> QED BY <2>0, <3>1, <3>2
  <2>2. CASE StartFails \/ Wait \/ BudgetExhausted
    BY <2>0, <2>2, WaitSteps
  <2>3. CASE Unwind
    BY <2>0, <2>3, UnwindSteps
  <2>4. CASE ~Own
    <3>1. \/ Broadcast \/ OnVerdict
          \/ \E a \in Agents : Session(a)
          \/ \E l \in Leases : Fenced(l)
      BY <2>4 DEF Next
    <3> QED BY <2>0, <2>4, <3>1, OthersSteps
  <2> QED BY <2>1, <2>2, <2>3, <2>4
<1> QED BY <1>1, StepsAreNat, InvCorrect, PTL DEF Spec, RunIsBounded
=============================================================================
