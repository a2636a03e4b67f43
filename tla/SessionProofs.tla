---------------------------- MODULE SessionProofs ----------------------------
(***************************************************************************)
(* The session keeps its type, and implements the contract Turns: messages *)
(* are acted on in the order they were accepted, none cuts a turn short,   *)
(* and no action starts once the session was ended.  For any number of     *)
(* callers and messages, any scripts and any capacity of the channels.     *)
(***************************************************************************)
EXTENDS Session, SequenceTheorems, FiniteSetTheorems, FunctionTheorems, TLAPS

(***************************************************************************)
(* Lemmas about the operators.                                             *)
(***************************************************************************)

\* What is queued has a script; what is not a turn is not queued.
LEMMA TurnFacts ==
    /\ \A q \in Queueable \cup {Initial} : q.acts \in Seq(Actions) /\ q # NoTurn
    /\ \A q \in Queueable : q.kind \in Verbs /\ q.text \in Texts /\ q.acts \in OnSteer \cup OnFollow
    /\ NoTurn \notin Queueable \cup {Initial}
BY ScriptsAssumption DEF Queueable, Initial, NoTurn, Turn, Verbs

\* A count set to a number is a count.
LEMMA CountsExcept ==
    ASSUME NEW f \in Counts, NEW k \in Verbs, NEW n \in Nat
    PROVE  [f EXCEPT ![k] = n] \in Counts
BY DEF Counts

LEMMA NoneQueuedType == NoneQueued \in Counts
BY DEF NoneQueued, Counts

\* An event is appended if there is room, or dropped.
LEMMA EmitFacts ==
    ASSUME SessionTypeOK, NEW e \in Kinds, Emit(e)
    PROVE  events' \in Seq(Kinds) /\ Len(events') <= EventCap
<1>1. events \in Seq(Kinds) /\ Len(events) \in Nat /\ Len(events) <= EventCap
      /\ EventCap \in Nat
  BY CapAssumption DEF SessionTypeOK
<1>2. CASE events' = events
  BY <1>1, <1>2
<1>3. CASE Len(events) < EventCap /\ events' = Append(events, e)
  <2>1. events' \in Seq(Kinds) /\ Len(events') = Len(events) + 1
    BY <1>1, <1>3
  <2> QED BY <1>1, <1>3, <2>1
<1> QED BY <1>2, <1>3 DEF Emit

LEMMA ReceiptFacts ==
    ASSUME SessionTypeOK, NEW g \in Callers \cup {Loop}, EmitReceipt(g)
    PROVE  /\ events' \in Seq(Kinds) /\ Len(events') <= EventCap
           /\ told' \in Counts
           /\ snap' \in [Callers \cup {Loop} -> Counts]
<1>1. Emit("event") /\ "event" \in Kinds
  BY DEF EmitReceipt, Kinds
<1>2. NoneQueued \in Counts
  BY DEF NoneQueued, Counts
<1>3. told' \in Counts /\ snap' \in [Callers \cup {Loop} -> Counts]
  BY <1>2 DEF EmitReceipt, SessionTypeOK
<1> QED BY <1>1, <1>3, EmitFacts

(***************************************************************************)
(* The invariant.                                                          *)
(***************************************************************************)

LEMMA SessionInvInit == SessionInit => SessionInv
<1> SUFFICES ASSUME SessionInit
             PROVE  SessionInv
  OBVIOUS
<1>1. NoneQueued \in Counts
  BY DEF NoneQueued, Counts
<1>2. work \in Seq(Queueable \cup {Initial}) /\ Len(work) <= WorkCap
  <2>1. Initial \in Queueable \cup {Initial}
    OBVIOUS
  <2>2. work = <<Initial>>
    BY DEF SessionInit
  <2> QED BY <2>1, <2>2, CapAssumption
<1>3. events \in Seq(Kinds) /\ Len(events) <= EventCap
  BY CapAssumption DEF SessionInit
<1>4. snap \in [Callers \cup {Loop} -> Counts]
  BY <1>1 DEF SessionInit
<1>5. todo \in Seq(Actions)
  BY DEF SessionInit
<1>6. SessionTypeOK
  BY <1>1, <1>2, <1>3, <1>4, <1>5 DEF SessionInit, SessionTypeOK, Labels, ending, closing
<1> QED BY <1>6 DEF SessionInit, SessionInv, InTurn, InAction

\* The part of the invariant about the loop.
LEMMA SessionInvStep == SessionInv /\ [SessionNext]_sessionVars => SessionInv'
<1> SUFFICES ASSUME SessionInv, [SessionNext]_sessionVars
             PROVE  SessionInv'
  OBVIOUS
<1> USE DEF ending, closing, loop, call, counts
<1>0. SessionTypeOK
  BY DEF SessionInv
<1>1. ASSUME NEW c \in Callers, NEW k \in Verbs, NEW t \in Texts, Call(c, k, t)
      PROVE  SessionInv'
  <2>1. PICK acts \in OnSteer \cup OnFollow : offer' = [offer EXCEPT ![c] = Turn(t, k, acts)]
    BY <1>1 DEF Call, Hook
  <2>2. Turn(t, k, acts) \in Queueable
    BY DEF Turn, Queueable
  <2>3. pending' \in Counts
    BY <1>1 DEF Call, SessionTypeOK, SessionInv, Counts
  <2>4. snap' \in [Callers \cup {Loop} -> Counts]
    BY <1>1, <2>3, <1>0 DEF Call, SessionTypeOK
  <2>5. /\ offer' \in [Callers -> Queueable \cup {NoTurn}]
        /\ calling' \in [Callers -> {"idle", "receipt", "offer"}]
        /\ \A d \in Callers : calling'[d] # "idle" => offer'[d] \in Queueable
    BY <1>1, <1>0, <2>1, <2>2 DEF Call, SessionTypeOK, SessionInv
  <2>6. SessionTypeOK'
    BY <1>1, <1>0, <2>3, <2>4, <2>5 DEF Call, SessionTypeOK
  <2> QED BY <1>1, <2>5, <2>6 DEF Call, SessionInv, InAction
<1>2. ASSUME NEW c \in Callers, Receipt(c)
      PROVE  SessionInv'
  <2>1. /\ events' \in Seq(Kinds) /\ Len(events') <= EventCap
        /\ told' \in Counts /\ snap' \in [Callers \cup {Loop} -> Counts]
    BY <1>0, <1>2, ReceiptFacts DEF Receipt
  <2>2. /\ calling' \in [Callers -> {"idle", "receipt", "offer"}]
        /\ \A d \in Callers : calling'[d] # "idle" => offer'[d] \in Queueable
    BY <1>2, <1>0 DEF Receipt, SessionTypeOK, SessionInv
  <2>3. SessionTypeOK'
    BY <1>2, <1>0, <2>1, <2>2 DEF Receipt, SessionTypeOK
  <2> QED BY <1>2, <2>2, <2>3 DEF Receipt, SessionInv, InAction
<1>3. ASSUME NEW c \in Callers, Return(c),
             work' \in Seq(Queueable \cup {Initial}), Len(work') <= WorkCap,
             leaked' \in Counts
      PROVE  SessionInv'
  <2>1. /\ offer' \in [Callers -> Queueable \cup {NoTurn}]
        /\ calling' \in [Callers -> {"idle", "receipt", "offer"}]
        /\ \A d \in Callers : calling'[d] # "idle" => offer'[d] \in Queueable
    BY <1>3, <1>0 DEF Return, SessionTypeOK, SessionInv
  <2>2. SessionTypeOK'
    BY <1>3, <1>0, <2>1 DEF Return, SessionTypeOK
  <2> QED BY <1>3, <2>1, <2>2 DEF Return, SessionInv, InAction
<1>4. ASSUME NEW c \in Callers, Accepted(c)
      PROVE  SessionInv'
  <2>1. offer[c] \in Queueable \cup {Initial}
    BY <1>4 DEF Accepted, SessionInv, InAction
  <2>2. /\ work \in Seq(Queueable \cup {Initial}) /\ Len(work) < WorkCap
        /\ work' = Append(work, offer[c]) /\ leaked' \in Counts
    BY <1>4, <1>0 DEF Accepted, SessionTypeOK
  <2>3. work' \in Seq(Queueable \cup {Initial}) /\ Len(work') <= WorkCap
    <3> DEFINE Work == Queueable \cup {Initial}
    <3>1. work \in Seq(Work) /\ offer[c] \in Work
      BY <2>1, <2>2
    <3> HIDE DEF Work
    <3>2. Append(work, offer[c]) \in Seq(Work) /\ Len(Append(work, offer[c])) = Len(work) + 1
          /\ Len(work) \in Nat
      BY <3>1
    <3> QED BY <3>2, <2>2, CapAssumption DEF Work
  <2> QED BY <1>3, <1>4, <2>2, <2>3 DEF Accepted
<1>5. ASSUME NEW c \in Callers, Refused(c)
      PROVE  SessionInv'
  <2>1. leaked' \in Counts
    <3>1. offer[c].kind \in Verbs
      BY <1>5, TurnFacts DEF Refused, SessionInv, InAction
    <3>2. leaked \in Counts /\ leaked[offer[c].kind] + 1 \in Nat
      BY <1>0, <3>1 DEF SessionTypeOK, Counts
    <3> QED BY <1>5, <3>1, <3>2, CountsExcept DEF Refused
  <2>2. work' \in Seq(Queueable \cup {Initial}) /\ Len(work') <= WorkCap
    BY <1>5, <1>0 DEF Refused, SessionTypeOK
  <2> QED BY <1>3, <1>5, <2>1, <2>2 DEF Refused
<1>6. ASSUME NEW c \in Callers, Cancel(c)
      PROVE  SessionInv'
  <2>1. SessionTypeOK'
    BY <1>6, <1>0 DEF Cancel, SessionTypeOK
  <2> QED BY <1>6, <2>1 DEF Cancel, SessionInv, InAction
<1>7. CASE Interrupt
  <2>1. SessionTypeOK'
    BY <1>7, <1>0 DEF Interrupt, SessionTypeOK
  <2> QED BY <1>7, <2>1 DEF Interrupt, SessionInv, InAction
<1>8. CASE CloseDone
  <2>1. SessionTypeOK'
    BY <1>8, <1>0, NoneQueuedType DEF CloseDone, SessionTypeOK
  <2> QED BY <1>8, <2>1 DEF CloseDone, SessionInv, InAction
<1>9. CASE Read
  <2>1. events' \in Seq(Kinds) /\ Len(events') <= EventCap
    <3>1. events \in Seq(Kinds) /\ Len(events) <= EventCap /\ events # <<>>
          /\ events' = Tail(events) /\ EventCap \in Nat
      BY <1>9, <1>0, CapAssumption DEF Read, SessionTypeOK
    <3>2. events' \in Seq(Kinds) /\ Len(events') = Len(events) - 1
      BY <3>1
    <3> QED BY <3>1, <3>2
  <2>2. SessionTypeOK'
    BY <1>9, <1>0, <2>1 DEF Read, SessionTypeOK
  <2> QED BY <1>9, <2>2 DEF Read, SessionInv, InAction
<1>10. ASSUME NEW label \in Labels, NEW next \in Labels, Say(label, next),
              label \in InTurn <=> next \in InTurn,
              label \notin {"final", "close", "stop", "off"},
              next \notin {"run", "held", "drain", "final", "close", "stop", "off"}
       PROVE  SessionInv'
  <2>1. events' \in Seq(Kinds) /\ Len(events') <= EventCap
    BY <1>0, <1>10, EmitFacts DEF Say, Kinds
  <2>2. SessionTypeOK'
    BY <1>10, <1>0, <2>1 DEF Say, SessionTypeOK
  <2> QED BY <1>10, <2>2 DEF Say, SessionInv, InAction
<1>11. CASE \/ Say("started", "select") \/ Say("began", "next") \/ Say("tool", "next")
            \/ Say("ended", "idle") \/ Say("idle", "select")
  BY <1>10, <1>11 DEF InTurn, Labels
<1>12. CASE TakeWork
  <2>1. /\ work \in Seq(Queueable \cup {Initial}) /\ work # <<>> /\ Len(work) <= WorkCap
        /\ WorkCap \in Nat
    BY <1>12, <1>0, CapAssumption DEF TakeWork, SessionTypeOK
  <2>2. /\ Head(work) \in Queueable \cup {Initial}
        /\ Tail(work) \in Seq(Queueable \cup {Initial})
        /\ Len(Tail(work)) <= WorkCap
    <3> DEFINE Work == Queueable \cup {Initial}
    <3>1. work \in Seq(Work) /\ work # <<>>
      BY <2>1
    <3> HIDE DEF Work
    <3>2. Head(work) \in Work /\ Tail(work) \in Seq(Work) /\ Len(Tail(work)) = Len(work) - 1
          /\ Len(work) \in Nat
      BY <3>1
    <3> QED BY <3>2, <2>1 DEF Work
  <2>3. turn' # NoTurn /\ todo' \in Seq(Actions)
    BY <1>12, <2>2, TurnFacts DEF TakeWork
  <2>4. SessionTypeOK'
    BY <1>12, <1>0, <2>2, <2>3 DEF TakeWork, SessionTypeOK, Labels
  <2> QED BY <1>12, <2>3, <2>4 DEF TakeWork, SessionInv, InTurn, InAction
<1>13. CASE SeeDone
  <2>1. SessionTypeOK'
    BY <1>13, <1>0 DEF SeeDone, SessionTypeOK, Labels
  <2> QED BY <1>13, <2>1 DEF SeeDone, SessionInv, InTurn, InAction
<1>14. CASE NextAction
  <2>1. SessionTypeOK'
    BY <1>14, <1>0 DEF NextAction, SessionTypeOK, Labels
  <2> QED BY <1>14, <2>1 DEF NextAction, SessionInv, InTurn, InAction
<1>15. ASSUME NEW a \in Actions, Run(a)
       PROVE  SessionInv'
  <2>1. todo' \in Seq(Actions)
    BY <1>15, <1>0 DEF Run, SessionTypeOK, SessionInv, InAction
  <2>2. SessionTypeOK'
    BY <1>15, <1>0, <2>1 DEF Run, SessionTypeOK, Labels
  <2> QED BY <1>15, <2>2 DEF Run, SessionInv, InTurn, InAction
<1>16. CASE Run("tool") \/ ExecEnds
  BY <1>15, <1>16 DEF ExecEnds, Actions
<1>23. CASE Kill
  <2>1. SessionTypeOK'
    BY <1>23, <1>0 DEF Kill, SessionTypeOK, Labels
  <2> QED BY <1>23, <2>1 DEF Kill, SessionInv, InTurn, InAction
<1>24. CASE OutputReleased
  <2>1. todo' \in Seq(Actions)
    BY <1>24, <1>0 DEF OutputReleased, SessionTypeOK, SessionInv, InAction
  <2>2. SessionTypeOK'
    BY <1>24, <1>0, <2>1 DEF OutputReleased, SessionTypeOK, Labels
  <2> QED BY <1>24, <2>2 DEF OutputReleased, SessionInv, InTurn, InAction
<1>17. CASE RunExit
  <2>1. todo' \in Seq(Actions)
    BY <1>17, <1>0 DEF RunExit, SessionTypeOK, SessionInv, InAction
  <2>2. SessionTypeOK'
    BY <1>17, <1>0, <2>1, NoneQueuedType DEF RunExit, SessionTypeOK, Labels
  <2> QED BY <1>17, <2>2 DEF RunExit, SessionInv, InTurn, InAction
<1>18. CASE Drain
  <2>1. turn \in Queueable \cup {Initial}
    BY <1>18, <1>0 DEF Drain, SessionInv, SessionTypeOK, InTurn
  <2>2. /\ pending' \in Counts /\ snap' \in [Callers \cup {Loop} -> Counts]
        /\ at' \in {"ended", "drained"}
    <3>1. CASE turn.kind = "initial"
      BY <1>18, <1>0, <3>1 DEF Drain, SessionTypeOK
    <3>2. CASE turn.kind # "initial"
      <4>1. turn.kind \in Verbs
        BY <2>1, <3>2, TurnFacts DEF Initial, Turn
      <4>2. pending' \in Counts
        <5> DEFINE n == IF pending[turn.kind] > 0 THEN pending[turn.kind] - 1 ELSE 0
        <5>1. pending \in Counts /\ n \in Nat
          BY <1>0, <4>1 DEF SessionTypeOK, Counts
        <5>2. pending' = [pending EXCEPT ![turn.kind] = n]
          BY <1>18, <3>2 DEF Drain
        <5> HIDE DEF n
        <5> QED BY <4>1, <5>1, <5>2, CountsExcept
      <4> QED BY <1>18, <1>0, <3>2, <4>2 DEF Drain, SessionTypeOK
    <3> QED BY <3>1, <3>2
  <2>3. SessionTypeOK'
    <3>1. <<>> \in Seq(Actions)
      OBVIOUS
    <3> QED BY <1>18, <1>0, <2>2, <3>1 DEF Drain, SessionTypeOK, Labels
  <2> QED BY <1>18, <2>2, <2>3 DEF Drain, SessionInv, InTurn, InAction
<1>19. CASE ReportDrained
  <2>1. /\ events' \in Seq(Kinds) /\ Len(events') <= EventCap
        /\ told' \in Counts /\ snap' \in [Callers \cup {Loop} -> Counts]
    BY <1>0, <1>19, ReceiptFacts DEF ReportDrained
  <2>2. SessionTypeOK'
    BY <1>19, <1>0, <2>1 DEF ReportDrained, SessionTypeOK, Labels
  <2> QED BY <1>19, <2>2 DEF ReportDrained, SessionInv, InTurn, InAction
<1>20. CASE Farewell
  <2>1. events' \in Seq(Kinds) /\ Len(events') <= EventCap
    <3>1. events \in Seq(Kinds) /\ Len(events) \in Nat /\ Len(events) <= EventCap
          /\ "exited" \in Kinds /\ EventCap \in Nat
      BY <1>0, CapAssumption DEF SessionTypeOK, Kinds
    <3>2. CASE Len(events) < EventCap /\ events' = Append(events, "exited")
      <4>1. events' \in Seq(Kinds) /\ Len(events') = Len(events) + 1
        BY <3>1, <3>2
      <4> QED BY <3>1, <3>2, <4>1
    <3> QED BY <1>20, <3>1, <3>2 DEF Farewell
  <2>2. SessionTypeOK'
    BY <1>20, <1>0, <2>1 DEF Farewell, SessionTypeOK, Labels
  <2> QED BY <1>20, <2>2 DEF Farewell, SessionInv, InTurn, InAction
<1>21. CASE CloseEvents \/ Stop
  <2>1. SessionTypeOK'
    BY <1>21, <1>0 DEF CloseEvents, Stop, SessionTypeOK, Labels
  <2> QED BY <1>21, <2>1 DEF CloseEvents, Stop, SessionInv, InTurn, InAction
<1>22. CASE UNCHANGED sessionVars
  <2>1. SessionTypeOK'
    BY <1>22, <1>0 DEF sessionVars, SessionTypeOK
  <2> QED BY <1>22, <2>1 DEF sessionVars, SessionInv, InAction
<1> QED
  BY <1>1, <1>2, <1>4, <1>5, <1>6, <1>7, <1>8, <1>9, <1>11, <1>12, <1>13, <1>14,
     <1>16, <1>17, <1>18, <1>19, <1>20, <1>21, <1>22, <1>23, <1>24
     DEF SessionNext, SessionStep, LoopStep, CallStep

\* A session keeps its type, and its turns and its labels agree (fake.go:193).
THEOREM SessionInvCorrect == SessionSpec => []SessionInv
<1> QED BY SessionInvInit, SessionInvStep, PTL DEF SessionSpec

(***************************************************************************)
(* The session implements the contract.                                    *)
(***************************************************************************)

LEMMA ContractInit == SessionInit => Contract!Init
<1> SUFFICES ASSUME SessionInit
             PROVE  Contract!Init
  OBVIOUS
<1>1. Initial \in Queueable \cup {Initial} /\ work = <<Initial>>
  BY DEF SessionInit
<1> QED BY <1>1 DEF SessionInit, InAction, Contract!Init

\* The contract's steps are acceptance, the taking of a turn, the start and
\* the end of an action, the end of a turn and of the session; whatever else
\* the session does it does not see.
LEMMA ContractStep ==
    SessionInv /\ [SessionNext]_sessionVars => [Contract!Next]_(Contract!vars)
<1> SUFFICES ASSUME SessionInv, [SessionNext]_sessionVars
             PROVE  Contract!Next \/ UNCHANGED Contract!vars
  OBVIOUS
<1> USE DEF ending, closing, loop, call, counts
<1>1. ASSUME UNCHANGED <<work, turn, todo, cancelled, stopped>>,
             at \in InAction <=> at' \in InAction
      PROVE  UNCHANGED Contract!vars
  BY <1>1 DEF Contract!vars
<1>2. ASSUME NEW c \in Callers, Accepted(c)
      PROVE  Contract!Next
  <2>1. offer[c] \in Queueable \cup {Initial} /\ work' = Append(work, offer[c])
    BY <1>2 DEF Accepted, SessionInv
  <2>2. Contract!Accept
    BY <1>2, <2>1 DEF Accepted, Return, Contract!Accept
  <2> QED BY <2>2 DEF Contract!Next
<1>3. CASE TakeWork
  <2>1. turn = NoTurn /\ ~stopped
    BY <1>3 DEF TakeWork, SessionInv, InTurn
  <2>2. Contract!Begin
    BY <1>3, <2>1 DEF TakeWork, InAction, Contract!Begin
  <2> QED BY <2>2 DEF Contract!Next
<1>4. CASE NextAction
  <2>1. turn # NoTurn /\ ~stopped
    BY <1>4 DEF NextAction, SessionInv, InTurn
  <2>2. CASE todo = <<>> \/ cancelled
    BY <1>1, <1>4, <2>2 DEF NextAction, InAction
  <2>3. CASE todo # <<>> /\ ~cancelled
    <3>1. Contract!StartAction
      BY <1>4, <2>1, <2>3 DEF NextAction, InAction, Contract!StartAction
    <3> QED BY <3>1 DEF Contract!Next
  <2> QED BY <2>2, <2>3
<1>5. ASSUME NEW a \in Actions, Run(a)
      PROVE  Contract!Next
  <2>1. Contract!FinishAction
    BY <1>5 DEF Run, InAction, Contract!FinishAction
  <2> QED BY <2>1 DEF Contract!Next
<1>6. CASE RunExit
  <2>1. ~stopped /\ stopped' = stopped
    BY <1>6 DEF RunExit, SessionInv
  <2>2. Contract!FinishAction
    BY <1>6, <2>1 DEF RunExit, InAction, Contract!FinishAction
  <2> QED BY <2>2 DEF Contract!Next
<1>7. CASE Drain
  <2>1. turn # NoTurn /\ ~stopped /\ (todo = <<>> \/ cancelled)
    BY <1>7 DEF Drain, SessionInv, InTurn
  <2>2. at \notin InAction /\ at' \notin InAction
    BY <1>7 DEF Drain, InAction
  <2>3. Contract!Finish
    BY <1>7, <2>1, <2>2 DEF Drain, Contract!Finish
  <2> QED BY <2>3 DEF Contract!Next
<1>8. CASE Interrupt
  <2>1. ~stopped
    BY <1>8 DEF Interrupt, SessionInv
  <2>2. Contract!End
    BY <1>8, <2>1 DEF Interrupt, Contract!End
  <2> QED BY <2>2 DEF Contract!Next
<1>9. CASE Stop
  <2>1. cancelled /\ ~stopped /\ turn = NoTurn
    BY <1>9 DEF Stop, SessionInv, InTurn
  <2>2. Contract!Stop
    BY <1>9, <2>1 DEF Stop, InAction, Contract!Stop
  <2> QED BY <2>2 DEF Contract!Next
<1>10. ASSUME NEW label, NEW next, Say(label, next),
              label \notin InAction, next \notin InAction
       PROVE  UNCHANGED Contract!vars
  BY <1>1, <1>10 DEF Say
<1>11. CASE \/ Say("started", "select") \/ Say("began", "next") \/ Say("tool", "next")
            \/ Say("ended", "idle") \/ Say("idle", "select")
  BY <1>10, <1>11 DEF InAction
<1>12. CASE Kill \/ SeeDone \/ ReportDrained \/ Farewell \/ CloseEvents
  BY <1>1, <1>12 DEF InAction, Kill, SeeDone, ReportDrained, Farewell, CloseEvents
<1>13. CASE CloseDone \/ Read
  BY <1>1, <1>13 DEF CloseDone, Read
<1>14. ASSUME NEW c \in Callers, Receipt(c) \/ Refused(c) \/ Cancel(c)
       PROVE  UNCHANGED Contract!vars
  BY <1>1, <1>14 DEF Receipt, Refused, Return, Cancel
<1>15. ASSUME NEW c \in Callers, NEW k \in Verbs, NEW t \in Texts, Call(c, k, t)
       PROVE  UNCHANGED Contract!vars
  BY <1>1, <1>15 DEF Call
<1>16. CASE UNCHANGED sessionVars
  BY <1>1, <1>16 DEF sessionVars
<1>17. CASE Run("tool") \/ ExecEnds
  BY <1>5, <1>17 DEF ExecEnds, Actions
<1>18. CASE OutputReleased
  <2>1. Contract!FinishAction
    BY <1>18 DEF OutputReleased, InAction, Contract!FinishAction
  <2> QED BY <2>1 DEF Contract!Next
<1> QED
  BY <1>2, <1>3, <1>4, <1>6, <1>7, <1>8, <1>9, <1>11, <1>12, <1>13, <1>14, <1>15,
     <1>16, <1>17, <1>18
     DEF SessionNext, SessionStep, LoopStep, CallStep

\* Whoever calls it, a session acts on the messages it accepted in their order,
\* cuts no turn short for another, and starts no action once it was ended
\* (runtime.go:48).
THEOREM SessionRefines == SessionSpec => ImplementsTurns
<1> QED
  BY ContractInit, ContractStep, SessionInvCorrect, PTL
     DEF SessionSpec, ImplementsTurns, Contract!Spec

(***************************************************************************)
(* The end of a session is announced.                                      *)
(***************************************************************************)

\* An announcement survives what is emitted after it, and is read if it is
\* taken from the channel.
LEMMA AnnouncedKept ==
    ASSUME events \in Seq(Kinds), Announced, UNCHANGED farewell,
           UNCHANGED events \/ \E e \in Kinds : Emit(e)
    PROVE  Announced'
<1>1. CASE UNCHANGED events
  BY <1>1 DEF Announced
<1>2. ASSUME NEW e \in Kinds, events' = Append(events, e)
      PROVE  Announced'
  <2>1. \A i \in DOMAIN events : i \in DOMAIN events' /\ events'[i] = events[i]
    BY <1>2
  <2> QED BY <2>1 DEF Announced
<1> QED BY <1>1, <1>2 DEF Emit

LEMMA AnnouncedRead ==
    ASSUME events \in Seq(Kinds), Announced, Read
    PROVE  Announced'
<1>1. events # <<>> /\ events' = Tail(events)
  BY DEF Read
<1>2. CASE Head(events) = "exited" \/ farewell # "said"
  BY <1>2 DEF Announced, Read
<1>3. CASE Head(events) # "exited" /\ farewell = "said"
  <2>1. PICK i \in DOMAIN events : events[i] = "exited"
    BY <1>3 DEF Announced
  <2>2. i # 1 /\ i \in 1 .. Len(events)
    BY <1>1, <1>3, <2>1
  <2>3. i - 1 \in DOMAIN events' /\ events'[i - 1] = "exited"
    BY <1>1, <2>1, <2>2
  <2> QED BY <1>3, <2>3 DEF Announced, Read
<1> QED BY <1>2, <1>3

\* The loop says farewell on its way to the end, once.
LEMMA EndInvStep == SessionInv /\ EndInv /\ [SessionNext]_sessionVars => EndInv'
<1> SUFFICES ASSUME SessionInv, EndInv, [SessionNext]_sessionVars
             PROVE  EndInv'
  OBVIOUS
<1> USE DEF ending, closing, loop, call, counts
<1>0. events \in Seq(Kinds)
  BY DEF SessionInv, SessionTypeOK
<1>1. ASSUME UNCHANGED <<farewell, evClosed>>,
             UNCHANGED events \/ \E e \in Kinds : Emit(e),
             at' # at => {at, at'} \cap {"close", "stop", "off"} = {}
      PROVE  EndInv'
  <2>1. at' \in {"close", "stop", "off"} => at' = at
    BY <1>1
  <2> QED BY <1>0, <1>1, <2>1, AnnouncedKept DEF EndInv
<1>2. ASSUME NEW label, NEW next, Say(label, next),
             {label, next} \cap {"close", "stop", "off"} = {}
      PROVE  EndInv'
  BY <1>1, <1>2 DEF Say, Kinds
<1>3. CASE \/ Say("started", "select") \/ Say("began", "next") \/ Say("tool", "next")
           \/ Say("ended", "idle") \/ Say("idle", "select")
  BY <1>2, <1>3
<1>4. CASE TakeWork \/ SeeDone \/ NextAction \/ Run("tool") \/ Kill \/ ExecEnds
           \/ OutputReleased \/ RunExit \/ Drain
  BY <1>1, <1>4 DEF TakeWork, SeeDone, NextAction, Run, Kill, ExecEnds,
                        OutputReleased, RunExit, Drain
<1>5. CASE ReportDrained
  BY <1>1, <1>5 DEF ReportDrained, EmitReceipt, Kinds
<1>6. CASE Farewell
  <2>1. CASE Len(events) < EventCap
    <3>1. events' = Append(events, "exited") /\ farewell' = "said"
      BY <1>6, <2>1 DEF Farewell
    <3>2. Len(events) + 1 \in DOMAIN events' /\ events'[Len(events) + 1] = "exited"
      BY <1>0, <3>1
    <3> QED BY <1>6, <3>1, <3>2 DEF Farewell, EndInv, Announced
  <2>2. CASE ~(Len(events) < EventCap)
    BY <1>6, <2>2 DEF Farewell, EndInv, Announced
  <2> QED BY <2>1, <2>2
<1>7. CASE CloseEvents \/ Stop
  BY <1>7 DEF CloseEvents, Stop, EndInv, Announced
<1>8. CASE Read
  <2>1. UNCHANGED <<at, evClosed>>
    BY <1>8 DEF Read
  <2> QED BY <1>0, <1>8, <2>1, AnnouncedRead DEF EndInv
<1>9. CASE Interrupt \/ CloseDone
  BY <1>1, <1>9 DEF Interrupt, CloseDone
<1>10. ASSUME NEW c \in Callers, CallStep(c) \/ Cancel(c)
       PROVE  EndInv'
  BY <1>1, <1>10
     DEF CallStep, Receipt, Accepted, Refused, Return, Cancel, EmitReceipt, Kinds
<1>11. ASSUME NEW c \in Callers, NEW k \in Verbs, NEW t \in Texts, Call(c, k, t)
       PROVE  EndInv'
  BY <1>1, <1>11 DEF Call
<1>12. CASE UNCHANGED sessionVars
  BY <1>1, <1>12 DEF sessionVars
<1> QED
  BY <1>3, <1>4, <1>5, <1>6, <1>7, <1>8, <1>9, <1>10, <1>11, <1>12
     DEF SessionNext, SessionStep, LoopStep

\* Nobody waits in vain for the exited event unless the channel was full when
\* the session ended, whoever calls it and however it ends (fake.go:316).
THEOREM EndAnnounced == SessionSpec => []EndIsAnnounced
<1>1. SessionInit => EndInv
  BY DEF SessionInit, EndInv
<1>2. EndInv => EndIsAnnounced
  BY DEF EndInv, EndIsAnnounced
<1> QED BY <1>1, <1>2, EndInvStep, SessionInvCorrect, PTL DEF SessionSpec

(***************************************************************************)
(* The receipts settle.                                                    *)
(***************************************************************************)

\* The positions of a sequence at which kind k is found are as many after the
\* first element was taken, less the first.
LEMMA PositionsShift ==
    ASSUME NEW n \in Nat \ {0}, NEW P \in SUBSET (1 .. n), NEW R \in SUBSET (1 .. n - 1),
           \A i \in 1 .. n - 1 : i \in R <=> i + 1 \in P
    PROVE  /\ IsFiniteSet(P) /\ IsFiniteSet(R)
           /\ Cardinality(P) \in Nat /\ Cardinality(R) \in Nat
           /\ Cardinality(P) = Cardinality(R) + (IF 1 \in P THEN 1 ELSE 0)
<1>1. IsFiniteSet(P) /\ IsFiniteSet(R)
  <2>1. IsFiniteSet(1 .. n) /\ IsFiniteSet(1 .. n - 1)
    BY FS_Interval
  <2> QED BY <2>1, FS_Subset
<1> DEFINE later == P \ {1}
           f == [i \in R |-> i + 1]
<1>2. f \in Bijection(R, later)
  <2>1. \A i \in R : f[i] \in later
    BY DEF later
  <2>2. \A i, j \in R : f[i] = f[j] => i = j
    BY DEF f
  <2>3. \A p \in later : \E i \in R : f[i] = p
    <3> SUFFICES ASSUME NEW p \in later
                 PROVE  \E i \in R : f[i] = p
      OBVIOUS
    <3>1. p - 1 \in 1 .. n - 1 /\ (p - 1) + 1 = p
      OBVIOUS
    <3>2. p - 1 \in R
      BY <3>1
    <3> QED BY <3>1, <3>2
  <2> HIDE DEF f, later
  <2>4. f = [i \in R |-> f[i]]
    BY DEF f
  <2> QED BY <2>1, <2>2, <2>3, <2>4 DEF Bijection, Injection, Surjection, IsInjective
<1>3. Cardinality(later) = Cardinality(R)
  <2>1. ExistsBijection(R, later)
    BY <1>2 DEF ExistsBijection
  <2> QED BY <1>1, <2>1, FS_Bijection
<1>4. Cardinality(later) = IF 1 \in P THEN Cardinality(P) - 1 ELSE Cardinality(P)
  BY <1>1, FS_RemoveElement
<1>5. Cardinality(P) \in Nat /\ Cardinality(R) \in Nat
  BY <1>1, FS_CardinalityType
<1> HIDE DEF later
<1> QED BY <1>1, <1>3, <1>4, <1>5

\* What is queued of kind k is counted, ...
LEMMA QueuedFacts ==
    ASSUME SessionTypeOK, NEW k \in Verbs
    PROVE  IsFiniteSet(QueuedOf(k)) /\ Cardinality(QueuedOf(k)) \in Nat
<1>1. Len(work) \in Nat /\ DOMAIN work = 1 .. Len(work)
  BY LenProperties DEF SessionTypeOK
<1>2. IsFiniteSet(1 .. Len(work)) /\ QueuedOf(k) \subseteq 1 .. Len(work)
  BY <1>1, FS_Interval DEF QueuedOf
<1> QED BY <1>2, FS_Subset, FS_CardinalityType

\* ... one more when it is appended, ...
LEMMA QueuedAppended ==
    ASSUME SessionTypeOK, NEW k \in Verbs,
           NEW q \in Queueable, work' = Append(work, q)
    PROVE  Cardinality(QueuedOf(k)') = Cardinality(QueuedOf(k)) + (IF q.kind = k THEN 1 ELSE 0)
<1> DEFINE n == Len(work)
<1>1. work \in Seq(Queueable \cup {Initial}) /\ n \in Nat /\ DOMAIN work = 1 .. n
  BY LenProperties DEF SessionTypeOK
<1>2. /\ DOMAIN work' = 1 .. n + 1 /\ work'[n + 1] = q
      /\ \A i \in 1 .. n : work'[i] = work[i]
  <2>1. q \in Queueable \cup {Initial}
    OBVIOUS
  <2> QED BY <1>1, <2>1, AppendProperties
<1> HIDE DEF n
<1>3. /\ 1 .. n + 1 = 1 .. n \cup {n + 1} /\ n + 1 \notin 1 .. n
  BY <1>1
<1>4. CASE q.kind = k
  <2>1. QueuedOf(k)' = QueuedOf(k) \cup {n + 1} /\ n + 1 \notin QueuedOf(k)
    BY <1>1, <1>2, <1>3, <1>4 DEF QueuedOf
  <2> QED BY <1>4, <2>1, QueuedFacts, FS_AddElement
<1>5. CASE q.kind # k
  <2>1. QueuedOf(k)' = QueuedOf(k)
    BY <1>1, <1>2, <1>3, <1>5 DEF QueuedOf
  <2> QED BY <1>5, <2>1, QueuedFacts
<1> QED BY <1>4, <1>5

\* ... and one less when it is taken.
LEMMA QueuedTaken ==
    ASSUME SessionTypeOK, NEW k \in Verbs, work # <<>>, work' = Tail(work)
    PROVE  /\ Cardinality(QueuedOf(k)') \in Nat
           /\ Cardinality(QueuedOf(k))
                 = Cardinality(QueuedOf(k)') + (IF Head(work).kind = k THEN 1 ELSE 0)
<1> DEFINE n == Len(work)
<1>1. /\ n \in Nat \ {0} /\ DOMAIN work = 1 .. n /\ Head(work) = work[1]
      /\ DOMAIN work' = 1 .. n - 1
      /\ \A i \in 1 .. n - 1 : work'[i] = work[i + 1] /\ i + 1 \in 1 .. n
  <2>1. work \in Seq(Queueable \cup {Initial})
    BY DEF SessionTypeOK
  <2> QED BY <2>1
<1> HIDE DEF n
<1>2. /\ QueuedOf(k) \in SUBSET (1 .. n) /\ QueuedOf(k)' \in SUBSET (1 .. n - 1)
      /\ \A i \in 1 .. n - 1 : i \in QueuedOf(k)' <=> i + 1 \in QueuedOf(k)
      /\ 1 \in QueuedOf(k) <=> Head(work).kind = k
  BY <1>1 DEF QueuedOf
<1> DEFINE P == QueuedOf(k)
           R == QueuedOf(k)'
<1>3. /\ P \in SUBSET (1 .. n) /\ R \in SUBSET (1 .. n - 1)
      /\ \A i \in 1 .. n - 1 : i \in R <=> i + 1 \in P
      /\ 1 \in P <=> Head(work).kind = k
  BY <1>2
<1> HIDE DEF P, R
<1>4. /\ Cardinality(R) \in Nat
      /\ Cardinality(P) = Cardinality(R) + (IF 1 \in P THEN 1 ELSE 0)
  BY <1>1, <1>3, PositionsShift
<1>5. (IF 1 \in P THEN 1 ELSE 0) = IF Head(work).kind = k THEN 1 ELSE 0
  BY <1>3
<1> QED BY <1>4, <1>5 DEF P, R

\* Nothing that is counted moves.
LEMMA CountedKept ==
    ASSUME NEW k \in Verbs, Counted(k),
           UNCHANGED <<pending, leaked, work, turn, OfferedOf(k)>>
    PROVE  Counted(k)'
<1>1. QueuedOf(k)' = QueuedOf(k) /\ BegunOf(k)' = BegunOf(k)
  BY DEF QueuedOf, BegunOf
<1> QED BY <1>1 DEF Counted

LEMMA CountedStep ==
    ASSUME SessionInv, [SessionNext]_sessionVars, NEW k \in Verbs, Counted(k)
    PROVE  Counted(k)'
<1> USE DEF ending, closing, loop, call, counts
<1> DEFINE Q == Cardinality(QueuedOf(k))
           O == Cardinality(OfferedOf(k))
<1>0. SessionTypeOK
  BY DEF SessionInv
<1>1. /\ IsFiniteSet(OfferedOf(k)) /\ Q \in Nat /\ O \in Nat
      /\ pending[k] = leaked[k] + Q + O + BegunOf(k)
      /\ pending[k] \in Nat /\ leaked[k] \in Nat /\ BegunOf(k) \in {0, 1}
  BY <1>0, QueuedFacts, FS_CardinalityType DEF Counted, SessionTypeOK, Counts, BegunOf
<1>2. /\ calling \in [Callers -> {"idle", "receipt", "offer"}]
      /\ offer \in [Callers -> Queueable \cup {NoTurn}]
      /\ pending \in Counts /\ leaked \in Counts
  BY <1>0 DEF SessionTypeOK
<1>3. ASSUME NEW c \in Callers, Return(c), offer[c] \in Queueable, calling[c] # "idle"
      PROVE  /\ IsFiniteSet(OfferedOf(k)') /\ Cardinality(OfferedOf(k)') \in Nat
             /\ O = Cardinality(OfferedOf(k)') + (IF offer[c].kind = k THEN 1 ELSE 0)
  <2>1. OfferedOf(k)' = OfferedOf(k) \ {c}
    BY <1>2, <1>3 DEF Return, OfferedOf
  <2>2. c \in OfferedOf(k) <=> offer[c].kind = k
    BY <1>3 DEF OfferedOf
  <2>3. IsFiniteSet(OfferedOf(k) \ {c}) /\ Cardinality(OfferedOf(k) \ {c}) \in Nat
    BY <1>1, FS_RemoveElement, FS_CardinalityType
  <2>4. Cardinality(OfferedOf(k) \ {c}) = IF c \in OfferedOf(k) THEN O - 1 ELSE O
    BY <1>1, FS_RemoveElement
  <2> HIDE DEF O
  <2> QED BY <1>1, <2>1, <2>2, <2>3, <2>4
<1>4. ASSUME NEW c \in Callers, NEW v \in Verbs, NEW t \in Texts, Call(c, v, t)
      PROVE  Counted(k)'
  <2>1. PICK acts \in OnSteer \cup OnFollow : offer' = [offer EXCEPT ![c] = Turn(t, v, acts)]
    BY <1>4 DEF Call, Hook
  <2>2. /\ OfferedOf(k)' = IF v = k THEN OfferedOf(k) \cup {c} ELSE OfferedOf(k)
        /\ c \notin OfferedOf(k)
    BY <1>2, <1>4, <2>1 DEF Call, OfferedOf, Turn
  <2>3. pending'[k] = pending[k] + (IF v = k THEN 1 ELSE 0)
    BY <1>1, <1>2, <1>4 DEF Call, Counts
  <2>4. /\ IsFiniteSet(OfferedOf(k)')
        /\ Cardinality(OfferedOf(k)') = O + (IF v = k THEN 1 ELSE 0)
    <3>1. CASE v = k
      <4>1. OfferedOf(k)' = OfferedOf(k) \cup {c}
        BY <2>2, <3>1
      <4> QED BY <1>1, <2>2, <3>1, <4>1, FS_AddElement
    <3>2. CASE v # k
      BY <1>1, <2>2, <3>2
    <3> QED BY <3>1, <3>2
  <2>5. QueuedOf(k)' = QueuedOf(k) /\ BegunOf(k)' = BegunOf(k) /\ leaked' = leaked
    BY <1>4 DEF Call, QueuedOf, BegunOf
  <2> QED BY <1>1, <2>3, <2>4, <2>5 DEF Counted
<1>5. ASSUME NEW c \in Callers, Accepted(c)
      PROVE  Counted(k)'
  <2>1. /\ offer[c] \in Queueable /\ calling[c] # "idle" /\ Return(c)
        /\ work' = Append(work, offer[c]) /\ UNCHANGED <<pending, leaked, turn>>
    BY <1>5 DEF Accepted, Return, SessionInv
  <2>2. Cardinality(QueuedOf(k)') = Q + (IF offer[c].kind = k THEN 1 ELSE 0)
    BY <1>0, <2>1, QueuedAppended
  <2>3. BegunOf(k)' = BegunOf(k)
    BY <2>1 DEF BegunOf
  <2>4. /\ IsFiniteSet(OfferedOf(k)') /\ Cardinality(OfferedOf(k)') \in Nat
        /\ O = Cardinality(OfferedOf(k)') + (IF offer[c].kind = k THEN 1 ELSE 0)
    BY <1>3, <2>1
  <2> HIDE DEF Q, O
  <2>5. pending'[k] = leaked'[k] + Cardinality(QueuedOf(k)') + Cardinality(OfferedOf(k)')
                      + BegunOf(k)'
    <3>1. pending'[k] = pending[k] /\ leaked'[k] = leaked[k]
      BY <2>1
    <3>2. CASE offer[c].kind = k
      BY <1>1, <2>2, <2>3, <2>4, <3>1, <3>2
    <3>3. CASE offer[c].kind # k
      BY <1>1, <2>2, <2>3, <2>4, <3>1, <3>3
    <3> QED BY <3>2, <3>3
  <2> QED BY <2>4, <2>5 DEF Counted
<1>6. ASSUME NEW c \in Callers, Refused(c)
      PROVE  Counted(k)'
  <2>1. /\ offer[c] \in Queueable /\ calling[c] # "idle" /\ Return(c)
        /\ leaked' = [leaked EXCEPT ![offer[c].kind] = @ + 1]
        /\ UNCHANGED <<pending, work, turn>>
    BY <1>6 DEF Refused, Return, SessionInv
  <2>2. leaked'[k] = leaked[k] + (IF offer[c].kind = k THEN 1 ELSE 0)
    BY <1>1, <1>2, <2>1 DEF Counts
  <2>3. QueuedOf(k)' = QueuedOf(k) /\ BegunOf(k)' = BegunOf(k)
    BY <2>1 DEF QueuedOf, BegunOf
  <2>4. /\ IsFiniteSet(OfferedOf(k)') /\ Cardinality(OfferedOf(k)') \in Nat
        /\ O = Cardinality(OfferedOf(k)') + (IF offer[c].kind = k THEN 1 ELSE 0)
    BY <1>3, <2>1
  <2>5. Cardinality(QueuedOf(k)') = Q
    BY <2>3
  <2> HIDE DEF Q, O
  <2>6. pending'[k] = leaked'[k] + Cardinality(QueuedOf(k)') + Cardinality(OfferedOf(k)')
                      + BegunOf(k)'
    <3>1. pending'[k] = pending[k]
      BY <2>1
    <3>2. leaked[k] + O = leaked'[k] + Cardinality(OfferedOf(k)')
      <4>1. CASE offer[c].kind = k
        BY <1>1, <2>2, <2>4, <4>1
      <4>2. CASE offer[c].kind # k
        BY <1>1, <2>2, <2>4, <4>2
      <4> QED BY <4>1, <4>2
    <3>3. leaked'[k] \in Nat
      BY <1>1, <2>2
    <3> QED BY <1>1, <2>3, <2>4, <2>5, <3>1, <3>2, <3>3
  <2> QED BY <2>4, <2>6 DEF Counted
<1>7. CASE TakeWork
  <2>1. /\ work # <<>> /\ work' = Tail(work) /\ turn' = Head(work)
        /\ UNCHANGED <<pending, leaked, OfferedOf(k)>>
    BY <1>7 DEF TakeWork, OfferedOf
  <2>2. BegunOf(k) = 0
    BY <1>7 DEF TakeWork, SessionInv, InTurn, BegunOf, NoTurn, Turn, Verbs
  <2>3. BegunOf(k)' = IF Head(work).kind = k THEN 1 ELSE 0
    BY <2>1 DEF BegunOf
  <2>4. /\ Cardinality(QueuedOf(k)') \in Nat
        /\ Q = Cardinality(QueuedOf(k)') + (IF Head(work).kind = k THEN 1 ELSE 0)
    BY <1>0, <2>1, QueuedTaken
  <2>5. Cardinality(OfferedOf(k)') = O /\ IsFiniteSet(OfferedOf(k)')
    BY <1>1, <2>1
  <2> HIDE DEF Q, O
  <2>6. pending'[k] = leaked'[k] + Cardinality(QueuedOf(k)') + Cardinality(OfferedOf(k)')
                      + BegunOf(k)'
    <3>1. pending'[k] = pending[k] /\ leaked'[k] = leaked[k]
      BY <2>1
    <3>2. Q + BegunOf(k) = Cardinality(QueuedOf(k)') + BegunOf(k)'
      <4>1. CASE Head(work).kind = k
        BY <2>2, <2>3, <2>4, <4>1
      <4>2. CASE Head(work).kind # k
        BY <2>2, <2>3, <2>4, <4>2
      <4> QED BY <4>1, <4>2
    <3>3. BegunOf(k)' \in {0, 1}
      BY DEF BegunOf
    <3> QED BY <1>1, <2>4, <2>5, <3>1, <3>2, <3>3
  <2> QED BY <2>5, <2>6 DEF Counted
<1>8. CASE Drain
  <2>1. /\ turn' = NoTurn /\ UNCHANGED <<leaked, work, OfferedOf(k)>>
        /\ pending' = IF turn.kind = "initial" THEN pending
                      ELSE [pending EXCEPT ![turn.kind] = IF @ > 0 THEN @ - 1 ELSE 0]
    BY <1>8 DEF Drain, OfferedOf
  <2>2. BegunOf(k)' = 0
    BY <2>1 DEF BegunOf, NoTurn, Turn, Verbs
  <2>3. pending'[k] = pending[k] - BegunOf(k)
    <3>1. CASE turn.kind = k
      <4>1. turn.kind # "initial" /\ BegunOf(k) = 1 /\ pending[k] > 0
        BY <1>1, <3>1 DEF BegunOf, Verbs
      <4> QED BY <1>2, <2>1, <3>1, <4>1 DEF Counts
    <3>2. CASE turn.kind # k
      BY <1>1, <1>2, <2>1, <3>2 DEF Counts, BegunOf
    <3> QED BY <3>1, <3>2
  <2>4. Cardinality(QueuedOf(k)') = Q /\ Cardinality(OfferedOf(k)') = O
        /\ IsFiniteSet(OfferedOf(k)')
    BY <1>1, <2>1 DEF QueuedOf
  <2> HIDE DEF Q, O
  <2>5. pending'[k] = leaked'[k] + Cardinality(QueuedOf(k)') + Cardinality(OfferedOf(k)')
                      + BegunOf(k)'
    BY <1>1, <2>1, <2>2, <2>3, <2>4
  <2> QED BY <2>4, <2>5 DEF Counted
<1>9. ASSUME NEW c \in Callers, Receipt(c) \/ Cancel(c)
      PROVE  Counted(k)'
  <2>1. OfferedOf(k)' = OfferedOf(k)
    BY <1>2, <1>9 DEF Receipt, Cancel, OfferedOf
  <2> QED BY <1>9, <2>1, CountedKept DEF Receipt, EmitReceipt, Cancel
<1>10. CASE UNCHANGED <<pending, leaked, work, turn, calling, offer>>
  BY <1>10, CountedKept DEF OfferedOf
<1>11. CASE \/ Say("started", "select") \/ Say("began", "next") \/ Say("tool", "next")
            \/ Say("ended", "idle") \/ Say("idle", "select")
  BY <1>10, <1>11 DEF Say
<1>12. CASE SeeDone \/ NextAction \/ Run("tool") \/ Kill \/ ExecEnds
            \/ OutputReleased \/ RunExit \/ ReportDrained \/ Farewell \/ CloseEvents \/ Stop
  BY <1>10, <1>12
     DEF SeeDone, NextAction, Run, Kill, ExecEnds, OutputReleased, RunExit,
         ReportDrained, Farewell,
         CloseEvents, Stop
<1>13. CASE Interrupt \/ CloseDone \/ Read \/ UNCHANGED sessionVars
  BY <1>10, <1>13 DEF Interrupt, CloseDone, Read, sessionVars
<1> QED
  BY <1>4, <1>5, <1>6, <1>7, <1>8, <1>9, <1>11, <1>12, <1>13
     DEF SessionNext, SessionStep, LoopStep, CallStep

LEMMA ReceiptInvInit == SessionInit => ReceiptInv
<1> SUFFICES ASSUME SessionInit
             PROVE  ReceiptInv
  OBVIOUS
<1>1. ASSUME NEW k \in Verbs
      PROVE  Counted(k)
  <2>1. pending[k] = 0 /\ leaked[k] = 0
    BY DEF SessionInit, NoneQueued
  <2>2. QueuedOf(k) = {}
    BY DEF SessionInit, QueuedOf, Initial, Turn, Verbs
  <2>3. OfferedOf(k) = {}
    BY DEF SessionInit, OfferedOf
  <2>4. BegunOf(k) = 0
    BY DEF SessionInit, BegunOf, NoTurn, Turn, Verbs
  <2> QED BY <2>1, <2>2, <2>3, <2>4, FS_EmptySet DEF Counted
<1> QED BY <1>1 DEF SessionInit, ReceiptInv

LEMMA ReceiptInvStep ==
    SessionInv /\ ReceiptInv /\ [SessionNext]_sessionVars => ReceiptInv'
<1> SUFFICES ASSUME SessionInv, ReceiptInv, [SessionNext]_sessionVars
             PROVE  ReceiptInv'
  OBVIOUS
<1> USE DEF ending, closing, loop, call, counts
<1>0. /\ SessionTypeOK /\ pending \in Counts /\ leaked \in Counts /\ told \in Counts
      /\ snap \in [Callers \cup {Loop} -> Counts] /\ Loop \in DOMAIN snap
      /\ SessionTypeOK' /\ pending' \in Counts /\ leaked' \in Counts
  BY SessionInvStep DEF SessionInv, SessionTypeOK
<1>1. \A k \in Verbs : Counted(k)'
  BY CountedStep DEF ReceiptInv
<1>2. ASSUME UNCHANGED <<pending, leaked, told, snap>>, done => done',
             at' = "drained" <=> at = "drained"
      PROVE  ReceiptInv'
  BY <1>1, <1>2 DEF ReceiptInv
<1>3. ASSUME NEW c \in Callers, NEW v \in Verbs, NEW t \in Texts, Call(c, v, t)
      PROVE  ReceiptInv'
  <2>1. /\ pending' = [pending EXCEPT ![v] = @ + 1] /\ snap' = [snap EXCEPT ![c] = pending']
        /\ UNCHANGED <<leaked, told, at, done>>
    BY <1>3 DEF Call
  <2>2. \A k \in Verbs : pending[k] <= pending'[k] /\ pending'[k] \in Nat
                          /\ pending[k] \in Nat /\ snap[Loop][k] \in Nat
    BY <1>0, <2>1 DEF Counts
  <2>3. pending' # NoneQueued
    <3>1. pending'[v] > 0
      BY <1>0, <2>1 DEF Counts
    <3> QED BY <3>1 DEF NoneQueued
  <2>4. snap'[Loop] = snap[Loop] \/ snap'[Loop] = pending'
    BY <1>0, <2>1
  <2>5. at' = "drained" => \A k \in Verbs : snap'[Loop][k] <= pending'[k]
    BY <2>1, <2>2, <2>4 DEF ReceiptInv
  <2> QED BY <1>1, <2>3, <2>5 DEF ReceiptInv
<1>4. ASSUME NEW c \in Callers, Receipt(c)
      PROVE  ReceiptInv'
  <2>1. /\ snap' = [snap EXCEPT ![c] = NoneQueued] /\ calling[c] # "idle"
        /\ UNCHANGED <<pending, leaked, at, done>>
    BY <1>4 DEF Receipt, EmitReceipt
  <2>2. pending # NoneQueued
    <3> DEFINE v == offer[c].kind
    <3>1. v \in Verbs /\ c \in OfferedOf(v)
      BY <2>1, TurnFacts DEF SessionInv, OfferedOf
    <3>2. IsFiniteSet(OfferedOf(v)) /\ Cardinality(OfferedOf(v)) \in Nat
          /\ Cardinality(OfferedOf(v)) # 0
      BY <3>1, FS_CardinalityType, FS_EmptySet DEF ReceiptInv, Counted
    <3>3. pending[v] # 0
      <4>1. /\ Cardinality(QueuedOf(v)) \in Nat /\ leaked[v] \in Nat /\ BegunOf(v) \in {0, 1}
            /\ pending[v] = leaked[v] + Cardinality(QueuedOf(v)) + Cardinality(OfferedOf(v))
                            + BegunOf(v)
        BY <1>0, <3>1, QueuedFacts DEF ReceiptInv, Counted, Counts, BegunOf
      <4> QED BY <3>2, <4>1
    <3> QED BY <3>1, <3>3 DEF NoneQueued
  <2>3. \A k \in Verbs : snap'[Loop][k] = snap[Loop][k] \/ snap'[Loop][k] = 0
    BY <1>0, <2>1 DEF NoneQueued
  <2>4. at' = "drained" => \A k \in Verbs : snap'[Loop][k] <= pending'[k]
    <3>1. \A k \in Verbs : pending[k] \in Nat
      BY <1>0 DEF Counts
    <3> QED BY <2>1, <2>3, <3>1 DEF ReceiptInv
  <2> QED BY <1>1, <2>1, <2>2, <2>4 DEF ReceiptInv
<1>5. ASSUME NEW c \in Callers, Accepted(c) \/ Cancel(c)
      PROVE  ReceiptInv'
  BY <1>2, <1>5 DEF Accepted, Return, Cancel
<1>6. ASSUME NEW c \in Callers, Refused(c)
      PROVE  ReceiptInv'
  <2>1. /\ leaked' = [leaked EXCEPT ![offer[c].kind] = @ + 1]
        /\ UNCHANGED <<pending, snap, told, at, done>> /\ offer[c].kind \in Verbs
    BY <1>6, TurnFacts DEF Refused, Return, SessionInv
  <2>2. leaked' # NoneQueued
    <3> DEFINE v == offer[c].kind
    <3>1. leaked'[v] > 0 /\ v \in Verbs
      BY <1>0, <2>1 DEF Counts
    <3>2. NoneQueued[v] = 0
      BY <3>1 DEF NoneQueued
    <3> QED BY <3>1, <3>2
  <2> QED BY <1>1, <2>1, <2>2 DEF ReceiptInv
<1>7. CASE Drain
  <2>1. CASE turn.kind = "initial"
    <3>1. UNCHANGED <<pending, leaked, told, snap, done>> /\ at = "drain" /\ at' = "ended"
      BY <1>7, <2>1 DEF Drain
    <3> QED BY <1>2, <3>1
  <2>2. CASE turn.kind # "initial"
    <3>1. at' = "drained" /\ snap' = [snap EXCEPT ![Loop] = pending']
      BY <1>7, <2>2 DEF Drain
    <3>2. \A k \in Verbs : snap'[Loop][k] = pending'[k] /\ pending'[k] \in Nat
      BY <1>0, <3>1 DEF Counts
    <3> QED BY <1>1, <3>1, <3>2 DEF ReceiptInv
  <2> QED BY <2>1, <2>2
<1>8. CASE ReportDrained
  <2>1. /\ at = "drained" /\ at' = "ended" /\ UNCHANGED <<pending, leaked, done>>
        /\ told' = IF done THEN told ELSE snap[Loop]
    BY <1>8 DEF ReportDrained, EmitReceipt
  <2>2. pending = NoneQueued => snap[Loop] = NoneQueued
    <3> SUFFICES ASSUME pending = NoneQueued
                 PROVE  snap[Loop] = NoneQueued
      OBVIOUS
    <3>1. \A k \in Verbs : snap[Loop][k] \in Nat /\ snap[Loop][k] <= 0
      BY <1>0, <2>1 DEF ReceiptInv, NoneQueued, Counts
    <3>2. \A k \in Verbs : snap[Loop][k] = 0
      BY <3>1
    <3>3. snap[Loop] \in Counts
      BY <1>0
    <3> QED BY <3>2, <3>3 DEF NoneQueued, Counts
  <2> QED BY <1>1, <2>1, <2>2 DEF ReceiptInv
<1>9. CASE \/ Say("started", "select") \/ Say("began", "next") \/ Say("tool", "next")
           \/ Say("ended", "idle") \/ Say("idle", "select")
  BY <1>2, <1>9 DEF Say
<1>10. CASE TakeWork \/ SeeDone \/ NextAction \/ Run("tool") \/ Kill \/ ExecEnds
            \/ OutputReleased \/ Farewell \/ CloseEvents \/ Stop
  BY <1>2, <1>10
     DEF TakeWork, SeeDone, NextAction, Run, Kill, ExecEnds, OutputReleased,
         Farewell, CloseEvents, Stop
<1>11. CASE Interrupt \/ Read \/ UNCHANGED sessionVars
  BY <1>2, <1>11 DEF Interrupt, Read, sessionVars
<1>12. CASE CloseDone \/ RunExit
  <2>1. /\ UNCHANGED <<pending, leaked, snap>> /\ told' = NoneQueued
        /\ at' = "drained" <=> at = "drained"
    BY <1>12 DEF CloseDone, RunExit
  <2> QED BY <1>1, <2>1 DEF ReceiptInv
<1> QED
  BY <1>3, <1>4, <1>5, <1>6, <1>7, <1>8, <1>9, <1>10, <1>11, <1>12
     DEF SessionNext, SessionStep, LoopStep, CallStep

LEMMA ReceiptInvSettles == SessionInv /\ ReceiptInv => ReceiptsSettle
<1> SUFFICES ASSUME SessionInv, ReceiptInv, Quiet, ~cancelled
             PROVE  /\ pending = leaked
                    /\ leaked = NoneQueued => told = NoneQueued
  BY DEF ReceiptsSettle
<1>1. SessionTypeOK /\ pending \in Counts /\ leaked \in Counts
  BY DEF SessionInv, SessionTypeOK
<1>2. ASSUME NEW k \in Verbs
      PROVE  pending[k] = leaked[k]
  <2>1. QueuedOf(k) = {}
    <3>1. DOMAIN work = {}
      BY DEF Quiet
    <3> QED BY <3>1 DEF QueuedOf
  <2>2. OfferedOf(k) = {}
    BY DEF OfferedOf, Quiet
  <2>3. BegunOf(k) = 0
    BY DEF Quiet, SessionInv, InTurn, BegunOf, NoTurn, Turn, Verbs
  <2>4. leaked[k] \in Nat
    BY <1>1 DEF Counts
  <2> QED BY <2>1, <2>2, <2>3, <2>4, FS_EmptySet DEF ReceiptInv, Counted
<1>3. pending = leaked
  BY <1>1, <1>2 DEF Counts
<1>4. ~done /\ at # "drained"
  BY DEF SessionInv, Quiet
<1> QED BY <1>3, <1>4 DEF ReceiptInv

\* Whoever calls it, once all that a session accepted has been acted on its
\* last receipt says that nothing is queued, unless a caller gave up on a
\* message, which is counted for good (runtime.go:82).
THEOREM ReceiptsTruthful == SessionSpec => []ReceiptsSettle
<1> QED
  BY ReceiptInvInit, ReceiptInvStep, SessionInvCorrect, ReceiptInvSettles, PTL
     DEF SessionSpec

(***************************************************************************)
(* Ending a session is a bounded matter.                                   *)
(***************************************************************************)

LEMMA CallersAtFacts ==
    ASSUME SessionInv, ReceiptInv
    PROVE  /\ IsFiniteSet(CallersAt("receipt")) /\ IsFiniteSet(CallersAt("offer"))
           /\ Cardinality(CallersAt("receipt")) \in Nat
           /\ Cardinality(CallersAt("offer")) \in Nat
           /\ Len(work) \in Nat
<1> DEFINE All == OfferedOf("steer") \cup OfferedOf("follow")
<1>1. IsFiniteSet(OfferedOf("steer")) /\ IsFiniteSet(OfferedOf("follow"))
  BY DEF ReceiptInv, Counted, Verbs
<1>2. IsFiniteSet(All)
  BY <1>1, FS_Union
<1>3. CallersAt("receipt") \subseteq All /\ CallersAt("offer") \subseteq All
  BY TurnFacts DEF SessionInv, CallersAt, OfferedOf, Verbs
<1>4. Len(work) \in Nat
  BY DEF SessionInv, SessionTypeOK
<1> HIDE DEF All
<1>5. IsFiniteSet(CallersAt("receipt")) /\ IsFiniteSet(CallersAt("offer"))
  BY <1>2, <1>3, FS_Subset
<1> QED BY <1>4, <1>5, FS_CardinalityType

\* A step of the loop takes a turn from the queue, or comes nearer its end.
LEMMA LoopSteps ==
    ASSUME SessionInv, cancelled, LoopStep \/ ExecEnds \/ OutputReleased
    PROVE  /\ \/ UNCHANGED work /\ LoopStepsLeft' < LoopStepsLeft
              \/ /\ work # <<>> /\ work' = Tail(work)
                 /\ at = "select" /\ at' = "began"
           /\ cancelled' /\ UNCHANGED calling
<1> USE DEF ending, closing, loop, call, counts
<1>1. CASE TakeWork
  BY <1>1 DEF TakeWork
<1>2. ASSUME NEW label, NEW next, Say(label, next),
             <<label, next>> \in {<<"started", "select">>, <<"began", "next">>,
                                  <<"tool", "next">>, <<"ended", "idle">>,
                                  <<"idle", "select">>}
      PROVE  /\ UNCHANGED <<work, cancelled, calling>>
             /\ LoopStepsLeft' < LoopStepsLeft
  <2>1. at = label /\ at' = next /\ UNCHANGED <<work, cancelled, calling>>
    BY <1>2 DEF Say
  <2> QED BY <1>2, <2>1 DEF LoopStepsLeft
<1>3. CASE SeeDone \/ NextAction
  <2>1. /\ (at = "select" /\ at' = "final") \/ (at = "next" /\ at' = "drain")
        /\ UNCHANGED <<work, cancelled, calling>>
    BY <1>3 DEF SeeDone, NextAction
  <2> QED BY <2>1 DEF LoopStepsLeft
<1>4. CASE Run("tool") \/ Kill \/ ExecEnds \/ OutputReleased
  <2>1. /\ <<at, at'>> \in {<<"run", "tool">>, <<"run", "held">>, <<"held", "tool">>}
        /\ UNCHANGED <<work, cancelled, calling>>
    BY <1>4 DEF Run, Kill, ExecEnds, OutputReleased
  <2> QED BY <2>1 DEF LoopStepsLeft
<1>5. CASE RunExit
  BY <1>5 DEF RunExit, LoopStepsLeft
<1>6. CASE Drain
  <2>1. /\ at = "drain" /\ at' \in {"ended", "drained"}
        /\ UNCHANGED <<work, cancelled, calling>>
    BY <1>6 DEF Drain
  <2> QED BY <2>1 DEF LoopStepsLeft
<1>7. CASE ReportDrained \/ Farewell
  <2>1. /\ (at = "drained" /\ at' = "ended") \/ (at = "final" /\ at' = "close")
        /\ UNCHANGED <<work, cancelled, calling>>
    BY <1>7 DEF ReportDrained, Farewell
  <2> QED BY <2>1 DEF LoopStepsLeft
<1>8. CASE CloseEvents \/ Stop
  <2>1. /\ (at = "close" /\ at' = "stop") \/ (at = "stop" /\ at' = "off")
        /\ UNCHANGED <<work, cancelled, calling>>
    BY <1>8 DEF CloseEvents, Stop
  <2> QED BY <2>1 DEF LoopStepsLeft
<1> QED BY <1>1, <1>2, <1>3, <1>4, <1>5, <1>6, <1>7, <1>8 DEF LoopStep

\* A caller goes on, or leaves.
LEMMA CallerSteps ==
    ASSUME SessionInv, ReceiptInv, NEW c \in Callers, CallStep(c)
    PROVE  /\ UNCHANGED <<at, cancelled>>
           /\ LET r == Cardinality(CallersAt("receipt"))
                  o == Cardinality(CallersAt("offer"))
                  rr == Cardinality(CallersAt("receipt")')
                  oo == Cardinality(CallersAt("offer")')
              IN  \/ rr = r - 1 /\ oo = o + 1 /\ UNCHANGED work
                  \/ rr = r /\ oo = o - 1 /\ UNCHANGED work
                  \/ rr = r /\ oo = o - 1 /\ Len(work') = Len(work) + 1
<1> USE DEF ending, closing, loop, call, counts
<1>0. calling \in [Callers -> {"idle", "receipt", "offer"}]
  BY DEF SessionInv, SessionTypeOK
<1>1. CASE Receipt(c)
  <2>1. /\ UNCHANGED <<at, cancelled, work>>
        /\ calling[c] = "receipt" /\ calling' = [calling EXCEPT ![c] = "offer"]
    BY <1>1 DEF Receipt
  <2>2. /\ CallersAt("receipt")' = CallersAt("receipt") \ {c} /\ c \in CallersAt("receipt")
        /\ CallersAt("offer")' = CallersAt("offer") \cup {c} /\ c \notin CallersAt("offer")
    BY <1>0, <2>1 DEF CallersAt
  <2>3. /\ Cardinality(CallersAt("receipt")') = Cardinality(CallersAt("receipt")) - 1
        /\ Cardinality(CallersAt("offer")') = Cardinality(CallersAt("offer")) + 1
    <3>1. Cardinality(CallersAt("receipt") \ {c}) = Cardinality(CallersAt("receipt")) - 1
      BY <2>2, CallersAtFacts, FS_RemoveElement
    <3>2. Cardinality(CallersAt("offer") \cup {c}) = Cardinality(CallersAt("offer")) + 1
      BY <2>2, CallersAtFacts, FS_AddElement
    <3> QED BY <2>2, <3>1, <3>2
  <2> QED BY <2>1, <2>3
<1>2. CASE Accepted(c) \/ Refused(c)
  <2>1. /\ UNCHANGED <<at, cancelled>>
        /\ calling[c] = "offer" /\ calling' = [calling EXCEPT ![c] = "idle"]
        /\ UNCHANGED work \/ work' = Append(work, offer[c])
    BY <1>2 DEF Accepted, Refused, Return
  <2>2. /\ CallersAt("receipt")' = CallersAt("receipt")
        /\ CallersAt("offer")' = CallersAt("offer") \ {c} /\ c \in CallersAt("offer")
    BY <1>0, <2>1 DEF CallersAt
  <2>3. Cardinality(CallersAt("offer")') = Cardinality(CallersAt("offer")) - 1
    BY <2>2, CallersAtFacts, FS_RemoveElement
  <2>4. UNCHANGED work \/ Len(work') = Len(work) + 1
    <3>1. work \in Seq(Queueable \cup {Initial}) /\ offer[c] \in Queueable \cup {Initial}
      BY <2>1 DEF SessionInv, SessionTypeOK
    <3> QED BY <2>1, <3>1
  <2> QED BY <2>1, <2>2, <2>3, <2>4
<1> QED BY <1>1, <1>2 DEF CallStep

\* Whatever it is doing, and for any number of callers and messages, a session
\* that was ended has a bounded number of steps left (fake.go:147, 394): with
\* the fairness and the hypothesis of EndingStops it stops.
THEOREM EndingBounded == SessionSpec => [](StepsToStop \in Nat) /\ EndingIsBounded
<1> DEFINE Nearer ==
               cancelled =>
                   /\ cancelled'
                   /\ (LoopStep \/ ExecEnds \/ OutputReleased \/ \E c \in Callers : CallStep(c)) =>
                          StepsToStop' < StepsToStop
                   /\ (\A c \in Callers, k \in Verbs, x \in Texts : ~Call(c, k, x)) =>
                          StepsToStop' <= StepsToStop
<1>1. (SessionInv /\ ReceiptInv) /\ [SessionNext]_sessionVars => [Nearer]_sessionVars
  <2> SUFFICES ASSUME SessionInv, ReceiptInv, SessionNext, cancelled
               PROVE  Nearer
    OBVIOUS
  <2> DEFINE r == Cardinality(CallersAt("receipt"))
             o == Cardinality(CallersAt("offer"))
             l == Len(work)
  <2>0. /\ r \in Nat /\ o \in Nat /\ l \in Nat
        /\ StepsToStop = LoopStepsLeft + 7 * l + 9 * r + 8 * o
        /\ LoopStepsLeft \in Nat
    <3>1. LoopStepsLeft \in Nat
      BY DEF LoopStepsLeft
    <3> QED BY <3>1, CallersAtFacts DEF StepsToStop
  <2>1. StepsToStop' = LoopStepsLeft' + 7 * Len(work') + 9 * Cardinality(CallersAt("receipt")')
                       + 8 * Cardinality(CallersAt("offer")')
    BY DEF StepsToStop
  <2>2. LoopStepsLeft' \in Nat
    BY DEF LoopStepsLeft
  <2>3. ASSUME UNCHANGED calling
        PROVE  /\ Cardinality(CallersAt("receipt")') = r
               /\ Cardinality(CallersAt("offer")') = o
    BY <2>3 DEF CallersAt
  <2>4. CASE LoopStep \/ ExecEnds \/ OutputReleased
    <3>1. cancelled' /\ UNCHANGED calling
      BY <2>4, LoopSteps
    <3>2. CASE UNCHANGED work /\ LoopStepsLeft' < LoopStepsLeft
      <4>1. Len(work') = l
        BY <3>2
      <4>2. StepsToStop' = LoopStepsLeft' + 7 * l + 9 * r + 8 * o
        BY <2>1, <2>3, <3>1, <4>1
      <4>5. LoopStepsLeft' < LoopStepsLeft
        BY <3>2
      <4> HIDE DEF r, o, l
      <4>6. \A x, y, p, q, z \in Nat : x < y =>
                /\ x + 7 * p + 9 * q + 8 * z < y + 7 * p + 9 * q + 8 * z
                /\ x + 7 * p + 9 * q + 8 * z <= y + 7 * p + 9 * q + 8 * z
        OBVIOUS
      <4>3. StepsToStop' < StepsToStop
        BY <2>0, <2>2, <4>2, <4>5, <4>6, Zenon
      <4>4. StepsToStop' <= StepsToStop
        BY <2>0, <2>2, <4>2, <4>5, <4>6, Zenon
      <4> QED BY <3>1, <4>3, <4>4
    <3>3. CASE work # <<>> /\ work' = Tail(work) /\ at = "select" /\ at' = "began"
      <4>1. Len(work') = l - 1
        BY <3>3 DEF SessionInv, SessionTypeOK
      <4>2. LoopStepsLeft = 4 /\ LoopStepsLeft' = 10
        BY <3>3 DEF LoopStepsLeft
      <4>3. StepsToStop' = 10 + 7 * (l - 1) + 9 * r + 8 * o
        BY <2>1, <2>3, <3>1, <4>1, <4>2
      <4> HIDE DEF r, o, l
      <4>4. StepsToStop' < StepsToStop
        BY ONLY <2>0, <4>2, <4>3
      <4>5. StepsToStop' <= StepsToStop
        BY ONLY <2>0, <4>2, <4>3
      <4> QED BY <3>1, <4>4, <4>5
    <3> QED BY <2>4, <3>2, <3>3, LoopSteps
  <2>5. ASSUME NEW c \in Callers, CallStep(c) PROVE Nearer
    <3>1. UNCHANGED <<at, cancelled>> /\ LoopStepsLeft' = LoopStepsLeft
      BY <2>5, CallerSteps DEF LoopStepsLeft
    <3> DEFINE rr == Cardinality(CallersAt("receipt")')
               oo == Cardinality(CallersAt("offer")')
               ll == Len(work')
    <3>2. \/ rr = r - 1 /\ oo = o + 1 /\ ll = l
          \/ rr = r /\ oo = o - 1 /\ ll = l
          \/ rr = r /\ oo = o - 1 /\ ll = l + 1
      BY <2>5, CallerSteps
    <3>3. StepsToStop' = LoopStepsLeft' + 7 * ll + 9 * rr + 8 * oo
      BY <2>1
    <3> HIDE DEF r, o, l, rr, oo, ll
    <3>4. StepsToStop' < StepsToStop
      BY ONLY <2>0, <3>1, <3>2, <3>3
    <3>5. StepsToStop' <= StepsToStop
      BY ONLY <2>0, <3>1, <3>2, <3>3
    <3> QED BY <3>1, <3>4, <3>5
  <2>6. ASSUME ~(LoopStep \/ ExecEnds \/ OutputReleased \/ \E c \in Callers : CallStep(c)) PROVE Nearer
    <3>1. cancelled'
      BY <2>6 DEF SessionNext, SessionStep, Call, Cancel, Interrupt, CloseDone, Read,
                  ending
    <3>2. ASSUME \A c \in Callers, k \in Verbs, x \in Texts : ~Call(c, k, x)
          PROVE  StepsToStop' <= StepsToStop
      <4>1. UNCHANGED <<work, at, calling>>
        BY <2>6, <3>2 DEF SessionNext, SessionStep, Cancel, Interrupt, CloseDone, Read,
                          loop, call
      <4>2. StepsToStop' = StepsToStop
        BY <4>1 DEF StepsToStop, LoopStepsLeft, CallersAt
      <4> QED BY <2>0, <4>2
    <3> QED BY <2>6, <3>1, <3>2
  <2> QED BY <2>4, <2>5, <2>6
<1>2. SessionInv /\ ReceiptInv => StepsToStop \in Nat
  BY CallersAtFacts DEF StepsToStop, LoopStepsLeft
<1> QED
  BY <1>1, <1>2, ReceiptInvInit, ReceiptInvStep, SessionInvCorrect, PTL
     DEF SessionSpec, EndingIsBounded
=============================================================================
