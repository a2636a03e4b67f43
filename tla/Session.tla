------------------------------ MODULE Session ------------------------------
(***************************************************************************)
(* One agent session: the scripted adapter of pkg/runtime/fake, the        *)
(* repository's implementation of runtime.Session.                         *)
(*                                                                         *)
(* Its loop goroutine takes queued work, a turn each, and reports what it  *)
(* does on a bounded channel of events; Steer and Follow are called by any *)
(* goroutine and wait for room in both channels; Interrupt, Close and a    *)
(* scripted Exit end it.  What a message makes the agent do (OnSteer,      *)
(* OnFollow) is any of a set of action sequences.  evMu is held only       *)
(* around a send whose conditions are the same for everybody who waits for *)
(* it, so a send is one action.                                            *)
(*                                                                         *)
(* Operators named Mutant* are faulty variants of the definition below     *)
(* them; they show that a property can fail and are used nowhere.          *)
(***************************************************************************)
EXTENDS Naturals, Sequences, FiniteSets

CONSTANTS
    Callers,    \* goroutines that call Steer and Follow
    Texts,      \* the messages
    NoText,     \* what is not one of them
    OnSteer,    \* what a steer can make the agent do: the results of its hook, or
                \* of the other verb's when it has none
    OnFollow,   \* and a follow
    OnStart,    \* the initial turn's actions
    WorkCap,    \* capacity of work
    EventCap    \* capacity of events

ASSUME TextAssumption == NoText \notin Texts
ASSUME CapAssumption == WorkCap \in Nat \ {0} /\ EventCap \in Nat \ {0}

\* "tool" stands for Write and Emit: done at once and reported.
Actions == {"tool", "exec", "exit"}

ASSUME ScriptsAssumption ==
    OnSteer \cup OnFollow \subseteq Seq(Actions) /\ OnStart \in Seq(Actions)

Verbs == {"steer", "follow"}

\* pick
Hook(k) == IF k = "steer" THEN OnSteer ELSE OnFollow

\* queuedWork
Turn(t, k, acts) == [text |-> t, kind |-> k, acts |-> acts]
Queueable == [text : Texts, kind : Verbs, acts : OnSteer \cup OnFollow]
Initial == Turn(NoText, "initial", OnStart)
NoTurn == Turn(NoText, "none", <<>>)

VARIABLES
    work,       \* queued turns
    events,     \* the events nobody has read
    cancelled,  \* workCtx
    done,       \* closed
    reason,     \* endReason
    evClosed,   \* events is closed
    stopped,    \* closed
    pending,    \* messages queued and not drained, of each verb
    at,         \* where the loop stands
    turn,       \* the turn the loop is in
    todo,       \* its actions that are not finished
    calling,    \* where each caller stands
    offer,      \* what it is queueing
    snap,       \* the snapshot the loop, or a caller, has yet to report
    gone,       \* the caller's ctx is done
    told,       \* history: the last snapshot reported, until done
    leaked,     \* history: messages counted and given up
    farewell    \* history: what became of the exited event

Loop == "loop"      \* the loop's goroutine, in snap

ending == <<cancelled, done, reason>>
closing == <<evClosed, stopped>>
loop == <<at, turn, todo>>
call == <<calling, offer, gone>>
counts == <<pending, snap, told, leaked>>
sessionVars ==
    <<work, events, ending, closing, loop, call, counts, farewell>>

NoneQueued == [k \in Verbs |-> 0]

\* Start
SessionInit ==
    /\ work = <<Initial>>
    /\ events = <<>>
    /\ cancelled = FALSE /\ done = FALSE /\ reason = "none"
    /\ evClosed = FALSE /\ stopped = FALSE
    /\ pending = NoneQueued /\ told = NoneQueued /\ leaked = NoneQueued
    /\ snap = [g \in Callers \cup {Loop} |-> NoneQueued]
    /\ at = "started" /\ turn = NoTurn /\ todo = <<>>
    /\ calling = [c \in Callers |-> "idle"]
    /\ offer = [c \in Callers |-> NoTurn]
    /\ gone = [c \in Callers |-> FALSE]
    /\ farewell = "unsaid"

-----------------------------------------------------------------------------
(***************************************************************************)
(* Events.                                                                 *)
(***************************************************************************)

\* A full channel keeps its writer although the session has ended.
MutantEmitStubborn(e) ==
    IF evClosed THEN UNCHANGED events
    ELSE Len(events) < EventCap /\ events' = Append(events, e)

\* emit: waits for room; once the session ends the event may be dropped.
Emit(e) ==
    IF evClosed THEN UNCHANGED events
    ELSE \/ Len(events) < EventCap /\ events' = Append(events, e)
         \/ done /\ UNCHANGED events

\* A queue_changed event with the snapshot of goroutine g.
EmitReceipt(g) ==
    /\ Emit("event")
    /\ told' = IF done THEN told ELSE snap[g]
    /\ snap' = [snap EXCEPT ![g] = NoneQueued]

\* The reader takes an event.
Read ==
    /\ events # <<>>
    /\ farewell' = IF Head(events) = "exited" THEN "heard" ELSE farewell
    /\ events' = Tail(events)
    /\ UNCHANGED <<work, ending, closing, loop, call, counts>>

-----------------------------------------------------------------------------
(***************************************************************************)
(* Steer and Follow.                                                       *)
(***************************************************************************)

\* queue, up to the receipt: a ctx that is done already is refused.
Call(c, k, t) ==
    /\ calling[c] = "idle" /\ ~gone[c]
    /\ \E acts \in Hook(k) : offer' = [offer EXCEPT ![c] = Turn(t, k, acts)]
    /\ pending' = [pending EXCEPT ![k] = @ + 1]
    /\ snap' = [snap EXCEPT ![c] = pending']
    /\ calling' = [calling EXCEPT ![c] = "receipt"]
    /\ UNCHANGED <<work, events, ending, closing, loop, gone, told, leaked,
                   farewell>>

\* The receipt is reported before the message is handed to the loop.
Receipt(c) ==
    /\ calling[c] = "receipt"
    /\ EmitReceipt(c)
    /\ calling' = [calling EXCEPT ![c] = "offer"]
    /\ UNCHANGED <<work, ending, closing, loop, offer, gone, pending, leaked,
                   farewell>>

Return(c) ==
    /\ calling' = [calling EXCEPT ![c] = "idle"]
    /\ offer' = [offer EXCEPT ![c] = NoTurn]
    /\ UNCHANGED <<events, ending, closing, loop, gone, pending, snap, told,
                   farewell>>

\* A steer goes ahead of what waits (runtime.go:48).
MutantAcceptedAhead(c) ==
    /\ calling[c] = "offer" /\ Len(work) < WorkCap
    /\ work' = IF offer[c].kind = "steer" THEN <<offer[c]>> \o work
               ELSE Append(work, offer[c])
    /\ UNCHANGED leaked
    /\ Return(c)

\* nil is returned, even if the session has ended.
Accepted(c) ==
    /\ calling[c] = "offer" /\ Len(work) < WorkCap
    /\ work' = Append(work, offer[c])
    /\ UNCHANGED leaked
    /\ Return(c)

\* Only the caller's own ctx ends the wait.
MutantRefusedByCtxOnly(c) ==
    /\ calling[c] = "offer" /\ gone[c]
    /\ leaked' = [leaked EXCEPT ![offer[c].kind] = @ + 1]
    /\ UNCHANGED work
    /\ Return(c)

\* ErrSessionEnding, or the error of ctx; the message stays counted.
Refused(c) ==
    /\ calling[c] = "offer" /\ (done \/ gone[c])
    /\ leaked' = [leaked EXCEPT ![offer[c].kind] = @ + 1]
    /\ UNCHANGED work
    /\ Return(c)

\* The receipt is reported once the loop has the message (fake.go:365).
MutantCallStepLate(c) ==
    \/ /\ calling[c] = "receipt" /\ Len(work) < WorkCap
       /\ work' = Append(work, offer[c])
       /\ calling' = [calling EXCEPT ![c] = "report"]
       /\ UNCHANGED <<events, ending, closing, loop, offer, gone, counts,
                      farewell>>
    \/ /\ calling[c] = "report"
       /\ EmitReceipt(c)
       /\ calling' = [calling EXCEPT ![c] = "idle"]
       /\ UNCHANGED <<work, ending, closing, loop, offer, gone, pending, leaked,
                      farewell>>

CallStep(c) == Receipt(c) \/ Accepted(c) \/ Refused(c)

\* c's ctx is cancelled or times out.
Cancel(c) ==
    /\ ~gone[c]
    /\ gone' = [gone EXCEPT ![c] = TRUE]
    /\ UNCHANGED <<work, events, ending, closing, loop, calling, offer, counts,
                   farewell>>

-----------------------------------------------------------------------------
(***************************************************************************)
(* Ending.  closeWithReason runs once: whoever is second waits for the     *)
(* first and changes nothing.                                              *)
(***************************************************************************)

\* Interrupt and Close: the reason and workCtx, ...
Interrupt ==
    /\ ~cancelled
    /\ cancelled' = TRUE /\ reason' = "interrupted"
    /\ UNCHANGED <<work, events, done, closing, loop, call, counts, farewell>>

\* ... then done.
CloseDone ==
    /\ cancelled /\ ~done
    /\ done' = TRUE /\ told' = NoneQueued
    /\ UNCHANGED <<work, events, cancelled, reason, closing, loop, call, pending,
                   snap, leaked, farewell>>

-----------------------------------------------------------------------------
(***************************************************************************)
(* The loop.                                                               *)
(***************************************************************************)

\* The loop emits an event and goes on.
Say(label, next) ==
    /\ at = label
    /\ Emit("event")
    /\ at' = next
    /\ UNCHANGED <<work, ending, closing, turn, todo, call, counts, farewell>>

\* Queued work is taken even if done is closed as well.
TakeWork ==
    /\ at = "select" /\ work # <<>>
    /\ turn' = Head(work) /\ todo' = Head(work).acts
    /\ work' = Tail(work)
    /\ at' = "began"
    /\ UNCHANGED <<events, ending, closing, call, counts, farewell>>

SeeDone ==
    /\ at = "select" /\ done
    /\ at' = "final"
    /\ UNCHANGED <<work, events, ending, closing, turn, todo, call, counts,
                   farewell>>

\* A message that waits preempts the turn.
MutantNextActionPreempted ==
    /\ at = "next"
    /\ at' = IF todo = <<>> \/ cancelled \/ work # <<>> THEN "drain" ELSE "run"
    /\ UNCHANGED <<work, events, ending, closing, turn, todo, call, counts,
                   farewell>>

\* The next action is begun, unless workCtx is done.
NextAction ==
    /\ at = "next"
    /\ at' = IF todo = <<>> \/ cancelled THEN "drain" ELSE "run"
    /\ UNCHANGED <<work, events, ending, closing, turn, todo, call, counts,
                   farewell>>

\* run, of the first action when it is a.
Run(a) ==
    /\ at = "run" /\ Head(todo) = a
    /\ todo' = Tail(todo)
    /\ at' = "tool"
    /\ UNCHANGED <<work, events, ending, closing, turn, call, counts, farewell>>

\* A command ends by itself.
ExecEnds == Run("exec")

\* A running command is killed when workCtx is done, ...
Kill ==
    /\ cancelled
    /\ at = "run" /\ Head(todo) = "exec"
    /\ at' = "held"
    /\ UNCHANGED <<work, events, ending, closing, turn, todo, call, counts,
                   farewell>>

\* ... and done with once nobody holds its output: a process it left may.
OutputReleased ==
    /\ at = "held"
    /\ todo' = Tail(todo)
    /\ at' = "tool"
    /\ UNCHANGED <<work, events, ending, closing, turn, call, counts, farewell>>

\* run: Exit, which ends the session unless somebody else does.
RunExit ==
    /\ at = "run" /\ Head(todo) = "exit"
    /\ cancelled => done
    /\ IF cancelled
       THEN UNCHANGED ending
       ELSE cancelled' = TRUE /\ done' = TRUE /\ reason' = "completed"
    /\ told' = NoneQueued
    /\ todo' = Tail(todo)
    /\ at' = "next"
    /\ UNCHANGED <<work, events, closing, turn, call, pending, snap, leaked,
                   farewell>>

\* dequeue, of a turn that was queued.
Drain ==
    /\ at = "drain"
    /\ IF turn.kind = "initial"
       THEN at' = "ended" /\ UNCHANGED <<pending, snap>>
       ELSE /\ pending' = [pending EXCEPT ![turn.kind] = IF @ > 0 THEN @ - 1 ELSE 0]
            /\ snap' = [snap EXCEPT ![Loop] = pending']
            /\ at' = "drained"
    /\ turn' = NoTurn /\ todo' = <<>>
    /\ UNCHANGED <<work, events, ending, closing, call, told, leaked, farewell>>

ReportDrained ==
    /\ at = "drained"
    /\ EmitReceipt(Loop)
    /\ at' = "ended"
    /\ UNCHANGED <<work, ending, closing, turn, todo, call, pending, leaked,
                   farewell>>

\* The last event is emitted like the others (fake.go:316).
MutantFarewellRaced ==
    /\ at = "final"
    /\ Emit("exited")
    /\ farewell' = IF events' = events THEN "lost" ELSE "said"
    /\ at' = "close"
    /\ UNCHANGED <<work, ending, closing, turn, todo, call, counts>>

\* emitFinal: only a full channel loses it.
Farewell ==
    /\ at = "final"
    /\ IF Len(events) < EventCap
       THEN events' = Append(events, "exited") /\ farewell' = "said"
       ELSE farewell' = "full" /\ UNCHANGED events
    /\ at' = "close"
    /\ UNCHANGED <<work, ending, closing, turn, todo, call, counts>>

\* closeEvents
CloseEvents ==
    /\ at = "close"
    /\ evClosed' = TRUE
    /\ at' = "stop"
    /\ UNCHANGED <<work, events, ending, stopped, turn, todo, call, counts,
                   farewell>>

\* close(stopped), which Wait waits for.
Stop ==
    /\ at = "stop"
    /\ stopped' = TRUE
    /\ at' = "off"
    /\ UNCHANGED <<work, events, ending, evClosed, turn, todo, call, counts,
                   farewell>>

\* What the loop does by itself; a command may run, and its output be held, for
\* ever.
LoopStep ==
    \/ Say("started", "select")
    \/ TakeWork \/ SeeDone
    \/ Say("began", "next")
    \/ NextAction
    \/ Run("tool") \/ Kill \/ RunExit
    \/ Say("tool", "next")
    \/ Drain \/ ReportDrained
    \/ Say("ended", "idle")
    \/ Say("idle", "select")
    \/ Farewell \/ CloseEvents \/ Stop

\* Everything but Call, whose callers are the environment's.
SessionStep ==
    \/ LoopStep \/ ExecEnds \/ OutputReleased
    \/ \E c \in Callers : CallStep(c) \/ Cancel(c)
    \/ Interrupt \/ CloseDone
    \/ Read

SessionNext ==
    SessionStep \/ \E c \in Callers, k \in Verbs, t \in Texts : Call(c, k, t)

SessionSpec == SessionInit /\ [][SessionNext]_sessionVars

\* Goroutines run, and a closer goes on to close.  Nothing obliges anybody to
\* read events, or to end a command or a session.
SessionFairness ==
    /\ WF_sessionVars(LoopStep)
    /\ WF_sessionVars(CloseDone)
    /\ \A c \in Callers : WF_sessionVars(CallStep(c))

\* What a caller can arrange on top of that.
EventsAreRead == WF_sessionVars(Read)
CommandsEnd == WF_sessionVars(ExecEnds)
OutputIsReleased == WF_sessionVars(OutputReleased)

-----------------------------------------------------------------------------
(***************************************************************************)
(* Properties.                                                             *)
(***************************************************************************)

Labels ==
    {"started", "select", "began", "next", "run", "held", "tool", "drain", "drained",
     "ended", "idle", "final", "close", "stop", "off"}

Kinds == {"event", "exited"}

Counts == [Verbs -> Nat]

\* The type of a session; its two channels stay within their capacities
\* (fake.go:101).
SessionTypeOK ==
    /\ work \in Seq(Queueable \cup {Initial}) /\ Len(work) <= WorkCap
    /\ events \in Seq(Kinds) /\ Len(events) <= EventCap
    /\ cancelled \in BOOLEAN /\ done \in BOOLEAN
    /\ reason \in {"none", "completed", "interrupted"}
    /\ evClosed \in BOOLEAN /\ stopped \in BOOLEAN
    /\ pending \in Counts /\ told \in Counts /\ leaked \in Counts
    /\ snap \in [Callers \cup {Loop} -> Counts]
    /\ at \in Labels
    /\ turn \in Queueable \cup {Initial, NoTurn}
    /\ todo \in Seq(Actions)
    /\ calling \in [Callers -> {"idle", "receipt", "offer"}]
    /\ offer \in [Callers -> Queueable \cup {NoTurn}]
    /\ gone \in [Callers -> BOOLEAN]
    /\ farewell \in {"unsaid", "said", "full", "heard"}

\* Where a turn is in progress.
InTurn == {"began", "next", "run", "held", "tool", "drain"}

\* Where an action of it is.
InAction == {"run", "held"}

\* The type and what it takes to keep it and to implement the contract: a
\* turn is in progress just at these labels, an action is run only if there is
\* one, the loop ends only after the session was ended, and whoever is queueing
\* has something to queue.
SessionInv ==
    /\ SessionTypeOK
    /\ turn = NoTurn <=> at \notin InTurn
    /\ at \notin InTurn => todo = <<>>
    /\ at \in InAction => todo # <<>>
    /\ at = "held" => cancelled
    /\ at = "drain" => todo = <<>> \/ cancelled
    /\ done => cancelled
    /\ at \in {"final", "close", "stop", "off"} => done
    /\ stopped <=> at = "off"
    /\ \A c \in Callers : calling[c] # "idle" => offer[c] \in Queueable

Contract == INSTANCE Turns WITH
    Work <- Queueable \cup {Initial},
    queued <- work, left <- todo, busy <- at \in InAction,
    life <- IF stopped THEN "over" ELSE IF cancelled THEN "ending" ELSE "live"

\* Messages, interrupts, scripted exits and concurrent callers in any order:
\* turns are taken in the order of acceptance, none is cut short by a
\* message, and no action starts once the session was ended (runtime.go:48).
\* An action starts where the loop looks whether it was: what it does may come
\* after an Interrupt that was called in between has returned.
ImplementsTurns == Contract!Spec

\* Nothing is being queued, drained or run.
Quiet ==
    /\ at = "select" /\ work = <<>>
    /\ \A c \in Callers : calling[c] = "idle"

\* When all that was accepted has been acted on, the last receipt reported
\* says so, as long as no caller ever gave up on a message in a live session:
\* that message stays counted, and nothing else does (runtime.go:82).
ReceiptsSettle ==
    Quiet /\ ~cancelled =>
        /\ pending = leaked
        /\ leaked = NoneQueued => told = NoneQueued

\* Where a message counted in pending can be.
QueuedOf(k) == {i \in DOMAIN work : work[i].kind = k}
OfferedOf(k) == {c \in Callers : calling[c] # "idle" /\ offer[c].kind = k}
BegunOf(k) == IF turn.kind = k THEN 1 ELSE 0

\* A message is counted as long as it is in one of these places, or given up.
Counted(k) ==
    /\ IsFiniteSet(OfferedOf(k))
    /\ pending[k] = leaked[k] + Cardinality(QueuedOf(k)) + Cardinality(OfferedOf(k))
                    + BegunOf(k)

\* And when none is counted, that was reported, or is about to be: the
\* snapshot the loop took when it drained the last message is not outdated by
\* another drain.
ReceiptInv ==
    /\ \A k \in Verbs : Counted(k)
    /\ at = "drained" => \A k \in Verbs : snap[Loop][k] <= pending[k]
    /\ ~done /\ at # "drained" /\ pending = NoneQueued /\ leaked = NoneQueued =>
           told = NoneQueued

\* The exited event is in the channel or was read, or found it full.
Announced ==
    \/ farewell = "said" /\ \E i \in DOMAIN events : events[i] = "exited"
    \/ farewell \in {"heard", "full"}

\* The end of a session is announced: the exited event is in the channel or
\* was read, unless the channel was full (fake.go:316).
EndIsAnnounced == evClosed => Announced

\* The event is sent before the channel is closed, and what is sent after it
\* does not displace it.
EndInv ==
    /\ at \in {"close", "stop", "off"} => Announced
    /\ evClosed => at \in {"stop", "off"}

\* A session that is being ended stops, whatever it is doing, although nobody
\* reads its events, and Wait returns (fake.go:147), unless the output of a
\* command that was killed is held for ever (fake.go:272).
EndingStops == OutputIsReleased => (cancelled ~> stopped)

\* The steps that a session that is being ended has left, and those of the
\* callers in it; a message it still accepts is worth a turn.
CallersAt(label) == {c \in Callers : calling[c] = label}
LoopStepsLeft ==
    CASE at = "run" -> 12
      [] at = "held" -> 11
      [] at \in {"began", "tool"} -> 10
      [] at = "next" -> 9
      [] at = "drain" -> 8
      [] at = "drained" -> 7
      [] at = "ended" -> 6
      [] at \in {"idle", "started"} -> 5
      [] at = "select" -> 4
      [] at = "final" -> 3
      [] at = "close" -> 2
      [] at = "stop" -> 1
      [] OTHER -> 0
StepsToStop ==
    LoopStepsLeft + 7 * Len(work)
        + 9 * Cardinality(CallersAt("receipt")) + 8 * Cardinality(CallersAt("offer"))

\* What EndingStops comes to: a session that was ended is not taken up again,
\* each step of its loop and of those who are calling it leaves less to do,
\* whatever the scripts and however many messages wait, and only another
\* call gives it more (fake.go:147, 394).
EndingIsBounded ==
    [][cancelled =>
           /\ cancelled'
           /\ (\/ LoopStep \/ ExecEnds \/ OutputReleased
               \/ \E c \in Callers : CallStep(c)) =>
                  StepsToStop' < StepsToStop
           /\ (\A c \in Callers, k \in Verbs, x \in Texts : ~Call(c, k, x)) =>
                  StepsToStop' <= StepsToStop]_sessionVars
=============================================================================
