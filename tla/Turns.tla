------------------------------- MODULE Turns -------------------------------
(***************************************************************************)
(* What an agent session promises (pkg/runtime/runtime.go, type Session).  *)
(* Accepted messages are acted on one after the other, each in a turn of   *)
(* its own, in the order they were accepted.  A message never cuts a turn  *)
(* short: that is what ending the session is for, which no action starts   *)
(* after, and a session that is over does nothing any more.                *)
(*                                                                         *)
(* This is the contract that Session is shown to implement.                *)
(***************************************************************************)
EXTENDS Sequences

CONSTANTS
    Work,       \* what can be accepted: records with the actions acts
    NoTurn

VARIABLES
    queued,     \* accepted and not begun
    turn,       \* what is acted on, or NoTurn
    left,       \* its actions that are not finished
    busy,       \* whether the first of them has been started
    life        \* "live", "ending" or "over"

vars == <<queued, turn, left, busy, life>>

Init ==
    /\ \E w \in Work : queued = <<w>>
    /\ turn = NoTurn
    /\ left = <<>>
    /\ busy = FALSE
    /\ life = "live"

\* Also while the session ends: such a message is never acted on.
Accept ==
    /\ \E w \in Work : queued' = Append(queued, w)
    /\ UNCHANGED <<turn, left, busy, life>>

Begin ==
    /\ life # "over" /\ turn = NoTurn /\ queued # <<>>
    /\ turn' = Head(queued)
    /\ left' = Head(queued).acts
    /\ queued' = Tail(queued)
    /\ UNCHANGED <<busy, life>>

StartAction ==
    /\ life = "live" /\ turn # NoTurn /\ left # <<>> /\ ~busy
    /\ busy' = TRUE
    /\ UNCHANGED <<queued, turn, left, life>>

\* An action may end the session.
FinishAction ==
    /\ busy
    /\ busy' = FALSE
    /\ left' = Tail(left)
    /\ life' \in {life, "ending"}
    /\ UNCHANGED <<queued, turn>>

\* A turn is over when all its actions are finished, or the session ends.
Finish ==
    /\ turn # NoTurn /\ ~busy
    /\ left = <<>> \/ life = "ending"
    /\ turn' = NoTurn
    /\ left' = <<>>
    /\ UNCHANGED <<queued, busy, life>>

\* Interrupt and Close.
End ==
    /\ life = "live"
    /\ life' = "ending"
    /\ UNCHANGED <<queued, turn, left, busy>>

Stop ==
    /\ life = "ending" /\ turn = NoTurn
    /\ life' = "over"
    /\ UNCHANGED <<queued, turn, left, busy>>

Next ==
    Accept \/ Begin \/ StartAction \/ FinishAction \/ Finish \/ End \/ Stop

Spec == Init /\ [][Next]_vars
=============================================================================
