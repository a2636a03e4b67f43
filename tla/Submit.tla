------------------------------- MODULE Submit -------------------------------
(***************************************************************************)
(* pc submit: Submit of internal/pcops/submit.go with its submitWaiter.    *)
(*                                                                         *)
(* One process of one agent.  It has two goroutines: the attempt loop      *)
(* declares readiness and waits, and the dispatch loop of its bus agent    *)
(* handles one message at a time and tells the attempt loop over five      *)
(* channels of one slot each.  A step is one critical section, one channel *)
(* operation or one publication.                                           *)
(*                                                                         *)
(* An earlier process of the agent may have declared readiness and ended;  *)
(* what it did not read is handed to this one first.                       *)
(*                                                                         *)
(* Time is abstracted to what fresh compares: a message is old once an     *)
(* attempt has been stamped after it was made.                             *)
(*                                                                         *)
(* What reaches mail, and what becomes of sent, is up to the module that   *)
(* composes this one with a coordinator.  Operators named Mutant* are      *)
(* faulty variants of the definition below them and used nowhere.          *)
(***************************************************************************)
EXTENDS Naturals, Sequences

CONSTANTS
    Me,             \* the agent
    Versions        \* version strings

VARIABLES
    at,         \* where the attempt loop stands
    version,    \* the version Submit was called with
    stamped,    \* readyAt has been set
    recorded,   \* submitWaiter.recorded
    chan,       \* the five channels: a signal, or Empty
    handling,   \* the message whose handler has found it fresh, or Empty
    offer,      \* the signal that handler is about to offer, or Empty
    mail,       \* what the bus holds for the process and it has not read
    sent        \* versions of the agent's Readies on their way to the coordinator

waiter == <<stamped, recorded, chan>>
dispatch == <<handling, offer>>
submitVars == <<at, version, waiter, dispatch, mail, sent>>

Channels == {"verdicts", "acked", "nacked", "declined", "mismatched"}
Empty == [kind |-> "empty"]
NoVersion == "none"     \* versions[agentName] of a map that does not name it

\* An earlier process may have declared readiness, which is yet unheard.
SubmitInit ==
    /\ at = "new" /\ version \in Versions
    /\ stamped = FALSE /\ recorded = FALSE
    /\ chan = [c \in Channels |-> Empty]
    /\ handling = Empty /\ offer = Empty
    /\ mail = <<>>
    /\ sent \in {<<>>} \cup {<<v>> : v \in Versions}

\* Submit returns, and its process ends.
End ==
    /\ at' = "done"
    /\ stamped' = FALSE /\ recorded' = FALSE
    /\ chan' = [c \in Channels |-> Empty]
    /\ handling' = Empty /\ offer' = Empty /\ mail' = <<>>
    /\ UNCHANGED <<version, sent>>

-----------------------------------------------------------------------------
(***************************************************************************)
(* The dispatch loop.                                                      *)
(***************************************************************************)

Live == at \notin {"new", "done"}

\* The process subscribes and starts its dispatch loop.  It is handed what
\* the bus holds after the agent's stored position, wherever that is.
Start ==
    /\ at = "new"
    /\ at' = "stamp"
    /\ \E stored \in 0 .. Len(mail) : mail' = SubSeq(mail, stored + 1, Len(mail))
    /\ UNCHANGED <<version, waiter, dispatch, sent>>

\* !m.Timestamp.Before(w.readyAt)
Fresh(m) == ~stamped \/ ~m.old

\* The handler of the next message starts with fresh.
Receive ==
    /\ Live /\ handling = Empty /\ mail # <<>>
    /\ handling' = IF Fresh(Head(mail)) THEN [Head(mail) EXCEPT !.old = FALSE] ELSE Empty
    /\ mail' = Tail(mail)
    /\ UNCHANGED <<at, version, waiter, offer, sent>>

Signal(c, passed) == offer' = [kind |-> c, passed |-> passed]

\* The verdict is taken although it tested another version.
MutantAnswersAlways(m) == TRUE

\* versions[agentName] == version
Answers(m) == m.tested = version

\* The IntentInform handler: the verdict tested this version, or another one
\* although this attempt is recorded, or it is another round's.
OnInform ==
    /\ handling.kind = "inform" /\ offer = Empty
    /\ \/ Answers(handling) /\ Signal("verdicts", handling.passed)
       \/ /\ ~Answers(handling) /\ handling.tested # NoVersion /\ recorded
          /\ Signal("mismatched", FALSE)
       \/ /\ ~Answers(handling) /\ (handling.tested = NoVersion \/ ~recorded)
          /\ Signal("declined", FALSE)
    /\ UNCHANGED <<at, version, waiter, handling, mail, sent>>

\* The IntentAck and IntentNack handlers, up to setRecorded.
OnReply ==
    /\ handling.kind \in {"ack", "nack"} /\ offer = Empty
    /\ recorded' = (handling.kind = "ack")
    /\ Signal(IF handling.kind = "ack" THEN "acked" ELSE "nacked", FALSE)
    /\ UNCHANGED <<at, version, stamped, chan, handling, mail, sent>>

\* The signal is left behind for the next message's handler.
MutantOfferAgain ==
    /\ offer # Empty
    /\ chan' = [chan EXCEPT ![offer.kind] = IF @ = Empty THEN offer ELSE @]
    /\ handling' = Empty
    /\ UNCHANGED <<at, version, stamped, recorded, offer, mail, sent>>

\* The send that ends a handler: it is dropped when the slot is taken.
Offer ==
    /\ offer # Empty
    /\ chan' = [chan EXCEPT ![offer.kind] = IF @ = Empty THEN offer ELSE @]
    /\ handling' = Empty /\ offer' = Empty
    /\ UNCHANGED <<at, version, stamped, recorded, mail, sent>>

Dispatch == Receive \/ OnInform \/ OnReply \/ Offer

-----------------------------------------------------------------------------
(***************************************************************************)
(* The attempt loop: declareReady.                                         *)
(***************************************************************************)

\* stampReadyAt: everything made before this moment is old from now on.
Stamp ==
    /\ at = "stamp"
    /\ stamped' = TRUE
    /\ mail' = [i \in DOMAIN mail |-> [mail[i] EXCEPT !.old = TRUE]]
    /\ at' = "unrecord"
    /\ UNCHANGED <<version, recorded, chan, dispatch, sent>>

\* setRecorded(false)
Unrecord ==
    /\ at = "unrecord"
    /\ recorded' = FALSE
    /\ at' = "drain"
    /\ UNCHANGED <<version, stamped, chan, dispatch, mail, sent>>

\* The five drains, as one step.
Drain ==
    /\ at = "drain"
    /\ chan' = [c \in Channels |-> Empty]
    /\ at' = "publish"
    /\ UNCHANGED <<version, stamped, recorded, dispatch, mail, sent>>

\* gate.Ready
Publish ==
    /\ at = "publish"
    /\ sent' = Append(sent, version)
    /\ at' = "ack"
    /\ UNCHANGED <<version, waiter, dispatch, mail>>

DeclareReady == Stamp \/ Unrecord \/ Drain \/ Publish

-----------------------------------------------------------------------------
(***************************************************************************)
(* The attempt loop: its waits.                                            *)
(***************************************************************************)

Has(c) == chan[c] # Empty

\* Without the arm for a Nack after an Ack (submit.go:262).
MutantAwaited ==
    CASE at = "ack" -> {"verdicts", "mismatched", "acked", "nacked"}
      [] at = "verdict" -> {"verdicts", "mismatched"}
      [] at = "look" -> {"verdicts"}
      [] at = "round" -> {"verdicts", "mismatched", "declined"}
      [] OTHER -> {}

\* The channels that each wait listens to.
Awaited ==
    CASE at = "ack" -> {"verdicts", "mismatched", "acked", "nacked"}
      [] at = "verdict" -> {"verdicts", "mismatched", "nacked"}
      [] at = "look" -> {"verdicts"}
      [] at = "round" -> {"verdicts", "mismatched", "declined"}
      [] OTHER -> {}

\* A select takes from c and goes on to the next wait, or the next attempt.
Take(c, label) ==
    /\ c \in Awaited /\ Has(c)
    /\ chan' = [chan EXCEPT ![c] = Empty]
    /\ at' = label
    /\ UNCHANGED <<version, stamped, recorded, dispatch, mail, sent>>

\* A verdict for this version is the result, wherever it arrives.
TakeVerdict == "verdicts" \in Awaited /\ Has("verdicts") /\ End

\* ErrVersionMismatch
TakeMismatch == at # "round" /\ "mismatched" \in Awaited /\ Has("mismatched") /\ End

\* Acknowledged: the verdict is waited for next.
TakeAck == Take("acked", "verdict")

\* Refused: the round in flight must end first.
TakeNack == Take("nacked", "look")

\* The first look of waitForRoundToResolve finds no verdict.
LookFails ==
    /\ at = "look" /\ ~Has("verdicts")
    /\ at' = "round"
    /\ UNCHANGED <<version, waiter, dispatch, mail, sent>>

\* The round that was in flight is over: readiness is declared again.
RoundResolved ==
    /\ at = "round"
    /\ Take("declined", "stamp") \/ Take("mismatched", "stamp")

\* AckTimeout or SubmitTimeout passes, readiness cannot be published, or the
\* process is killed.
GiveUp == at \in {"publish", "ack", "verdict", "round"} /\ End

Answered ==
    \/ TakeVerdict \/ TakeMismatch \/ TakeAck \/ TakeNack
    \/ LookFails \/ RoundResolved

SubmitNext ==
    \/ Start \/ Dispatch \/ DeclareReady \/ Answered \/ GiveUp
-----------------------------------------------------------------------------
Mail == [kind : {"ack", "nack", "inform"}, passed : BOOLEAN,
         tested : Versions \cup {NoVersion}, old : BOOLEAN]
Signals == [kind : Channels, passed : BOOLEAN]

\* The type of every variable of the process; a handler offers only what it
\* has in hand.
SubmitTypeOK ==
    /\ at \in {"new", "stamp", "unrecord", "drain", "publish", "ack", "verdict",
               "look", "round", "done"}
    /\ version \in Versions
    /\ stamped \in BOOLEAN /\ recorded \in BOOLEAN
    /\ chan \in [Channels -> Signals \cup {Empty}]
    /\ handling \in Mail \cup {Empty} /\ offer \in Signals \cup {Empty}
    /\ offer # Empty => handling # Empty
    /\ mail \in Seq(Mail) /\ sent \in Seq(Versions)
=============================================================================
