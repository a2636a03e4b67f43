------------------------------ MODULE Courier ------------------------------
(***************************************************************************)
(* A courier over the in-memory bus: pkg/bus, the dispatch loop of         *)
(* pkg/agent, and internal/pcops/courier.go, which turns what the bus      *)
(* delivers to a spawned agent into calls of its Session.                  *)
(*                                                                         *)
(* The courier is the agent Me; the Peers are agents without handlers,     *)
(* which answer as the dispatch loop does by itself.  Messages are         *)
(* numbered as they are published; an answer has no number of its own.     *)
(*                                                                         *)
(* Operators named Mutant* are faulty variants of the definition below     *)
(* them; they show that a property can fail and are used nowhere.          *)
(***************************************************************************)
EXTENDS Session

CONSTANTS
    Me,             \* the courier's agent
    Peers,
    Caller,         \* its goroutine, as a caller of the session
    Listeners,      \* the agents subscribed to the topic
    Outgoing,       \* [from, to, intent, text] that may be published
    Buf,            \* capacity of an inbox
    UrgentCap,      \* capacity of urgent
    MaxPublish      \* bound: messages published

Names == {Me} \cup Peers
Topic == "topic"
Nobody == "nobody"

ASSUME CallerAssumption == Callers = {Caller}
ASSUME TextsAssumption == Texts = 1 .. MaxPublish /\ NoText = 0
ASSUME NamesAssumption ==
    Me \notin Peers /\ Nobody \notin Names /\ Topic \notin Names
ASSUME OutgoingAssumption ==
    Outgoing \subseteq [from : Names, to : Names \cup {Topic},
                        intent : {"block", "request", "inform"}, text : BOOLEAN]
ASSUME BoundAssumption == {Buf, UrgentCap, MaxPublish} \subseteq Nat

VARIABLES
    joined,     \* the agents registered at the bus
    inbox,      \* the channel of each
    urgent,     \* messages in the courier's urgent
    stand,      \* where the courier's dispatch loop stands
    hand,       \* the message it dispatches
    published   \* messages published so far

bus == <<joined, inbox, published>>
dispatch == <<urgent, stand, hand>>
vars == <<sessionVars, bus, dispatch>>

NoMessage == [id |-> 0, from |-> Nobody, intent |-> "none", text |-> FALSE, re |-> 0]

Init ==
    /\ SessionInit
    /\ joined = Names
    /\ inbox = [a \in Names |-> <<>>]
    /\ urgent = 0
    /\ stand = "idle"
    /\ hand = NoMessage
    /\ published = 0

-----------------------------------------------------------------------------
(***************************************************************************)
(* The bus.                                                                *)
(***************************************************************************)

\* A broadcast is not echoed to its sender.
Recipients(from, to) == IF to = Topic THEN Listeners \ {from} ELSE {to}

\* Publish, deliver: a full inbox drops the message.
Delivered(boxes, m, to) ==
    [a \in Names |->
        IF a \in Recipients(m.from, to) \cap joined /\ Len(boxes[a]) < Buf
        THEN Append(boxes[a], m)
        ELSE boxes[a]]

Publish ==
    /\ published < MaxPublish
    /\ published' = published + 1
    /\ \E o \in Outgoing :
           inbox' = Delivered(inbox, [id |-> published', from |-> o.from,
                                      intent |-> o.intent, text |-> o.text, re |-> 0],
                              o.to)
    /\ UNCHANGED <<sessionVars, joined, dispatch>>

\* The subscription ends with the courier's ctx; what is in its channel can
\* still be received.
Teardown ==
    /\ gone[Caller] /\ Me \in joined
    /\ joined' = joined \ {Me}
    /\ UNCHANGED <<sessionVars, inbox, published, dispatch>>

-----------------------------------------------------------------------------
(***************************************************************************)
(* The dispatch loop.                                                      *)
(***************************************************************************)

\* The intents that oblige the recipient to reply.
WantsResponse(intent) == intent \notin {"inform", "ack"}

\* The automatic answer, when the handler returned no reply of its own.
Answers(m) == WantsResponse(m.intent) /\ m.from # Nobody

Ack(a, m) == [id |-> 0, from |-> a, intent |-> "ack", text |-> FALSE, re |-> m.id]

Goto(label, m) ==
    /\ stand' = label
    /\ hand' = IF label = "idle" THEN NoMessage ELSE m

AfterHandler(m) == Goto(IF Answers(m) THEN "answer" ELSE "idle", m)

\* The courier's handler: it drops what its own agent sent and what has no
\* text, and calls the session for the rest.
Relays(m) == m.intent # "ack" /\ m.from # Me /\ m.text

\* Only a block is urgent.
Verb(m) == IF m.intent = "block" THEN "steer" ELSE "follow"

\* The handler is run in a goroutine of its own.
MutantDispatchAsync ==
    /\ stand = "idle" /\ inbox[Me] # <<>>
    /\ LET m == Head(inbox[Me])
       IN  /\ inbox' = [inbox EXCEPT ![Me] = Tail(@)]
           /\ IF Relays(m) /\ ~gone[Caller] /\ calling[Caller] = "idle"
              THEN Call(Caller, Verb(m), m.id)
              ELSE UNCHANGED sessionVars
           /\ AfterHandler(m)
    /\ UNCHANGED <<joined, published, urgent>>

\* The courier takes a message: a block also goes to urgent, if there is
\* room, which nothing in the courier reads.
Dispatch ==
    /\ stand = "idle" /\ inbox[Me] # <<>>
    /\ LET m == Head(inbox[Me])
       IN  /\ inbox' = [inbox EXCEPT ![Me] = Tail(@)]
           /\ urgent' = IF m.intent = "block" /\ urgent < UrgentCap THEN urgent + 1
                        ELSE urgent
           /\ IF Relays(m) /\ ~gone[Caller]
              THEN Call(Caller, Verb(m), m.id) /\ Goto("session", m)
              ELSE UNCHANGED sessionVars /\ AfterHandler(m)
    /\ UNCHANGED <<joined, published>>

\* Steer or Follow has returned; its error is ignored.
HandlerReturns ==
    /\ stand = "session" /\ calling[Caller] = "idle"
    /\ AfterHandler(hand)
    /\ UNCHANGED <<sessionVars, bus, urgent>>

Answer ==
    /\ stand = "answer"
    /\ inbox' = Delivered(inbox, Ack(Me, hand), hand.from)
    /\ Goto("idle", NoMessage)
    /\ UNCHANGED <<sessionVars, joined, published, urgent>>

\* A peer takes a message and answers it.
PeerDispatch(a) ==
    /\ inbox[a] # <<>>
    /\ LET m == Head(inbox[a])
           taken == [inbox EXCEPT ![a] = Tail(@)]
       IN  inbox' = IF Answers(m) THEN Delivered(taken, Ack(a, m), m.from) ELSE taken
    /\ UNCHANGED <<sessionVars, joined, published, dispatch>>

\* Run returns when ctx is done.
RunReturns ==
    /\ stand = "idle" /\ gone[Caller]
    /\ Goto("off", NoMessage)
    /\ UNCHANGED <<sessionVars, bus, urgent>>

CourierStep == Dispatch \/ HandlerReturns \/ Answer

Next ==
    \/ Publish \/ Teardown
    \/ CourierStep \/ RunReturns
    \/ \E a \in Peers : PeerDispatch(a)
    \/ SessionStep /\ UNCHANGED <<bus, dispatch>>

Spec == Init /\ [][Next]_vars

\* Nothing below needs a peer that goes on taking messages.
FairSpec ==
    /\ Spec
    /\ SessionFairness
    /\ WF_vars(CourierStep)

-----------------------------------------------------------------------------
(***************************************************************************)
(* Properties.                                                             *)
(***************************************************************************)

Envelopes ==
    [id : 1 .. MaxPublish, from : Names, intent : {"block", "request", "inform"},
     text : BOOLEAN, re : {0}]
    \cup [id : {0}, from : Names, intent : {"ack"}, text : {FALSE},
          re : 1 .. MaxPublish]

\* The type of the session, of the bus and of the dispatch loops; an inbox
\* holds no more than its capacity (bus.go:107).
TypeOK ==
    /\ SessionTypeOK
    /\ joined \subseteq Names
    /\ inbox \in [Names -> Seq(Envelopes)]
    /\ \A a \in Names : Len(inbox[a]) <= Buf
    /\ urgent \in 0 .. UrgentCap
    /\ stand \in {"idle", "session", "answer", "off"}
    /\ hand \in Envelopes \cup {NoMessage}
    /\ published \in 0 .. MaxPublish

TextsOf(turns) == [i \in DOMAIN turns |-> turns[i].text]
IdsOf(box) == [i \in DOMAIN box |-> box[i].id]

\* The numbers of the messages on their way through the courier, from the
\* turn the session is in back to the inbox; 0 is none.
OnTheWay ==
    <<turn.text>> \o TextsOf(work) \o <<offer[Caller].text>> \o IdsOf(inbox[Me])

Rising(s) ==
    \A i, j \in DOMAIN s : i < j /\ s[i] > 0 /\ s[j] > 0 => s[i] < s[j]

\* Blocks and other messages reach the session's turns in the order they
\* were published, whatever they and the others in the two queues are, and
\* none twice (courier.go:45, PROTOCOL.md:74).  That is so on the in-memory bus;
\* the one over SQLite may hand a message over again (sqlite.go:312, 443).
InPublicationOrder == Rising(OnTheWay)

Held(box) == {box[i] : i \in DOMAIN box}

\* Message n has reached the courier and is not done with.
InHand(n) == hand.id = n \/ \E m \in Held(inbox[Me]) : m.id = n

\* An answer of the courier says that it is done with the message: the
\* session has accepted it, or refused it (agent.go:95).
AnswerComesLast ==
    \A a \in Names : \A x \in Held(inbox[a]) :
        x.intent = "ack" /\ x.from = Me =>
            ~InHand(x.re) /\ offer[Caller].text # x.re

\* No two messages of an inbox have the same number.
Distinct(box) ==
    \A i, j \in DOMAIN box : box[i].id = box[j].id => i = j \/ box[i].id = 0

\* What an inbox can hold when n messages were published.
Sound(box, n) ==
    /\ box \in Seq(Envelopes) /\ Len(box) <= Buf
    /\ \A m \in Held(box) : m.id <= n /\ m.re <= n

\* What makes AnswerComesLast inductive: a message is in one place at a time,
\* and the session is called just while the loop waits for it.
CourierInv ==
    /\ TypeOK /\ SessionInv
    /\ stand \in {"session", "answer"} => hand \in Envelopes /\ hand.intent # "ack"
    /\ stand = "answer" => Answers(hand)
    /\ stand \in {"idle", "off"} => hand = NoMessage
    /\ \/ calling[Caller] = "idle" /\ offer[Caller] = NoTurn
       \/ calling[Caller] # "idle" /\ stand = "session" /\ offer[Caller].text = hand.id
    /\ \A a \in Names : Sound(inbox[a], published)
    /\ Distinct(inbox[Me])
    /\ hand.id <= published
    /\ hand.id # 0 => \A m \in Held(inbox[Me]) : m.id # hand.id
    /\ AnswerComesLast

Before(A, B) == \A a \in A, b \in B : a > 0 /\ b > 0 => a < b

\* The order piece by piece, and that no number is in use that was not given
\* to a message: the next one comes after all.
OrderInv ==
    LET begun == {turn.text}
        queued == TextsOf(work)
        called == {offer[Caller].text}
        waiting == IdsOf(inbox[Me])
    IN  /\ Rising(queued) /\ Rising(waiting)
        /\ Before(begun, Held(queued) \cup called \cup Held(waiting))
        /\ Before(Held(queued), called \cup Held(waiting))
        /\ Before(called, Held(waiting))
        /\ begun \cup Held(queued) \cup called \cup Held(waiting) \subseteq 0 .. published

\* The courier has got done with every message that reached it.
DoneWithAll == hand = NoMessage /\ inbox[Me] = <<>>

\* Each of the messages published, MaxPublish at most, is got done with by the
\* courier it reaches, also when the session ends while the courier waits for
\* room (agent.go:79, fake.go:394).
NobodyIsLeftWaiting ==
    EventsAreRead /\ CommandsEnd =>
        []<>(DoneWithAll \/ gone[Caller])
=============================================================================
