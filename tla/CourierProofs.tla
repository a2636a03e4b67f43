---------------------------- MODULE CourierProofs ----------------------------
(***************************************************************************)
(* The courier keeps its type, drives its session only as the session's    *)
(* contract allows, and answers a message only when it is done with it.    *)
(* For any peers, messages, scripts and capacities.                        *)
(***************************************************************************)
EXTENDS Courier, SessionProofs

(***************************************************************************)
(* Lemmas about inboxes.                                                   *)
(***************************************************************************)

LEMMA BoundFacts ==
    /\ Buf \in Nat /\ UrgentCap \in Nat /\ MaxPublish \in Nat
    /\ Me \in Names /\ Caller \in Callers /\ Texts = 1 .. MaxPublish /\ NoText = 0
BY BoundAssumption, CallerAssumption, TextsAssumption DEF Names

LEMMA EnvelopeFacts ==
    ASSUME NEW m \in Envelopes
    PROVE  /\ m.id \in Nat /\ m.re \in Nat /\ m.from \in Names
           /\ m.intent = "ack" => m.id = 0 /\ m.re \in 1 .. MaxPublish
           /\ m.intent # "ack" => m.id \in 1 .. MaxPublish /\ m.re = 0
           /\ Answers(m) <=> m.intent \notin {"inform", "ack"}
<1>1. m.from \in Names
  BY DEF Envelopes
<1>2. m.from # Nobody
  BY <1>1, NamesAssumption
<1>3. /\ m.id \in Nat /\ m.re \in Nat
      /\ m.intent = "ack" => m.id = 0 /\ m.re \in 1 .. MaxPublish
      /\ m.intent # "ack" => m.id \in 1 .. MaxPublish /\ m.re = 0
  <2>1. \A k \in 1 .. MaxPublish : k \in Nat
    BY BoundFacts
  <2>2. \/ m.id \in 1 .. MaxPublish /\ m.intent \in {"block", "request", "inform"} /\ m.re = 0
        \/ m.id = 0 /\ m.intent = "ack" /\ m.re \in 1 .. MaxPublish
    BY DEF Envelopes
  <2> QED BY <2>1, <2>2
<1>4. Answers(m) <=> m.intent \notin {"inform", "ack"}
  BY <1>2 DEF Answers, WantsResponse
<1> QED BY <1>1, <1>3, <1>4

LEMMA AppendFacts ==
    ASSUME NEW n \in Nat, NEW box, Sound(box, n), Len(box) < Buf,
           NEW m \in Envelopes, m.id <= n, m.re <= n
    PROVE  /\ Sound(Append(box, m), n)
           /\ Held(Append(box, m)) = Held(box) \cup {m}
           /\ Distinct(box) /\ (m.id = 0 \/ \A x \in Held(box) : x.id # m.id)
                => Distinct(Append(box, m))
<1> DEFINE more == Append(box, m)
<1>1. /\ box \in Seq(Envelopes) /\ Len(box) \in Nat
      /\ more \in Seq(Envelopes) /\ Len(more) = Len(box) + 1
      /\ DOMAIN box = 1 .. Len(box) /\ DOMAIN more = 1 .. Len(box) + 1
      /\ more[Len(box) + 1] = m
      /\ \A i \in 1 .. Len(box) : more[i] = box[i]
  BY DEF Sound
<1> HIDE DEF more
<1>2. Held(more) = Held(box) \cup {m}
  <2>1. ASSUME NEW x \in Held(more)
        PROVE  x \in Held(box) \cup {m}
    <3>1. PICK i \in 1 .. Len(box) + 1 : x = more[i]
      BY <1>1 DEF Held
    <3>2. i \in 1 .. Len(box) \/ i = Len(box) + 1
      BY <1>1
    <3> QED BY <1>1, <3>1, <3>2 DEF Held
  <2>2. ASSUME NEW x \in Held(box) \cup {m}
        PROVE  x \in Held(more)
    <3>1. CASE x = m
      <4>1. Len(box) + 1 \in DOMAIN more
        BY <1>1
      <4> QED BY <1>1, <3>1, <4>1 DEF Held
    <3>2. CASE x \in Held(box)
      <4>1. PICK i \in 1 .. Len(box) : x = box[i]
        BY <1>1, <3>2 DEF Held
      <4>2. i \in DOMAIN more /\ x = more[i]
        BY <1>1, <4>1
      <4> QED BY <4>2 DEF Held
    <3> QED BY <3>1, <3>2
  <2> QED BY <2>1, <2>2
<1>3. Sound(more, n)
  BY <1>1, <1>2, BoundFacts DEF Sound
<1>4. ASSUME Distinct(box), m.id = 0 \/ \A x \in Held(box) : x.id # m.id
      PROVE  Distinct(more)
  <2> SUFFICES ASSUME NEW i \in DOMAIN more, NEW j \in DOMAIN more,
                      more[i].id = more[j].id, more[i].id # 0
               PROVE  i = j
    BY DEF Distinct
  <2>1. \A k \in 1 .. Len(box) : box[k] \in Held(box)
    BY <1>1 DEF Held
  <2>2. (i \in 1 .. Len(box) \/ i = Len(box) + 1) /\ (j \in 1 .. Len(box) \/ j = Len(box) + 1)
    BY <1>1
  <2>3. CASE i \in 1 .. Len(box) /\ j \in 1 .. Len(box)
    BY <1>1, <1>4, <2>3 DEF Distinct
  <2>4. CASE i \in 1 .. Len(box) /\ j = Len(box) + 1
    BY <1>1, <1>4, <2>1, <2>4
  <2>5. CASE i = Len(box) + 1 /\ j \in 1 .. Len(box)
    BY <1>1, <1>4, <2>1, <2>5
  <2> QED BY <2>2, <2>3, <2>4, <2>5
<1> QED BY <1>2, <1>3, <1>4 DEF more

LEMMA TailFacts ==
    ASSUME NEW n \in Nat, NEW box, Sound(box, n), box # <<>>
    PROVE  /\ Head(box) \in Envelopes /\ Head(box) \in Held(box)
           /\ Sound(Tail(box), n)
           /\ Held(Tail(box)) \subseteq Held(box)
           /\ Distinct(box) =>
                  /\ Distinct(Tail(box))
                  /\ Head(box).id # 0 =>
                        \A x \in Held(Tail(box)) : x.id # Head(box).id
<1> DEFINE rest == Tail(box)
<1>1. /\ box \in Seq(Envelopes) /\ Len(box) \in Nat \ {0}
      /\ rest \in Seq(Envelopes) /\ Len(rest) = Len(box) - 1
      /\ DOMAIN box = 1 .. Len(box) /\ DOMAIN rest = 1 .. Len(box) - 1
      /\ Head(box) = box[1]
      /\ \A i \in 1 .. Len(box) - 1 : rest[i] = box[i + 1]
  BY DEF Sound
<1> HIDE DEF rest
<1>2. Head(box) \in Envelopes /\ Head(box) \in Held(box)
  BY <1>1 DEF Held
<1>3. ASSUME NEW x \in Held(rest)
      PROVE  \E i \in 2 .. Len(box) : i \in DOMAIN box /\ x = box[i]
  <2>1. PICK i \in 1 .. Len(box) - 1 : x = rest[i]
    BY <1>1, <1>3 DEF Held
  <2>2. i + 1 \in 2 .. Len(box) /\ i + 1 \in DOMAIN box /\ x = box[i + 1]
    BY <1>1, <2>1
  <2> QED BY <2>2
<1>4. Held(rest) \subseteq Held(box)
  BY <1>3 DEF Held
<1>5. Sound(rest, n)
  BY <1>1, <1>4, BoundFacts DEF Sound
<1>6. ASSUME Distinct(box)
      PROVE  Distinct(rest)
  <2> SUFFICES ASSUME NEW i \in DOMAIN rest, NEW j \in DOMAIN rest,
                      rest[i].id = rest[j].id, rest[i].id # 0
               PROVE  i = j
    BY DEF Distinct
  <2>1. i + 1 \in DOMAIN box /\ j + 1 \in DOMAIN box /\ i \in Nat /\ j \in Nat
        /\ rest[i] = box[i + 1] /\ rest[j] = box[j + 1]
    BY <1>1
  <2>2. i + 1 = j + 1
    BY <1>6, <2>1 DEF Distinct
  <2> QED BY <2>1, <2>2
<1>7. ASSUME Distinct(box), Head(box).id # 0, NEW x \in Held(rest)
      PROVE  x.id # Head(box).id
  <2>1. PICK i \in 2 .. Len(box) : i \in DOMAIN box /\ x = box[i]
    BY <1>3, <1>7
  <2>2. 1 \in DOMAIN box /\ i # 1
    BY <1>1
  <2> QED BY <1>1, <1>7, <2>1, <2>2 DEF Distinct
<1> QED BY <1>2, <1>4, <1>5, <1>6, <1>7 DEF rest

LEMMA DeliveredFacts ==
    ASSUME NEW n \in Nat, NEW boxes \in [Names -> Seq(Envelopes)],
           \A a \in Names : Sound(boxes[a], n),
           NEW m \in Envelopes, m.id <= n, m.re <= n, NEW to
    PROVE  /\ Delivered(boxes, m, to) \in [Names -> Seq(Envelopes)]
           /\ \A a \in Names :
                  /\ Sound(Delivered(boxes, m, to)[a], n)
                  /\ Held(Delivered(boxes, m, to)[a]) \subseteq Held(boxes[a]) \cup {m}
                  /\ Distinct(boxes[a]) /\ (m.id = 0 \/ \A x \in Held(boxes[a]) : x.id # m.id)
                        => Distinct(Delivered(boxes, m, to)[a])
<1> DEFINE more == Delivered(boxes, m, to)
<1>1. \A a \in Names :
          \/ more[a] = boxes[a]
          \/ Len(boxes[a]) < Buf /\ more[a] = Append(boxes[a], m)
  BY DEF Delivered
<1>2. more = [a \in Names |-> more[a]]
  BY DEF Delivered
<1> HIDE DEF more
<1>3. ASSUME NEW a \in Names
      PROVE  /\ Sound(more[a], n)
             /\ Held(more[a]) \subseteq Held(boxes[a]) \cup {m}
             /\ Distinct(boxes[a]) /\ (m.id = 0 \/ \A x \in Held(boxes[a]) : x.id # m.id)
                   => Distinct(more[a])
  <2>1. CASE more[a] = boxes[a]
    BY <2>1
  <2>2. CASE Len(boxes[a]) < Buf /\ more[a] = Append(boxes[a], m)
    BY <2>2, AppendFacts
  <2> QED BY <1>1, <2>1, <2>2
<1>4. more \in [Names -> Seq(Envelopes)]
  BY <1>2, <1>3 DEF Sound
<1> QED BY <1>3, <1>4 DEF more

\* An inbox whose first message was taken.
LEMMA TakenFacts ==
    ASSUME NEW n \in Nat, NEW boxes \in [Names -> Seq(Envelopes)],
           \A a \in Names : Sound(boxes[a], n),
           NEW b \in Names, boxes[b] # <<>>
    PROVE  LET taken == [boxes EXCEPT ![b] = Tail(@)]
           IN  /\ taken \in [Names -> Seq(Envelopes)]
               /\ \A a \in Names :
                      /\ Sound(taken[a], n)
                      /\ Held(taken[a]) \subseteq Held(boxes[a])
                      /\ Distinct(boxes[a]) => Distinct(taken[a])
<1> DEFINE taken == [boxes EXCEPT ![b] = Tail(@)]
<1>1. taken = [a \in Names |-> IF a = b THEN Tail(boxes[b]) ELSE boxes[a]]
  OBVIOUS
<1>2. \A a \in Names : taken[a] = IF a = b THEN Tail(boxes[b]) ELSE boxes[a]
  BY <1>1
<1> HIDE DEF taken
<1>3. /\ Sound(Tail(boxes[b]), n) /\ Held(Tail(boxes[b])) \subseteq Held(boxes[b])
      /\ Distinct(boxes[b]) => Distinct(Tail(boxes[b]))
  BY TailFacts
<1>4. \A a \in Names :
          /\ Sound(taken[a], n)
          /\ Held(taken[a]) \subseteq Held(boxes[a])
          /\ Distinct(boxes[a]) => Distinct(taken[a])
  BY <1>2, <1>3
<1>5. taken \in [Names -> Seq(Envelopes)]
  BY <1>1, <1>4 DEF Sound
<1> QED BY <1>4, <1>5 DEF taken

(***************************************************************************)
(* The courier drives its session as any caller may.                       *)
(***************************************************************************)

LEMMA CourierDrives == CourierInv /\ [Next]_vars => [SessionNext]_sessionVars
<1> SUFFICES ASSUME CourierInv, [Next]_vars
             PROVE  SessionNext \/ UNCHANGED sessionVars
  OBVIOUS
<1>1. CASE Dispatch
  <2> DEFINE m == Head(inbox[Me])
  <2>1. m \in Envelopes
    <3>1. Sound(inbox[Me], published) /\ inbox[Me] # <<>> /\ published \in Nat
      BY <1>1, BoundFacts DEF Dispatch, CourierInv, TypeOK
    <3> QED BY <3>1, TailFacts
  <2>2. CASE Relays(m) /\ Call(Caller, Verb(m), m.id)
    <3>1. m.id \in Texts /\ Verb(m) \in Verbs /\ Caller \in Callers
      BY <2>1, <2>2, EnvelopeFacts, BoundFacts DEF Relays, Verb, Verbs
    <3> QED BY <2>2, <3>1 DEF SessionNext
  <2>3. CASE UNCHANGED sessionVars
    BY <2>3
  <2> QED BY <1>1, <2>2, <2>3 DEF Dispatch
<1>2. CASE Publish \/ Teardown \/ HandlerReturns \/ Answer \/ RunReturns
           \/ \E a \in Peers : PeerDispatch(a)
  BY <1>2 DEF Publish, Teardown, HandlerReturns, Answer, RunReturns, PeerDispatch
<1>3. CASE SessionStep
  BY <1>3 DEF SessionNext
<1>4. CASE UNCHANGED vars
  BY <1>4 DEF vars
<1> QED BY <1>1, <1>2, <1>3, <1>4 DEF Next, CourierStep

\* What a step of the session means to its caller: it returns, or goes on
\* with the message it has.
LEMMA CallerFacts ==
    ASSUME SessionTypeOK, SessionStep
    PROVE  \/ calling'[Caller] = "idle" /\ offer'[Caller] = NoTurn
           \/ /\ offer'[Caller] = offer[Caller]
              /\ calling'[Caller] = "idle" <=> calling[Caller] = "idle"
<1> USE DEF call, loop, counts
<1>1. /\ calling \in [Callers -> {"idle", "receipt", "offer"}]
      /\ offer \in [Callers -> Queueable \cup {NoTurn}]
      /\ Callers = {Caller}
  BY CallerAssumption DEF SessionTypeOK
<1>2. ASSUME NEW c \in Callers, CallStep(c)
      PROVE  \/ calling'[Caller] = "idle" /\ offer'[Caller] = NoTurn
             \/ /\ offer'[Caller] = offer[Caller]
                /\ calling'[Caller] = "idle" <=> calling[Caller] = "idle"
  <2>1. CASE Return(c)
    BY <1>1, <2>1 DEF Return
  <2>2. CASE Receipt(c)
    BY <1>1, <2>2 DEF Receipt
  <2> QED BY <1>2, <2>1, <2>2 DEF CallStep, Accepted, Refused
<1>3. ASSUME NEW c \in Callers, Cancel(c)
      PROVE  UNCHANGED <<calling, offer>>
  BY <1>3 DEF Cancel
<1>4. CASE LoopStep
  BY <1>4 DEF LoopStep, Say, TakeWork, SeeDone, NextAction, Kill, Run, RunExit, Drain,
              ReportDrained, Farewell, CloseEvents, Stop
<1>5. CASE ExecEnds \/ OutputReleased \/ Interrupt \/ CloseDone \/ Read
  BY <1>5 DEF ExecEnds, OutputReleased, Run, Interrupt, CloseDone, Read
<1> QED BY <1>2, <1>3, <1>4, <1>5 DEF SessionStep

(***************************************************************************)
(* The courier's invariant.                                                *)
(***************************************************************************)

LEMMA CourierInvInit == Init => CourierInv
<1> SUFFICES ASSUME Init
             PROVE  CourierInv
  OBVIOUS
<1>1. SessionInv
  BY SessionInvInit DEF Init
<1>2. /\ calling[Caller] = "idle" /\ offer[Caller] = NoTurn
      /\ inbox[Me] = <<>> /\ hand.id = 0 /\ hand = NoMessage
  BY BoundFacts DEF Init, SessionInit, NoMessage
<1>3. \A a \in Names : Sound(inbox[a], published) /\ Held(inbox[a]) = {}
  BY BoundFacts DEF Init, Sound, Held
<1>4. TypeOK
  BY <1>1, <1>3, BoundFacts DEF Init, SessionInv, TypeOK, Sound
<1>5. Distinct(inbox[Me])
  BY <1>2 DEF Distinct
<1>6. AnswerComesLast
  BY <1>3 DEF AnswerComesLast
<1> QED BY <1>1, <1>2, <1>3, <1>4, <1>5, <1>6 DEF Init, CourierInv

\* What the invariant says of the messages, without the courier's own words.
LEMMA MessageFacts ==
    ASSUME CourierInv
    PROVE  /\ published \in Nat /\ published <= MaxPublish
           /\ inbox \in [Names -> Seq(Envelopes)]
           /\ \A a \in Names : Sound(inbox[a], published)
           /\ Distinct(inbox[Me])
           /\ \A a \in Names : \A x \in Held(inbox[a]) :
                  x \in Envelopes /\ x.id <= published /\ x.re <= published
           /\ hand.id \in Nat /\ hand.id <= published
           /\ hand.id # 0 => \A x \in Held(inbox[Me]) : x.id # hand.id
<1>1. published \in Nat /\ published <= MaxPublish /\ inbox \in [Names -> Seq(Envelopes)]
  BY BoundFacts DEF CourierInv, TypeOK
<1>2. \A a \in Names : \A x \in Held(inbox[a]) : x \in Envelopes
  BY <1>1 DEF Held
<1>3. hand.id \in Nat
  BY EnvelopeFacts DEF CourierInv, TypeOK, NoMessage
<1> QED BY <1>1, <1>2, <1>3 DEF CourierInv, Sound

\* The invariant is about the session only through the courier's call.
LEMMA CourierInvKept ==
    ASSUME CourierInv, SessionInv',
           joined' \subseteq Names, urgent' = urgent \/ urgent' \in 0 .. UrgentCap,
           published' = published,
           inbox' \in [Names -> Seq(Envelopes)],
           \A a \in Names : Sound(inbox'[a], published),
           Distinct(inbox'[Me]),
           stand' \in {"idle", "session", "answer", "off"},
           stand' \in {"session", "answer"} => hand' \in Envelopes /\ hand'.intent # "ack",
           stand' = "answer" => Answers(hand'),
           stand' \in {"idle", "off"} => hand' = NoMessage,
           \/ calling'[Caller] = "idle" /\ offer'[Caller] = NoTurn
           \/ /\ calling'[Caller] # "idle" /\ stand' = "session"
              /\ offer'[Caller].text = hand'.id,
           hand'.id <= published,
           hand'.id # 0 => \A m \in Held(inbox'[Me]) : m.id # hand'.id,
           AnswerComesLast'
    PROVE  CourierInv'
<1>1. TypeOK'
  BY MessageFacts DEF CourierInv, SessionInv, TypeOK, Sound
<1> QED BY <1>1 DEF CourierInv

LEMMA CourierInvStep == CourierInv /\ [Next]_vars => CourierInv'
<1> SUFFICES ASSUME CourierInv, [Next]_vars
             PROVE  CourierInv'
  OBVIOUS
<1> USE DEF bus, dispatch
<1>0. /\ SessionInv' /\ SessionTypeOK /\ joined \subseteq Names
      /\ stand \in {"idle", "session", "answer", "off"}
      /\ urgent \in 0 .. UrgentCap
      /\ NoTurn.text = 0 /\ NoMessage.id = 0 /\ Me \in Names
  BY CourierDrives, SessionInvStep, BoundFacts
     DEF CourierInv, TypeOK, NoTurn, Turn, NoMessage
<1>a. \A a \in Names : \A x \in Held(inbox[a]) :
          x.intent = "ack" => x.re \in Nat \ {0}
  BY MessageFacts, EnvelopeFacts, BoundFacts
<1>b. UNCHANGED sessionVars =>
          UNCHANGED <<calling, offer, calling[Caller], offer[Caller]>>
  BY DEF sessionVars, call
<1>c. /\ stand \in {"session", "answer"} => hand \in Envelopes /\ hand.intent # "ack"
      /\ stand = "answer" => Answers(hand)
      /\ stand \in {"idle", "off"} => hand = NoMessage
      /\ \/ calling[Caller] = "idle" /\ offer[Caller] = NoTurn
         \/ calling[Caller] # "idle" /\ stand = "session" /\ offer[Caller].text = hand.id
  BY DEF CourierInv
<1>d. \A a \in Names : \A x \in Held(inbox[a]) :
          x.intent = "ack" /\ x.from = Me =>
              /\ hand.id # x.re /\ offer[Caller].text # x.re
              /\ \A m \in Held(inbox[Me]) : m.id # x.re
  BY DEF CourierInv, AnswerComesLast, InHand
<1>1. CASE Publish
  <2>0. PICK o \in Outgoing :
           inbox' = Delivered(inbox, [id |-> published', from |-> o.from,
                                      intent |-> o.intent, text |-> o.text, re |-> 0],
                              o.to)
    BY <1>1 DEF Publish
  <2> DEFINE m == [id |-> published + 1, from |-> o.from, intent |-> o.intent,
                   text |-> o.text, re |-> 0]
  <2>2. /\ published' = published + 1 /\ published + 1 \in 1 .. MaxPublish
        /\ published \in Nat
    BY <1>1, MessageFacts, BoundFacts DEF Publish
  <2>3. m \in Envelopes /\ m.id = published + 1 /\ m.re = 0 /\ m.intent # "ack"
    BY <2>2, OutgoingAssumption DEF Envelopes
  <2>1. inbox' = Delivered(inbox, m, o.to)
    BY <2>0, <2>2
  <2> HIDE DEF m
  <2>4. \A a \in Names : Sound(inbox[a], published + 1)
    BY <2>2, MessageFacts, EnvelopeFacts DEF Sound
  <2>5. \A x \in Held(inbox[Me]) : x.id # m.id
    BY <2>2, <2>3, <1>0, MessageFacts, EnvelopeFacts
  <2>6. /\ inbox' \in [Names -> Seq(Envelopes)]
        /\ \A a \in Names :
              /\ Sound(inbox'[a], published')
              /\ Held(inbox'[a]) \subseteq Held(inbox[a]) \cup {m}
        /\ Distinct(inbox'[Me])
    <3>1. published + 1 \in Nat /\ m.id <= published + 1 /\ m.re <= published + 1
          /\ inbox \in [Names -> Seq(Envelopes)] /\ Distinct(inbox[Me])
      BY <2>2, <2>3, MessageFacts
    <3>2. /\ Delivered(inbox, m, o.to) \in [Names -> Seq(Envelopes)]
          /\ \A a \in Names :
                /\ Sound(Delivered(inbox, m, o.to)[a], published + 1)
                /\ Held(Delivered(inbox, m, o.to)[a]) \subseteq Held(inbox[a]) \cup {m}
                /\ Distinct(inbox[a]) /\ (m.id = 0 \/ \A x \in Held(inbox[a]) : x.id # m.id)
                      => Distinct(Delivered(inbox, m, o.to)[a])
      BY <2>3, <2>4, <3>1, DeliveredFacts
    <3> QED BY <1>0, <2>1, <2>2, <2>5, <3>1, <3>2
  <2>7. UNCHANGED <<joined, urgent, stand, hand, calling, offer>>
    BY <1>1, <1>b DEF Publish
  <2>8. hand'.id <= published' /\ hand.id # m.id
    BY <2>2, <2>3, <2>7, MessageFacts
  <2>9. AnswerComesLast'
    <3> SUFFICES ASSUME NEW a \in Names, NEW x \in Held(inbox'[a]),
                        x.intent = "ack", x.from = Me
                 PROVE  /\ hand.id # x.re /\ offer[Caller].text # x.re
                        /\ \A y \in Held(inbox'[Me]) : y.id # x.re
      BY <2>7 DEF AnswerComesLast, InHand
    <3>1. x \in Held(inbox[a])
      BY <2>3, <2>6
    <3>2. m.id # x.re
      BY <2>2, <2>3, <3>1, MessageFacts, EnvelopeFacts
    <3> QED BY <1>0, <1>d, <2>6, <3>1, <3>2
  <2>10. TypeOK'
    BY <1>0, <2>2, <2>6, <2>7 DEF CourierInv, SessionInv, TypeOK, Sound
  <2>11. hand'.id # 0 => \A y \in Held(inbox'[Me]) : y.id # hand'.id
    BY <1>0, <2>6, <2>7, <2>8, MessageFacts
  <2> QED BY <1>0, <1>c, <2>6, <2>7, <2>8, <2>9, <2>10, <2>11 DEF CourierInv
<1>2. CASE Teardown \/ UNCHANGED vars
  <2>1. /\ UNCHANGED <<inbox, urgent, stand, hand, published, calling, offer>>
        /\ joined' \subseteq Names
    BY <1>0, <1>2, <1>b DEF Teardown, vars
  <2>2. AnswerComesLast'
    BY <1>d, <2>1 DEF AnswerComesLast, InHand
  <2> QED BY <1>0, <1>c, <2>1, <2>2, MessageFacts, CourierInvKept
<1>3. CASE Dispatch
  <2> DEFINE m == Head(inbox[Me])
             rest == [inbox EXCEPT ![Me] = Tail(@)]
  <2>1. inbox[Me] # <<>> /\ inbox' = rest /\ published' = published /\ joined' = joined
        /\ stand = "idle" /\ urgent' \in 0 .. UrgentCap
    BY <1>0, <1>3, BoundFacts DEF Dispatch
  <2>2. /\ m \in Envelopes /\ m \in Held(inbox[Me])
        /\ m.id # 0 => \A x \in Held(rest[Me]) : x.id # m.id
    <3>1. /\ m \in Envelopes /\ m \in Held(inbox[Me])
          /\ m.id # 0 => \A x \in Held(Tail(inbox[Me])) : x.id # m.id
      BY <1>0, <2>1, MessageFacts, TailFacts
    <3>2. rest[Me] = Tail(inbox[Me])
      BY <1>0, MessageFacts
    <3> QED BY <3>1, <3>2
  <2>3. /\ inbox' \in [Names -> Seq(Envelopes)]
        /\ \A a \in Names : Sound(inbox'[a], published)
                           /\ Held(inbox'[a]) \subseteq Held(inbox[a])
        /\ Distinct(inbox'[Me])
    BY <1>0, <2>1, MessageFacts, TakenFacts
  <2>4. hand = NoMessage /\ calling[Caller] = "idle" /\ offer[Caller] = NoTurn
    BY <1>c, <2>1
  <2>5. m.id <= published /\ m.re <= published
    BY <1>0, <2>2, MessageFacts
  <2>6. \A a \in Names : \A x \in Held(inbox'[a]) :
            x.intent = "ack" /\ x.from = Me =>
                /\ m.id # x.re /\ x.re # 0
                /\ \A y \in Held(inbox'[Me]) : y.id # x.re
    BY <1>0, <1>a, <1>d, <2>2, <2>3
  <2> HIDE DEF m, rest
  <2>7. CASE Relays(m) /\ Call(Caller, Verb(m), m.id) /\ Goto("session", m)
    <3>1. calling'[Caller] = "receipt" /\ offer'[Caller].text = m.id
      <4>1. PICK acts : offer' = [offer EXCEPT ![Caller] = Turn(m.id, Verb(m), acts)]
        BY <2>7 DEF Call
      <4>2. Caller \in DOMAIN calling /\ Caller \in DOMAIN offer
        BY <1>0, BoundFacts DEF SessionTypeOK
      <4> QED BY <2>7, <4>1, <4>2 DEF Call, Turn
    <3>2. stand' = "session" /\ hand' = m /\ m.intent # "ack"
      BY <2>7 DEF Goto, Relays
    <3>3. AnswerComesLast'
      BY <2>6, <3>1, <3>2 DEF AnswerComesLast, InHand
    <3>4. hand'.id # 0 => \A x \in Held(inbox'[Me]) : x.id # hand'.id
      BY <2>1, <2>2, <3>2
    <3> QED BY <1>0, <2>1, <2>2, <2>3, <2>5, <3>1, <3>2, <3>3, <3>4, CourierInvKept
  <2>8. CASE UNCHANGED sessionVars /\ AfterHandler(m)
    <3>1. calling'[Caller] = "idle" /\ offer'[Caller] = NoTurn
      BY <1>b, <2>4, <2>8
    <3>2. /\ stand' \in {"answer", "idle"}
          /\ stand' = "answer" => hand' = m /\ Answers(m) /\ m.intent # "ack"
          /\ stand' = "idle" => hand' = NoMessage
      BY <2>2, <2>8, EnvelopeFacts DEF AfterHandler, Goto
    <3>3. hand'.id = 0 \/ hand'.id = m.id
      BY <1>0, <3>2
    <3>4. AnswerComesLast'
      <4> SUFFICES ASSUME NEW a \in Names, NEW x \in Held(inbox'[a]),
                          x.intent = "ack", x.from = Me
                   PROVE  /\ hand'.id # x.re /\ offer'[Caller].text # x.re
                          /\ \A y \in Held(inbox'[Me]) : y.id # x.re
        BY DEF AnswerComesLast, InHand
      <4> QED BY <1>0, <2>6, <3>1, <3>3
    <3>5. hand'.id # 0 => \A x \in Held(inbox'[Me]) : x.id # hand'.id
      BY <2>1, <2>2, <3>3
    <3>6. hand'.id <= published
      BY <2>5, <3>3, MessageFacts
    <3> QED BY <1>0, <2>1, <2>2, <2>3, <3>1, <3>2, <3>4, <3>5, <3>6, CourierInvKept
  <2> QED BY <1>3, <2>7, <2>8 DEF Dispatch, m
<1>4. CASE HandlerReturns \/ RunReturns
  <2>1. UNCHANGED <<inbox, joined, urgent, published, calling, offer>>
    BY <1>4, <1>b DEF HandlerReturns, RunReturns
  <2>2. /\ stand' \in {"answer", "idle", "off"}
        /\ stand' = "answer" => hand' = hand /\ hand \in Envelopes
                                /\ Answers(hand) /\ hand.intent # "ack"
        /\ stand' \in {"idle", "off"} => hand' = NoMessage
        /\ calling[Caller] = "idle"
    <3>1. CASE HandlerReturns
      BY <1>c, <3>1 DEF HandlerReturns, AfterHandler, Goto
    <3>2. CASE RunReturns
      BY <1>c, <3>2 DEF RunReturns, Goto
    <3> QED BY <1>4, <3>1, <3>2
  <2>3. hand'.id = 0 \/ hand'.id = hand.id
    BY <1>0, <2>2
  <2>4. hand'.id <= published
    BY <2>3, MessageFacts
  <2>5. hand'.id # 0 => \A x \in Held(inbox'[Me]) : x.id # hand'.id
    BY <2>1, <2>3, MessageFacts
  <2>6. AnswerComesLast'
    <3> SUFFICES ASSUME NEW a \in Names, NEW x \in Held(inbox[a]),
                        x.intent = "ack", x.from = Me
                 PROVE  /\ hand'.id # x.re /\ offer[Caller].text # x.re
                        /\ \A y \in Held(inbox[Me]) : y.id # x.re
      BY <2>1 DEF AnswerComesLast, InHand
    <3> QED BY <1>a, <1>d, <2>3
  <2> QED BY <1>0, <1>c, <2>1, <2>2, <2>4, <2>5, <2>6, MessageFacts, CourierInvKept
<1>5. CASE Answer
  <2> DEFINE m == Ack(Me, hand)
  <2>1. /\ stand = "answer" /\ inbox' = Delivered(inbox, m, hand.from)
        /\ stand' = "idle" /\ hand' = NoMessage
        /\ UNCHANGED <<joined, published, urgent, calling, offer>>
    BY <1>5, <1>b DEF Answer, Goto
  <2>2. hand \in Envelopes /\ hand.intent # "ack" /\ hand.id \in 1 .. MaxPublish
    BY <1>c, <2>1, EnvelopeFacts
  <2>3. /\ m \in Envelopes /\ m.id = 0 /\ m.re = hand.id
        /\ m.id <= published /\ m.re <= published
    BY <1>0, <2>2, MessageFacts DEF Ack, Envelopes
  <2> HIDE DEF m
  <2>4. /\ inbox' \in [Names -> Seq(Envelopes)]
        /\ \A a \in Names :
              /\ Sound(inbox'[a], published)
              /\ Held(inbox'[a]) \subseteq Held(inbox[a]) \cup {m}
        /\ Distinct(inbox'[Me])
    <3>1. /\ published \in Nat /\ inbox \in [Names -> Seq(Envelopes)]
          /\ \A a \in Names : Sound(inbox[a], published)
          /\ Distinct(inbox[Me])
      BY MessageFacts
    <3> QED BY <1>0, <2>1, <2>3, <3>1, DeliveredFacts
  <2>5. calling[Caller] = "idle" /\ offer[Caller] = NoTurn
    BY <1>c, <2>1
  <2>6. AnswerComesLast'
    <3> SUFFICES ASSUME NEW a \in Names, NEW x \in Held(inbox'[a]),
                        x.intent = "ack", x.from = Me
                 PROVE  x.re # 0 /\ \A y \in Held(inbox'[Me]) : y.id # x.re
      BY <1>0, <2>1, <2>5 DEF AnswerComesLast, InHand
    <3>1. x.re # 0 /\ \A y \in Held(inbox[Me]) : y.id # x.re
      <4>1. CASE x = m
        BY <2>2, <2>3, <4>1, MessageFacts
      <4>2. CASE x \in Held(inbox[a])
        BY <1>a, <1>d, <4>2
      <4> QED BY <2>4, <4>1, <4>2
    <3> QED BY <1>0, <2>3, <2>4, <3>1
  <2>7. hand'.id = 0 /\ hand'.id <= published
    BY <1>0, <2>1, MessageFacts
  <2> QED BY <1>0, <2>1, <2>4, <2>5, <2>6, <2>7, CourierInvKept
<1>6. ASSUME NEW p \in Peers, PeerDispatch(p)
      PROVE  CourierInv'
  <2> DEFINE m == Head(inbox[p])
             taken == [inbox EXCEPT ![p] = Tail(@)]
             ack == Ack(p, m)
  <2>1. p \in Names /\ p # Me /\ inbox[p] # <<>>
    BY <1>6, NamesAssumption DEF Names, PeerDispatch
  <2>2. m \in Envelopes /\ m.id <= published /\ m.re <= published /\ m.id \in Nat
    BY <2>1, MessageFacts, TailFacts, EnvelopeFacts
  <2>3. /\ taken \in [Names -> Seq(Envelopes)]
        /\ \A a \in Names :
              /\ Sound(taken[a], published)
              /\ Held(taken[a]) \subseteq Held(inbox[a])
        /\ Distinct(taken[Me])
    BY <1>0, <2>1, MessageFacts, TakenFacts
  <2>4. /\ UNCHANGED <<joined, urgent, stand, hand, published, calling, offer>>
        /\ inbox' = IF Answers(m) THEN Delivered(taken, ack, m.from) ELSE taken
    BY <1>6, <1>b DEF PeerDispatch
  <2>5. Answers(m) => /\ ack \in Envelopes /\ ack.id = 0 /\ ack.from # Me
                      /\ ack.id <= published /\ ack.re <= published
    <3> SUFFICES ASSUME Answers(m)
                 PROVE  /\ ack \in Envelopes /\ ack.id = 0 /\ ack.from # Me
                        /\ ack.id <= published /\ ack.re <= published
      OBVIOUS
    <3>1. m.intent # "ack" /\ m.id \in 1 .. MaxPublish
      BY <2>2, EnvelopeFacts
    <3> QED BY <2>1, <2>2, <3>1, MessageFacts DEF Ack, Envelopes
  <2> HIDE DEF m, taken, ack
  <2>6. /\ inbox' \in [Names -> Seq(Envelopes)]
        /\ Distinct(inbox'[Me])
        /\ \A a \in Names :
              /\ Sound(inbox'[a], published)
              /\ \A x \in Held(inbox'[a]) :
                    \/ x \in Held(inbox[a])
                    \/ x.id = 0 /\ x.from # Me
    <3>1. CASE Answers(m)
      <4>1. /\ Delivered(taken, ack, m.from) \in [Names -> Seq(Envelopes)]
            /\ Distinct(Delivered(taken, ack, m.from)[Me])
            /\ \A a \in Names :
                  /\ Sound(Delivered(taken, ack, m.from)[a], published)
                  /\ Held(Delivered(taken, ack, m.from)[a]) \subseteq Held(taken[a]) \cup {ack}
        <5>1. /\ published \in Nat /\ ack \in Envelopes /\ ack.id = 0
              /\ ack.id <= published /\ ack.re <= published
          BY <2>5, <3>1, MessageFacts
        <5>2. \A a \in Names : Sound(taken[a], published)
          BY <2>3
        <5> QED BY <1>0, <2>3, <5>1, <5>2, DeliveredFacts
      <4> QED BY <2>3, <2>4, <2>5, <3>1, <4>1
    <3>2. CASE ~Answers(m)
      BY <2>3, <2>4, <3>2
    <3> QED BY <3>1, <3>2
  <2>7. AnswerComesLast'
    <3> SUFFICES ASSUME NEW a \in Names, NEW x \in Held(inbox'[a]),
                        x.intent = "ack", x.from = Me
                 PROVE  /\ hand.id # x.re /\ offer[Caller].text # x.re
                        /\ \A y \in Held(inbox'[Me]) : y.id # x.re
      BY <2>4 DEF AnswerComesLast, InHand
    <3>1. x \in Held(inbox[a])
      BY <2>6
    <3> QED BY <1>0, <1>a, <1>d, <2>6, <3>1
  <2>8. hand.id # 0 => \A x \in Held(inbox'[Me]) : x.id # hand.id
    BY <1>0, <2>6, MessageFacts
  <2> QED BY <1>0, <1>c, <2>4, <2>6, <2>7, <2>8, MessageFacts, CourierInvKept
<1>7. CASE SessionStep /\ UNCHANGED <<bus, dispatch>>
  <2>1. UNCHANGED <<inbox, joined, published, urgent, stand, hand>>
    BY <1>7
  <2>2. \/ calling'[Caller] = "idle" /\ offer'[Caller] = NoTurn
        \/ /\ calling'[Caller] # "idle" /\ stand = "session"
           /\ offer'[Caller].text = hand.id /\ offer'[Caller] = offer[Caller]
    BY <1>0, <1>7, <1>c, CallerFacts
  <2>3. AnswerComesLast'
    <3> SUFFICES ASSUME NEW a \in Names, NEW x \in Held(inbox[a]),
                        x.intent = "ack", x.from = Me
                 PROVE  /\ hand.id # x.re /\ offer'[Caller].text # x.re
                        /\ \A y \in Held(inbox[Me]) : y.id # x.re
      BY <2>1 DEF AnswerComesLast, InHand
    <3> QED BY <1>0, <1>a, <1>d, <2>2
  <2> QED BY <1>0, <1>c, <2>1, <2>2, <2>3, MessageFacts, CourierInvKept
<1> QED
  BY <1>1, <1>2, <1>3, <1>4, <1>5, <1>6, <1>7 DEF Next, CourierStep

\* A message is in one place at a time on its way through the courier, and the
\* session is called just while the dispatch loop waits for it (agent.go:95).
THEOREM CourierInvCorrect == Spec => []CourierInv
<1> QED BY CourierInvInit, CourierInvStep, PTL DEF Spec

\* The inboxes, the dispatch loop and the session keep their types, and the
\* channels their capacities (bus.go:107, fake.go:101).
THEOREM CourierTypeCorrect == Spec => []TypeOK
<1>1. CourierInv => TypeOK
  BY DEF CourierInv
<1> QED BY <1>1, CourierInvCorrect, PTL

\* The courier answers a message only once the session has accepted or refused
\* it, whatever its peers send it (agent.go:95).
THEOREM AnswersComeLast == Spec => []AnswerComesLast
<1>1. CourierInv => AnswerComesLast
  BY DEF CourierInv
<1> QED BY <1>1, CourierInvCorrect, PTL

\* Driven by the courier the session is a session.
LEMMA CourierSession == Spec => SessionSpec
<1>1. Init => SessionInit
  BY DEF Init
<1> QED BY <1>1, CourierDrives, CourierInvCorrect, PTL DEF Spec, SessionSpec

\* Driven by the courier the session keeps its contract: a block that arrives
\* over the bus does not cut a turn short (courier.go:18).
THEOREM CourierRefines == Spec => ImplementsTurns
<1> QED BY CourierSession, SessionRefines, PTL

\* The end of a session that serves the bus is announced, although the channel
\* of events is shared with the receipts of its messages (fake.go:316).
THEOREM EndOnTheBus == Spec => []EndIsAnnounced
<1> QED BY CourierSession, EndAnnounced, PTL

\* What the courier's session reports as queued settles (runtime.go:82).
THEOREM ReceiptsOnTheBus == Spec => []ReceiptsSettle
<1> QED BY CourierSession, ReceiptsTruthful, PTL

(***************************************************************************)
(* Messages stay in the order of publication.                              *)
(***************************************************************************)

LEMMA RisingAppend ==
    ASSUME NEW s \in Seq(Nat), NEW n \in Nat, Rising(s), Before(Held(s), {n})
    PROVE  /\ Append(s, n) \in Seq(Nat)
           /\ Rising(Append(s, n))
           /\ Held(Append(s, n)) = Held(s) \cup {n}
<1> DEFINE more == Append(s, n)
<1>1. /\ Len(s) \in Nat /\ DOMAIN s = 1 .. Len(s)
      /\ more \in Seq(Nat) /\ DOMAIN more = 1 .. Len(s) + 1
      /\ more[Len(s) + 1] = n
      /\ \A i \in 1 .. Len(s) : more[i] = s[i] /\ s[i] \in Nat
  OBVIOUS
<1> HIDE DEF more
<1>2. \A i \in 1 .. Len(s) + 1 : i \in 1 .. Len(s) \/ i = Len(s) + 1
  BY <1>1
<1>3. ASSUME NEW x
      PROVE  x \in Held(more) <=> x \in Held(s) \cup {n}
  <2>1. x \in Held(more) <=> \E i \in 1 .. Len(s) + 1 : x = more[i]
    BY <1>1 DEF Held
  <2>2. x \in Held(s) <=> \E i \in 1 .. Len(s) : x = s[i]
    BY <1>1 DEF Held
  <2>3. 1 .. Len(s) \subseteq 1 .. Len(s) + 1 /\ Len(s) + 1 \in 1 .. Len(s) + 1
    BY <1>1
  <2> QED BY <1>1, <1>2, <2>1, <2>2, <2>3
<1>4. Rising(more)
  <2> SUFFICES ASSUME NEW i \in 1 .. Len(s) + 1, NEW j \in 1 .. Len(s) + 1,
                      i < j, more[i] > 0, more[j] > 0
               PROVE  more[i] < more[j]
    BY <1>1 DEF Rising
  <2>1. i \in 1 .. Len(s)
    BY <1>1
  <2>2. CASE j \in 1 .. Len(s)
    BY <1>1, <2>1, <2>2 DEF Rising
  <2>3. CASE j = Len(s) + 1
    <3>1. s[i] \in Held(s)
      BY <1>1, <2>1 DEF Held
    <3> QED BY <1>1, <2>1, <2>3, <3>1 DEF Before
  <2> QED BY <1>2, <2>2, <2>3
<1>5. Held(more) = Held(s) \cup {n}
  BY <1>3
<1> QED BY <1>1, <1>4, <1>5 DEF more

LEMMA RisingTail ==
    ASSUME NEW s \in Seq(Nat), s # <<>>, Rising(s)
    PROVE  /\ Tail(s) \in Seq(Nat) /\ Head(s) \in Nat
           /\ Rising(Tail(s))
           /\ Before({Head(s)}, Held(Tail(s)))
           /\ Held(s) = {Head(s)} \cup Held(Tail(s))
<1> DEFINE rest == Tail(s)
<1>1. /\ Len(s) \in Nat \ {0} /\ DOMAIN s = 1 .. Len(s) /\ Head(s) = s[1]
      /\ rest \in Seq(Nat) /\ DOMAIN rest = 1 .. Len(s) - 1
      /\ \A i \in 1 .. Len(s) - 1 : rest[i] = s[i + 1]
      /\ \A i \in 1 .. Len(s) : s[i] \in Nat
  OBVIOUS
<1> HIDE DEF rest
<1>2. /\ 1 \in 1 .. Len(s)
      /\ \A i \in 1 .. Len(s) - 1 : i + 1 \in 1 .. Len(s) /\ 1 < i + 1
      /\ \A i \in 1 .. Len(s) : i = 1 \/ \E k \in 1 .. Len(s) - 1 : s[i] = rest[k]
  <2>1. ASSUME NEW i \in 1 .. Len(s), i # 1
        PROVE  \E k \in 1 .. Len(s) - 1 : s[i] = rest[k]
    <3>1. PICK k \in 1 .. Len(s) - 1 : i = k + 1
      <4>1. i - 1 \in 1 .. Len(s) - 1 /\ i = (i - 1) + 1
        BY <1>1, <2>1
      <4> QED BY <4>1
    <3> QED BY <1>1, <3>1
  <2>2. /\ 1 \in 1 .. Len(s)
        /\ \A i \in 1 .. Len(s) - 1 : i + 1 \in 1 .. Len(s) /\ 1 < i + 1
    BY <1>1
  <2> QED BY <2>1, <2>2
<1>3. Rising(rest)
  <2> SUFFICES ASSUME NEW i \in 1 .. Len(s) - 1, NEW j \in 1 .. Len(s) - 1,
                      i < j, rest[i] > 0, rest[j] > 0
               PROVE  rest[i] < rest[j]
    BY <1>1 DEF Rising
  <2>1. i + 1 < j + 1 /\ rest[i] = s[i + 1] /\ rest[j] = s[j + 1]
    BY <1>1
  <2> QED BY <1>1, <1>2, <2>1 DEF Rising
<1>4. Before({s[1]}, Held(rest))
  <2> SUFFICES ASSUME NEW i \in 1 .. Len(s) - 1, s[1] > 0, rest[i] > 0
               PROVE  s[1] < rest[i]
    BY <1>1 DEF Before, Held
  <2> QED BY <1>1, <1>2 DEF Rising
<1>5. ASSUME NEW x
      PROVE  x \in Held(s) <=> x \in {s[1]} \cup Held(rest)
  <2>1. x \in Held(s) <=> \E i \in 1 .. Len(s) : x = s[i]
    BY <1>1 DEF Held
  <2>2. x \in Held(rest) <=> \E i \in 1 .. Len(s) - 1 : x = rest[i]
    BY <1>1 DEF Held
  <2> QED BY <1>1, <1>2, <2>1, <2>2
<1>6. Held(s) = {s[1]} \cup Held(rest)
  BY <1>5
<1> QED BY <1>1, <1>3, <1>4, <1>6 DEF rest

LEMMA RisingConcat ==
    ASSUME NEW s \in Seq(Nat), NEW t \in Seq(Nat),
           Rising(s), Rising(t), Before(Held(s), Held(t))
    PROVE  /\ s \o t \in Seq(Nat)
           /\ Rising(s \o t)
           /\ Held(s \o t) \subseteq Held(s) \cup Held(t)
<1> DEFINE both == s \o t
<1>1. /\ Len(s) \in Nat /\ DOMAIN s = 1 .. Len(s)
      /\ Len(t) \in Nat /\ DOMAIN t = 1 .. Len(t)
      /\ both \in Seq(Nat) /\ DOMAIN both = 1 .. Len(s) + Len(t)
      /\ \A i \in 1 .. Len(s) + Len(t) :
            both[i] = IF i <= Len(s) THEN s[i] ELSE t[i - Len(s)]
  BY ConcatProperties
<1> HIDE DEF both
<1>2. ASSUME NEW i \in 1 .. Len(s) + Len(t)
      PROVE  \/ /\ i \in 1 .. Len(s) /\ both[i] = s[i] /\ s[i] \in Held(s)
             \/ /\ i > Len(s) /\ i - Len(s) \in 1 .. Len(t)
                /\ both[i] = t[i - Len(s)] /\ t[i - Len(s)] \in Held(t)
  <2>1. CASE i <= Len(s)
    <3>1. i \in 1 .. Len(s) /\ both[i] = s[i]
      BY <1>1, <2>1
    <3> QED BY <1>1, <3>1 DEF Held
  <2>2. CASE i > Len(s)
    <3>1. i - Len(s) \in 1 .. Len(t) /\ both[i] = t[i - Len(s)]
      BY <1>1, <2>2
    <3> QED BY <1>1, <2>2, <3>1 DEF Held
  <2> QED BY <1>1, <2>1, <2>2
<1>3. Rising(both)
  <2> SUFFICES ASSUME NEW i \in 1 .. Len(s) + Len(t), NEW j \in 1 .. Len(s) + Len(t),
                      i < j, both[i] > 0, both[j] > 0
               PROVE  both[i] < both[j]
    BY <1>1 DEF Rising
  <2>1. CASE i <= Len(s) /\ j <= Len(s)
    <3>1. /\ i \in DOMAIN s /\ j \in DOMAIN s
          /\ both[i] = s[i] /\ both[j] = s[j]
      BY <1>1, <2>1
    <3> QED BY <3>1 DEF Rising
  <2>2. CASE i <= Len(s) /\ j > Len(s)
    <3>1. both[i] \in Held(s) /\ both[j] \in Held(t)
      <4>1. ~(i > Len(s)) /\ ~(j \in 1 .. Len(s))
        BY <1>1, <2>2
      <4> QED BY <1>2, <4>1
    <3> QED BY <3>1 DEF Before
  <2>3. CASE i > Len(s)
    <3>1. /\ i - Len(s) \in DOMAIN t /\ j - Len(s) \in DOMAIN t
          /\ i - Len(s) < j - Len(s)
          /\ both[i] = t[i - Len(s)] /\ both[j] = t[j - Len(s)]
      BY <1>1, <2>3
    <3> QED BY <3>1 DEF Rising
  <2> QED BY <1>1, <2>1, <2>2, <2>3
<1>4. Held(both) \subseteq Held(s) \cup Held(t)
  BY <1>1, <1>2 DEF Held
<1> QED BY <1>1, <1>3, <1>4 DEF both

LEMMA Single == \A n : Held(<<n>>) = {n} /\ Rising(<<n>>) /\ (n \in Nat => <<n>> \in Seq(Nat))
BY DEF Held, Rising

\* What the pieces are made of.
LEMMA PieceFacts ==
    ASSUME CourierInv
    PROVE  /\ turn.text \in Nat /\ offer[Caller].text \in Nat
           /\ TextsOf(work) \in Seq(Nat) /\ IdsOf(inbox[Me]) \in Seq(Nat)
<1>1. \A x \in Queueable \cup {Initial, NoTurn} : x.text \in Nat
  BY BoundFacts DEF Queueable, Initial, NoTurn, Turn
<1>2. /\ turn \in Queueable \cup {Initial, NoTurn}
      /\ offer[Caller] \in Queueable \cup {NoTurn}
      /\ work \in Seq(Queueable \cup {Initial})
  BY BoundFacts DEF CourierInv, SessionInv, SessionTypeOK
<1>3. TextsOf(work) \in Seq(Nat)
  <2>1. \A i \in 1 .. Len(work) : work[i] \in Queueable \cup {Initial}
    BY <1>2, ElementOfSeq
  <2>2. DOMAIN work = 1 .. Len(work) /\ Len(work) \in Nat
    BY <1>2, LenProperties
  <2> QED BY <1>1, <2>1, <2>2, IsASeq DEF TextsOf
<1>4. IdsOf(inbox[Me]) \in Seq(Nat)
  <2>1. inbox[Me] \in Seq(Envelopes)
    BY MessageFacts, BoundFacts
  <2>2. \A i \in 1 .. Len(inbox[Me]) : inbox[Me][i].id \in Nat
    BY <2>1, ElementOfSeq, EnvelopeFacts
  <2>3. DOMAIN inbox[Me] = 1 .. Len(inbox[Me]) /\ Len(inbox[Me]) \in Nat
    BY <2>1, LenProperties
  <2> QED BY <2>2, <2>3, IsASeq DEF IdsOf
<1> QED BY <1>1, <1>2, <1>3, <1>4

\* Reading off the numbers commutes with queueing and taking.
LEMMA NumbersFollow ==
    ASSUME NEW S, NEW s \in Seq(S)
    PROVE  /\ \A x \in S : /\ TextsOf(Append(s, x)) = Append(TextsOf(s), x.text)
                          /\ IdsOf(Append(s, x)) = Append(IdsOf(s), x.id)
           /\ s # <<>> => /\ TextsOf(s) # <<>> /\ IdsOf(s) # <<>>
                          /\ TextsOf(Tail(s)) = Tail(TextsOf(s))
                          /\ Head(TextsOf(s)) = Head(s).text
                          /\ IdsOf(Tail(s)) = Tail(IdsOf(s))
                          /\ Head(IdsOf(s)) = Head(s).id
<1>1. Len(s) \in Nat /\ DOMAIN s = 1 .. Len(s)
  OBVIOUS
<1>2. /\ TextsOf(s) = [i \in 1 .. Len(s) |-> s[i].text]
      /\ IdsOf(s) = [i \in 1 .. Len(s) |-> s[i].id]
  BY <1>1 DEF TextsOf, IdsOf
<1>3. ASSUME NEW x \in S
      PROVE  /\ TextsOf(Append(s, x)) = Append(TextsOf(s), x.text)
             /\ IdsOf(Append(s, x)) = Append(IdsOf(s), x.id)
  BY <1>1, <1>2 DEF TextsOf, IdsOf
<1>4. ASSUME s # <<>>
      PROVE  /\ TextsOf(s) # <<>> /\ IdsOf(s) # <<>>
             /\ TextsOf(Tail(s)) = Tail(TextsOf(s))
             /\ Head(TextsOf(s)) = Head(s).text
             /\ IdsOf(Tail(s)) = Tail(IdsOf(s))
             /\ Head(IdsOf(s)) = Head(s).id
  BY <1>1, <1>2, <1>4 DEF TextsOf, IdsOf
<1> QED BY <1>3, <1>4

\* The pieces make up the order.
LEMMA PiecesMakeOrder == CourierInv /\ OrderInv => InPublicationOrder
<1> SUFFICES ASSUME CourierInv, OrderInv
             PROVE  Rising(OnTheWay)
  BY DEF InPublicationOrder
<1> DEFINE begun == <<turn.text>>
           queued == TextsOf(work)
           called == <<offer[Caller].text>>
           waiting == IdsOf(inbox[Me])
<1>1. /\ begun \in Seq(Nat) /\ queued \in Seq(Nat)
      /\ called \in Seq(Nat) /\ waiting \in Seq(Nat)
      /\ Held(begun) = {turn.text} /\ Held(called) = {offer[Caller].text}
      /\ Rising(begun) /\ Rising(called)
  BY PieceFacts, Single
<1>2. /\ Rising(queued) /\ Rising(waiting)
      /\ Before(Held(begun), Held(queued) \cup Held(called) \cup Held(waiting))
      /\ Before(Held(queued), Held(called) \cup Held(waiting))
      /\ Before(Held(called), Held(waiting))
  BY <1>1 DEF OrderInv
<1>3. OnTheWay = ((begun \o queued) \o called) \o waiting
  BY DEF OnTheWay
<1> HIDE DEF begun, queued, called, waiting
<1>4. /\ begun \o queued \in Seq(Nat) /\ Rising(begun \o queued)
      /\ Held(begun \o queued) \subseteq Held(begun) \cup Held(queued)
  <2>1. Before(Held(begun), Held(queued))
    BY <1>2 DEF Before
  <2> QED BY <1>1, <1>2, <2>1, RisingConcat
<1>5. /\ (begun \o queued) \o called \in Seq(Nat) /\ Rising((begun \o queued) \o called)
      /\ Held((begun \o queued) \o called)
            \subseteq Held(begun) \cup Held(queued) \cup Held(called)
  <2>1. Before(Held(begun \o queued), Held(called))
    BY <1>2, <1>4 DEF Before
  <2>2. Held((begun \o queued) \o called) \subseteq Held(begun \o queued) \cup Held(called)
    BY <1>1, <1>4, <2>1, RisingConcat
  <2>3. (begun \o queued) \o called \in Seq(Nat) /\ Rising((begun \o queued) \o called)
    BY <1>1, <1>4, <2>1, RisingConcat
  <2> QED BY <1>4, <2>2, <2>3
<1>6. Before(Held((begun \o queued) \o called), Held(waiting))
  BY <1>2, <1>5 DEF Before
<1> QED BY <1>1, <1>2, <1>3, <1>5, <1>6, RisingConcat

\* Nothing but the inbox gets anything, and the inbox only a message that is
\* new, or an answer.
LEMMA OrderKept ==
    ASSUME CourierInv, OrderInv,
           published' \in Nat, published <= published', UNCHANGED work,
           turn'.text \in {turn.text, 0}, offer'[Caller].text \in {offer[Caller].text, 0},
           Rising(IdsOf(inbox'[Me])),
           Held(IdsOf(inbox'[Me])) \subseteq
               Held(IdsOf(inbox[Me])) \cup {0} \cup published + 1 .. published'
    PROVE  OrderInv'
<1> DEFINE t == turn.text
           q == Held(TextsOf(work))
           o == offer[Caller].text
           w == Held(IdsOf(inbox[Me]))
<1>1. /\ Rising(TextsOf(work)) /\ t \in 0 .. published /\ o \in 0 .. published
      /\ q \subseteq 0 .. published /\ w \subseteq 0 .. published
      /\ Before({t}, q \cup {o} \cup w) /\ Before(q, {o} \cup w) /\ Before({o}, w)
  BY DEF OrderInv
<1>2. published \in Nat
  BY MessageFacts
<1>3. /\ q' = q /\ t' \in {t, 0} /\ o' \in {o, 0}
      /\ w' \subseteq w \cup {0} \cup published + 1 .. published'
  OBVIOUS
<1> HIDE DEF t, q, o, w
<1> DEFINE new == published + 1 .. published'
<1>4. /\ \A b \in w' : b \in w \/ b = 0 \/ b \in new
      /\ \A a \in 0 .. published, b \in new : a < b
      /\ new \subseteq 0 .. published'
  BY <1>2, <1>3
<1> HIDE DEF new
<1>5. Before({t'}, q' \cup {o'} \cup w')
  <2> SUFFICES ASSUME NEW b \in q \cup {o', 0} \cup w', t' > 0, b > 0
               PROVE  t' < b
    BY <1>3 DEF Before
  <2>1. t' = t /\ t \in 0 .. published
    BY <1>1, <1>3
  <2>2. CASE b \in q \cup {o} \cup w
    BY <1>1, <2>1, <2>2 DEF Before
  <2>3. CASE b \in new
    BY <2>1, <2>3, <1>4
  <2> QED BY <1>3, <1>4, <2>2, <2>3
<1>6. Before(q', {o'} \cup w')
  <2> SUFFICES ASSUME NEW a \in q, NEW b \in {o', 0} \cup w', a > 0, b > 0
               PROVE  a < b
    BY <1>3 DEF Before
  <2>1. a \in 0 .. published
    BY <1>1
  <2>2. CASE b \in {o} \cup w
    BY <1>1, <2>2 DEF Before
  <2>3. CASE b \in new
    BY <2>1, <2>3, <1>4
  <2> QED BY <1>3, <1>4, <2>2, <2>3
<1>7. Before({o'}, w')
  <2> SUFFICES ASSUME NEW b \in w', o' > 0, b > 0
               PROVE  o' < b
    BY DEF Before
  <2>1. o' = o /\ o \in 0 .. published
    BY <1>1, <1>3
  <2>2. CASE b \in w
    BY <1>1, <2>1, <2>2 DEF Before
  <2>3. CASE b \in new
    BY <2>1, <2>3, <1>4
  <2> QED BY <1>4, <2>2, <2>3
<1>8. 0 .. published \subseteq 0 .. published' /\ 0 \in 0 .. published'
  BY <1>2
<1>9. w' \subseteq 0 .. published'
  BY <1>1, <1>4, <1>8
<1>10. {t'} \cup q' \cup {o'} \cup w' \subseteq 0 .. published'
  BY <1>1, <1>3, <1>8, <1>9
<1> QED BY <1>1, <1>5, <1>6, <1>7, <1>10 DEF OrderInv, t, q, o, w

\* What is delivered to the courier comes last.
LEMMA OrderDelivered ==
    ASSUME CourierInv, OrderInv, NEW m \in Envelopes,
           published' \in Nat, published <= published', UNCHANGED <<work, turn, offer>>,
           m.id \in {0} \cup published + 1 .. published',
           inbox'[Me] = inbox[Me] \/ inbox'[Me] = Append(inbox[Me], m)
    PROVE  OrderInv'
<1> DEFINE waiting == IdsOf(inbox[Me])
<1>1. /\ waiting \in Seq(Nat) /\ Rising(waiting) /\ Held(waiting) \subseteq 0 .. published
      /\ inbox[Me] \in Seq(Envelopes) /\ m.id \in Nat /\ published \in Nat
  BY PieceFacts, MessageFacts, EnvelopeFacts, BoundFacts DEF OrderInv
<1>2. CASE inbox'[Me] = inbox[Me]
  <2>1. IdsOf(inbox'[Me]) = waiting
    BY <1>2
  <2> QED BY <1>1, <2>1, OrderKept
<1>3. CASE inbox'[Me] = Append(inbox[Me], m)
  <2>1. IdsOf(inbox'[Me]) = Append(waiting, m.id)
    BY <1>1, <1>3, NumbersFollow
  <2>2. Before(Held(waiting), {m.id})
    BY <1>1 DEF Before
  <2>3. /\ Rising(Append(waiting, m.id))
        /\ Held(Append(waiting, m.id)) = Held(waiting) \cup {m.id}
    BY <1>1, <2>2, RisingAppend
  <2> QED BY <1>1, <2>1, <2>3, OrderKept
<1> QED BY <1>2, <1>3

LEMMA OrderInvInit == Init => OrderInv
<1> SUFFICES ASSUME Init
             PROVE  OrderInv
  OBVIOUS
<1>1. /\ turn.text = 0 /\ offer[Caller].text = 0 /\ published = 0
      /\ work = <<Initial>> /\ Initial.text = 0 /\ inbox[Me] = <<>>
  BY BoundFacts DEF Init, SessionInit, NoTurn, Initial, Turn
<1>2. TextsOf(work) = <<0>> /\ IdsOf(inbox[Me]) = <<>>
  BY <1>1 DEF TextsOf, IdsOf
<1>3. Held(<<0>>) = {0} /\ Rising(<<0>>) /\ Held(<<>>) = {} /\ Rising(<<>>)
  BY DEF Held, Rising
<1> QED BY <1>1, <1>2, <1>3 DEF OrderInv, Before

\* The session takes what it accepted in that order, and accepts what it was
\* called with last.
LEMMA OrderInSession ==
    ASSUME CourierInv, OrderInv, SessionStep, UNCHANGED <<bus, dispatch>>
    PROVE  OrderInv'
<1> USE DEF bus, dispatch, loop, call, counts
<1>1. /\ published' = published /\ published \in Nat /\ inbox' = inbox
      /\ Rising(IdsOf(inbox[Me])) /\ NoTurn.text = 0
      /\ SessionTypeOK /\ SessionInv
  BY MessageFacts, BoundFacts DEF OrderInv, NoTurn, Turn, CourierInv, TypeOK
<1>2. ASSUME UNCHANGED work,
             turn'.text \in {turn.text, 0}, offer'[Caller].text \in {offer[Caller].text, 0}
      PROVE  OrderInv'
  BY <1>1, <1>2, OrderKept
<1> DEFINE t == turn.text
           queued == TextsOf(work)
           o == offer[Caller].text
           w == Held(IdsOf(inbox[Me]))
<1>3. /\ Rising(queued) /\ queued \in Seq(Nat) /\ t \in 0 .. published /\ o \in 0 .. published
      /\ Held(queued) \subseteq 0 .. published /\ w \subseteq 0 .. published
      /\ Before({t}, Held(queued) \cup {o} \cup w)
      /\ Before(Held(queued), {o} \cup w) /\ Before({o}, w)
  BY PieceFacts DEF OrderInv
<1>4. ASSUME NEW c \in Callers, Accepted(c)
      PROVE  OrderInv'
  <2>1. c = Caller /\ work' = Append(work, offer[Caller]) /\ UNCHANGED turn
        /\ offer'[Caller] = NoTurn
    BY <1>1, <1>4, CallerAssumption DEF Accepted, Return, SessionTypeOK
  <2>2. work \in Seq(Queueable \cup {Initial, NoTurn})
        /\ offer[Caller] \in Queueable \cup {Initial, NoTurn}
    <3>1. work \in Seq(Queueable \cup {Initial})
          /\ offer[Caller] \in Queueable \cup {NoTurn}
      BY <1>1, BoundFacts DEF SessionTypeOK
    <3>2. Queueable \cup {Initial} \subseteq Queueable \cup {Initial, NoTurn}
      OBVIOUS
    <3> QED BY <3>1, <3>2, SeqMonotonic
  <2>3. TextsOf(work') = Append(queued, o)
    BY <2>1, <2>2, NumbersFollow
  <2> HIDE DEF queued, o, w
  <2>4. /\ Rising(Append(queued, o))
        /\ Held(Append(queued, o)) = Held(queued) \cup {o}
    <3>1. Before(Held(queued), {o})
      BY <1>3 DEF Before
    <3>2. o \in Nat
      BY <1>1, <1>3
    <3> QED BY <1>3, <3>1, <3>2, RisingAppend
  <2>5. /\ t' = t /\ o' = 0 /\ w' = w /\ queued' = Append(queued, o)
    BY <1>1, <2>1, <2>3 DEF o, w, queued
  <2>6. /\ Before({t}, Held(queued') \cup {0} \cup w)
        /\ Before(Held(queued'), {0} \cup w) /\ Before({0}, w)
    BY <1>3, <2>4, <2>5 DEF Before
  <2>7. {t} \cup Held(queued') \cup {0} \cup w \subseteq 0 .. published
    <3>1. 0 \in 0 .. published
      BY <1>1
    <3> QED BY <1>3, <2>4, <2>5, <3>1
  <2> QED BY <1>1, <2>4, <2>5, <2>6, <2>7 DEF OrderInv, o, w, queued
<1>5. CASE TakeWork
  <2>1. /\ work # <<>> /\ work' = Tail(work) /\ turn' = Head(work)
        /\ work \in Seq(Queueable \cup {Initial}) /\ UNCHANGED offer
    BY <1>1, <1>5 DEF TakeWork, SessionTypeOK
  <2>2. /\ queued # <<>> /\ TextsOf(work') = Tail(queued) /\ turn'.text = Head(queued)
    BY <2>1, NumbersFollow
  <2> HIDE DEF queued, o, w
  <2>3. /\ Rising(Tail(queued)) /\ Before({Head(queued)}, Held(Tail(queued)))
        /\ Held(queued) = {Head(queued)} \cup Held(Tail(queued))
    BY <1>3, <2>2, RisingTail
  <2>4. /\ t' = Head(queued) /\ o' = o /\ w' = w /\ queued' = Tail(queued)
    BY <1>1, <2>1, <2>2 DEF o, w, queued
  <2>5. /\ Before({t'}, Held(queued') \cup {o} \cup w)
        /\ Before(Held(queued'), {o} \cup w)
    BY <1>3, <2>3, <2>4 DEF Before
  <2>6. {t'} \cup Held(queued') \cup {o} \cup w \subseteq 0 .. published
    BY <1>3, <2>3, <2>4
  <2> QED BY <1>1, <1>3, <2>3, <2>4, <2>5, <2>6 DEF OrderInv, o, w, queued
<1>6. ASSUME NEW c \in Callers, Receipt(c) \/ Refused(c) \/ Cancel(c)
      PROVE  OrderInv'
  <2>1. CASE Receipt(c) \/ Cancel(c)
    BY <1>2, <2>1 DEF Receipt, Cancel
  <2>2. CASE Refused(c)
    <3>1. c = Caller /\ offer'[Caller] = NoTurn /\ UNCHANGED <<work, turn>>
      BY <1>1, <2>2, CallerAssumption DEF Refused, Return, SessionTypeOK
    <3> QED BY <1>1, <1>2, <3>1
  <2> QED BY <1>6, <2>1, <2>2
<1>7. CASE Drain
  <2>1. turn' = NoTurn /\ UNCHANGED <<work, offer>>
    BY <1>7 DEF Drain
  <2> QED BY <1>1, <1>2, <2>1
<1>8. CASE \/ Say("started", "select") \/ Say("began", "next") \/ Say("tool", "next")
           \/ Say("ended", "idle") \/ Say("idle", "select")
  BY <1>2, <1>8 DEF Say
<1>9. CASE SeeDone \/ NextAction \/ Run("tool") \/ Kill \/ ExecEnds
           \/ OutputReleased \/ RunExit \/ ReportDrained \/ Farewell \/ CloseEvents \/ Stop
  BY <1>2, <1>9
     DEF SeeDone, NextAction, Run, Kill, ExecEnds, OutputReleased, RunExit,
         ReportDrained, Farewell,
         CloseEvents, Stop
<1>10. CASE Interrupt \/ CloseDone \/ Read
  BY <1>2, <1>10 DEF Interrupt, CloseDone, Read
<1> QED
  BY <1>4, <1>5, <1>6, <1>7, <1>8, <1>9, <1>10 DEF SessionStep, LoopStep, CallStep

LEMMA OrderInvStep == CourierInv /\ OrderInv /\ [Next]_vars => OrderInv'
<1> SUFFICES ASSUME CourierInv, OrderInv, [Next]_vars
             PROVE  OrderInv'
  OBVIOUS
<1> USE DEF bus, dispatch
<1>0. /\ published \in Nat /\ inbox \in [Names -> Seq(Envelopes)] /\ Me \in Names
      /\ NoTurn.text = 0 /\ Rising(IdsOf(inbox[Me])) /\ SessionTypeOK
  BY MessageFacts, BoundFacts DEF NoTurn, Turn, OrderInv, CourierInv, TypeOK
<1>1. UNCHANGED sessionVars => UNCHANGED <<work, turn, offer>>
  BY DEF sessionVars, call, loop
<1>2. \A boxes, m, to :
          \/ Delivered(boxes, m, to)[Me] = boxes[Me]
          \/ Delivered(boxes, m, to)[Me] = Append(boxes[Me], m)
  BY <1>0 DEF Delivered
<1>3. CASE Publish
  <2>1. PICK o \in Outgoing :
           inbox' = Delivered(inbox, [id |-> published', from |-> o.from,
                                      intent |-> o.intent, text |-> o.text, re |-> 0],
                              o.to)
    BY <1>3 DEF Publish
  <2> DEFINE m == [id |-> published + 1, from |-> o.from, intent |-> o.intent,
                   text |-> o.text, re |-> 0]
  <2>2. published' = published + 1 /\ published' \in 1 .. MaxPublish
    BY <1>3, <1>0, BoundFacts DEF Publish
  <2>3. m \in Envelopes /\ m.id = published'
    BY <1>0, <2>2, OutgoingAssumption DEF Envelopes
  <2>4. inbox' = Delivered(inbox, m, o.to)
    BY <2>1, <2>2
  <2> HIDE DEF m
  <2>5. published' \in Nat /\ published <= published' /\ m.id \in published + 1 .. published'
    BY <1>0, <2>2, <2>3
  <2>6. UNCHANGED <<work, turn, offer>>
    BY <1>1, <1>3 DEF Publish
  <2>7. inbox'[Me] = inbox[Me] \/ inbox'[Me] = Append(inbox[Me], m)
    BY <1>2, <2>4
  <2> QED BY <2>3, <2>5, <2>6, <2>7, OrderDelivered
<1>4. ASSUME NEW m \in Envelopes, m.id = 0, UNCHANGED <<published, sessionVars>>,
             inbox'[Me] = inbox[Me] \/ inbox'[Me] = Append(inbox[Me], m)
      PROVE  OrderInv'
  BY <1>0, <1>1, <1>4, OrderDelivered
<1>5. ASSUME UNCHANGED <<published, sessionVars>>, inbox'[Me] = inbox[Me]
      PROVE  OrderInv'
  BY <1>0, <1>1, <1>5, OrderKept
<1>6. CASE Teardown \/ HandlerReturns \/ RunReturns \/ UNCHANGED vars
  BY <1>5, <1>6 DEF Teardown, HandlerReturns, RunReturns, vars
<1>7. CASE Answer
  <2>1. hand \in Envelopes /\ hand.intent # "ack" /\ Me \in Names
    BY <1>0, <1>7 DEF CourierInv, Answer
  <2>2. Ack(Me, hand) \in Envelopes /\ Ack(Me, hand).id = 0
    BY <2>1, EnvelopeFacts DEF Ack, Envelopes
  <2> QED BY <1>2, <1>4, <1>7, <2>2 DEF Answer
<1>8. ASSUME NEW p \in Peers, PeerDispatch(p)
      PROVE  OrderInv'
  <2> DEFINE m == Head(inbox[p])
             taken == [inbox EXCEPT ![p] = Tail(@)]
  <2>1. p \in Names /\ p # Me /\ inbox[p] # <<>>
    BY <1>8, NamesAssumption DEF Names, PeerDispatch
  <2>2. m \in Envelopes
    BY <1>0, <2>1, MessageFacts, TailFacts
  <2>3. taken[Me] = inbox[Me]
    BY <1>0, <2>1
  <2>4. UNCHANGED <<published, sessionVars>>
        /\ inbox' = IF Answers(m) THEN Delivered(taken, Ack(p, m), m.from) ELSE taken
    BY <1>8 DEF PeerDispatch
  <2> HIDE DEF m, taken
  <2>5. CASE Answers(m)
    <3>1. Ack(p, m) \in Envelopes /\ Ack(p, m).id = 0
      BY <2>1, <2>2, <2>5, EnvelopeFacts DEF Ack, Envelopes
    <3> QED BY <1>2, <1>4, <2>3, <2>4, <2>5, <3>1
  <2>6. CASE ~Answers(m)
    BY <1>5, <2>3, <2>4, <2>6
  <2> QED BY <2>5, <2>6
<1>9. CASE SessionStep /\ UNCHANGED <<bus, dispatch>>
  BY <1>9, OrderInSession
<1>10. CASE Dispatch
  <2> DEFINE m == Head(inbox[Me])
             waiting == IdsOf(inbox[Me])
  <2>1. /\ inbox[Me] # <<>> /\ inbox' = [inbox EXCEPT ![Me] = Tail(@)]
        /\ published' = published /\ stand = "idle"
    BY <1>10 DEF Dispatch
  <2>2. inbox'[Me] = Tail(inbox[Me]) /\ inbox[Me] \in Seq(Envelopes)
    BY <1>0, <2>1
  <2>3. IdsOf(inbox'[Me]) = Tail(waiting) /\ m.id = Head(waiting) /\ waiting # <<>>
    BY <2>1, <2>2, NumbersFollow
  <2>4. waiting \in Seq(Nat) /\ Rising(waiting)
    BY PieceFacts DEF OrderInv
  <2>5. offer[Caller].text = 0 /\ calling[Caller] = "idle"
    BY <1>0, <2>1 DEF CourierInv
  <2> HIDE DEF waiting
  <2>6. /\ Rising(Tail(waiting)) /\ Before({Head(waiting)}, Held(Tail(waiting)))
        /\ Held(waiting) = {Head(waiting)} \cup Held(Tail(waiting))
    BY <2>3, <2>4, RisingTail
  <2>7. CASE UNCHANGED sessionVars
    <3>1. Rising(IdsOf(inbox'[Me])) /\ Held(IdsOf(inbox'[Me])) \subseteq Held(IdsOf(inbox[Me]))
      BY <2>3, <2>6 DEF waiting
    <3> QED BY <1>0, <1>1, <2>1, <2>7, <3>1, OrderKept
  <2>8. CASE Call(Caller, Verb(m), m.id)
    <3>1. UNCHANGED <<work, turn>> /\ offer'[Caller].text = m.id
      <4>1. PICK acts : offer' = [offer EXCEPT ![Caller] = Turn(m.id, Verb(m), acts)]
        BY <2>8 DEF Call
      <4>2. Caller \in DOMAIN offer
        BY <1>0, BoundFacts DEF SessionTypeOK
      <4> QED BY <2>8, <4>1, <4>2 DEF Call, Turn, loop
    <3> DEFINE t == turn.text
               q == Held(TextsOf(work))
               o == offer[Caller].text
               w == Held(IdsOf(inbox[Me]))
    <3>2. /\ Rising(TextsOf(work)) /\ Before({t}, q \cup w) /\ Before(q, w)
          /\ {t} \cup q \cup w \subseteq 0 .. published
      BY DEF OrderInv, Before
    <3>3. t' = t /\ q' = q /\ w = Held(waiting) /\ o' = Head(waiting) /\ w' = Held(Tail(waiting))
      BY <2>3, <3>1 DEF waiting
    <3>4. Rising(TextsOf(work))' /\ Rising(IdsOf(inbox[Me]))'
      BY <2>3, <2>6, <3>1, <3>2
    <3> HIDE DEF t, q, o, w
    <3>5. /\ Before({t'}, q' \cup {o'} \cup w') /\ Before(q', {o'} \cup w')
          /\ Before({o'}, w') /\ {t'} \cup q' \cup {o'} \cup w' \subseteq 0 .. published
      BY <2>6, <3>2, <3>3 DEF Before
    <3> QED BY <2>1, <3>4, <3>5 DEF OrderInv, t, q, o, w
  <2> QED BY <1>10, <2>7, <2>8 DEF Dispatch
<1> QED
  BY <1>3, <1>6, <1>7, <1>8, <1>9, <1>10 DEF Next, CourierStep

\* Whatever is published, the session's turns come in that order and none comes
\* twice: neither urgency nor a full channel changes it (courier.go:45).
THEOREM OrderKeeps == Spec => []InPublicationOrder
<1> QED
  BY OrderInvInit, OrderInvStep, CourierInvCorrect, PiecesMakeOrder, PTL DEF Spec

\* So it is for a session that serves the bus: only a message that the courier
\* takes to it gives it more to do (fake.go:147, courier.go:45).
THEOREM EndingOnTheBus == Spec => [](StepsToStop \in Nat) /\ EndingIsBounded
<1> QED BY CourierSession, EndingBounded, PTL
=============================================================================
