-------------------------- MODULE SqliteBusProofs --------------------------
(***************************************************************************)
(* The durable bus hands a subscription every message it wants, in order,  *)
(* and never rewinds a stored cursor, for any agents, subscriptions, topics*)
(* and messages, any batch size, and any number of failures and restarts.  *)
(***************************************************************************)
EXTENDS SqliteBus, FiniteSetTheorems, WellFoundedInduction, TLAPS

(***************************************************************************)
(* Lemmas about the operators.                                             *)
(***************************************************************************)

\* What a query returns are rows after the cursor, and no row after the
\* cursor comes before one of them without being one of them.
LEMMA SelectFacts ==
    ASSUME NEW s \in Subs, NEW c \in Nat, log \in Seq(Messages), pruned \in Nat
    PROVE  /\ Select(s, c) \subseteq After(s, c)
           /\ After(s, c) \subseteq Nat
           /\ \A q \in Select(s, c), r \in After(s, c) : r < q => r \in Select(s, c)
<1>1. After(s, c) \subseteq Nat /\ After(s, c) \subseteq pruned + 1 .. Len(log)
  BY DEF After
<1>2. IsFiniteSet(After(s, c))
  <2>1. pruned + 1 \in Int /\ Len(log) \in Int
    OBVIOUS
  <2>2. IsFiniteSet(pruned + 1 .. Len(log))
    BY <2>1, FS_Interval
  <2> QED BY <1>1, <2>2, FS_Subset
<1>3. ASSUME NEW q \in Select(s, c), NEW r \in After(s, c), r < q
      PROVE  r \in Select(s, c)
  <2> DEFINE Q == {x \in After(s, c) : x < q}
             R == {x \in After(s, c) : x < r}
  <2>1. R \subseteq Q /\ Q \subseteq After(s, c)
    BY <1>1, <1>3 DEF Select
  <2>2. IsFiniteSet(Q)
    BY <1>2, <2>1, FS_Subset
  <2>3. IsFiniteSet(R) /\ Cardinality(R) <= Cardinality(Q)
    BY <2>1, <2>2, FS_Subset
  <2>4. Cardinality(Q) < Batch
    BY <1>3 DEF Select
  <2>5. Cardinality(R) \in Nat /\ Cardinality(Q) \in Nat
    BY <2>2, <2>3, FS_CardinalityType
  <2>6. Cardinality(R) < Batch
    BY <2>3, <2>4, <2>5, BoundsAssumption
  <2> QED BY <1>3, <2>6 DEF Select
<1> QED BY <1>1, <1>3 DEF Select

\* What a subscription is to get is what its query selects and can decode.
LEMMA WantedFacts ==
    ASSUME NEW s \in Subs, log \in Seq(Messages), pruned \in Nat
    PROVE  \A q : q \in Contract!Wanted(s) <=>
               /\ q \in pruned + 1 .. Len(log)
               /\ Selects(s, log[q]) /\ log[q].ok
<1>1. Wants[s] = {m \in Messages : Selects(s, m) /\ m.ok}
  BY DEF Wants
<1>2. \A q \in pruned + 1 .. Len(log) : log[q] \in Messages
  OBVIOUS
<1> QED BY <1>1, <1>2 DEF Contract!Wanted

\* The stored position after saving c.
LEMMA AdvanceFacts ==
    ASSUME NEW row \in Int, NEW c \in Int
    PROVE  Advance(row, c) \in {row, c} /\ row <= Advance(row, c)
BY DEF Advance

(***************************************************************************)
(* Types.                                                                  *)
(***************************************************************************)

\* The initial state has its types.
LEMMA TypeInit == Init => TypeOK
<1> SUFFICES ASSUME Init PROVE TypeOK
  OBVIOUS
<1>1. log \in Seq(Messages) /\ pruned \in 0 .. Len(log) /\ Len(log) = 0
  BY DEF Init
<1>2. chan \in [Subs -> Seq(Nat)] /\ \A s \in Subs : Len(chan[s]) <= Batch
  BY BoundsAssumption DEF Init
<1>3. /\ cursors \in [Agents -> 0 .. Len(log) \cup {NoRow}]
      /\ cursor \in [Subs -> 0 .. Len(log)] /\ last \in [Subs -> 0 .. Len(log)]
      /\ start \in [Subs -> 0 .. Len(log)]
  BY <1>1 DEF Init
<1>4. rows \in [Subs -> SUBSET (1 .. Len(log))] /\ handed \in [Subs -> SUBSET Nat]
  BY DEF Init
<1> QED BY <1>1, <1>2, <1>3, <1>4 DEF Init, TypeOK, Labels

\* Publishing and pruning keep the types.
LEMMA TypeLog == TypeOK /\ (Publish \/ Prune) => TypeOK'
<1>1. ASSUME TypeOK, Publish PROVE TypeOK'
  <2>1. PICK m \in Messages : log' = Append(log, m)
    BY <1>1 DEF Publish
  <2>2. log' \in Seq(Messages) /\ Len(log') = Len(log) + 1 /\ Len(log) \in Nat
    BY <1>1, <2>1 DEF TypeOK
  <2>3. UNCHANGED <<pruned, cursors, poller, history>>
    BY <1>1 DEF Publish
  <2>4. 0 .. Len(log) \subseteq 0 .. Len(log') /\ 1 .. Len(log) \subseteq 1 .. Len(log')
    BY <2>2
  <2> QED BY <1>1, <2>2, <2>3, <2>4 DEF TypeOK, poller, history
<1>2. ASSUME TypeOK, Prune PROVE TypeOK'
  BY <1>2 DEF TypeOK, Prune, poller, history
<1> QED BY <1>1, <1>2

\* A subscription that starts within the log keeps the types.
LEMMA TypeStart ==
    ASSUME TypeOK, NEW s \in Subs, Resume(s) \/ StartAtHead(s)
    PROVE  TypeOK'
<1>1. ASSUME NEW c \in 0 .. Len(log), StartAt(s, c),
             UNCHANGED <<log, pruned, cursors, rows, chan, errors>>
      PROVE  TypeOK'
  <2>1. /\ start' \in [Subs -> 0 .. Len(log)] /\ cursor' \in [Subs -> 0 .. Len(log)]
        /\ last' \in [Subs -> 0 .. Len(log)]
    BY <1>1 DEF StartAt, TypeOK
  <2>2. handed' \in [Subs -> SUBSET Nat] /\ pc' \in [Subs -> Labels]
    BY <1>1 DEF StartAt, TypeOK, Goto, Labels
  <2> QED BY <1>1, <2>1, <2>2 DEF TypeOK
<1>2. CASE Resume(s)
  <2>1. CASE cursors[Owner[s]] # NoRow
    <3>1. cursors[Owner[s]] \in 0 .. Len(log)
      BY <2>1, OwnerAssumption DEF TypeOK
    <3> QED BY <1>1, <1>2, <2>1, <3>1 DEF Resume
  <2>2. CASE cursors[Owner[s]] = NoRow
    BY <1>2, <2>2 DEF Resume, TypeOK, Goto, Labels
  <2> QED BY <2>1, <2>2
<1>3. CASE StartAtHead(s)
  <2>1. HeadSeq \in 0 .. Len(log)
    BY DEF HeadSeq, TypeOK
  <2> QED BY <1>1, <1>3, <2>1 DEF StartAtHead
<1> QED BY <1>2, <1>3

\* The poller keeps the types.
LEMMA TypePoll ==
    ASSUME TypeOK, NEW s \in Subs, Poll(s) \/ ReadFails(s)
    PROVE  TypeOK'
<1>1. CASE Query(s)
  <2>1. Select(s, cursor[s]) \subseteq 1 .. Len(log)
    BY DEF Select, After, TypeOK
  <2>2. rows' \in [Subs -> SUBSET (1 .. Len(log))] /\ pc' \in [Subs -> Labels]
    BY <1>1, <2>1 DEF Query, Goto, TypeOK, Labels
  <2> QED BY <1>1, <2>2 DEF Query, TypeOK, history
<1>2. CASE Send(s)
  <2>1. PICK q \in rows[s] :
           /\ chan' = [chan EXCEPT ![s] = Append(@, q)]
           /\ handed' = [handed EXCEPT ![s] = @ \cup {q}]
           /\ last' = [last EXCEPT ![s] = q]
           /\ rows' = [rows EXCEPT ![s] = @ \ {q}]
    BY <1>2 DEF Send
  <2>2. q \in 1 .. Len(log) /\ q \in Nat /\ chan[s] \in Seq(Nat) /\ Len(chan[s]) < Batch
    BY <1>2 DEF TypeOK, Send
  <2>3. Append(chan[s], q) \in Seq(Nat) /\ Len(Append(chan[s], q)) <= Batch
    BY <2>2, BoundsAssumption
  <2>4. chan' \in [Subs -> Seq(Nat)] /\ \A x \in Subs : Len(chan'[x]) <= Batch
    BY <2>1, <2>3 DEF TypeOK
  <2>5. rows' \in [Subs -> SUBSET (1 .. Len(log))] /\ last' \in [Subs -> 0 .. Len(log)]
    BY <2>1, <2>2 DEF TypeOK
  <2>6. handed' \in [Subs -> SUBSET Nat]
    BY <2>1, <2>2 DEF TypeOK
  <2> QED BY <1>2, <2>4, <2>5, <2>6 DEF Send, TypeOK
<1>3. CASE SkipRow(s)
  <2>1. rows' \in [Subs -> SUBSET (1 .. Len(log))] /\ last' \in [Subs -> 0 .. Len(log)]
    BY <1>3 DEF SkipRow, TypeOK
  <2> QED BY <1>3, <2>1 DEF SkipRow, TypeOK, history
<1>4. CASE BatchDone(s)
  <2>1. pc' \in [Subs -> Labels] /\ cursor' \in [Subs -> 0 .. Len(log)]
    BY <1>4 DEF BatchDone, TypeOK, Goto, Labels
  <2> QED BY <1>4, <2>1 DEF BatchDone, TypeOK, history
<1>5. CASE SaveCursor(s)
  <2>1. Advance(cursors[Owner[s]], cursor[s]) \in 0 .. Len(log)
    BY OwnerAssumption DEF Advance, NoRow, TypeOK
  <2>2. cursors' \in [Agents -> 0 .. Len(log) \cup {NoRow}] /\ pc' \in [Subs -> Labels]
    BY <1>5, <2>1 DEF SaveCursor, TypeOK, Goto, Labels
  <2> QED BY <1>5, <2>2 DEF SaveCursor, TypeOK, history
<1>6. CASE ReadFails(s)
  <2>1. /\ pc' \in [Subs -> Labels] /\ last' \in [Subs -> 0 .. Len(log)]
        /\ rows' \in [Subs -> SUBSET (1 .. Len(log))] /\ errors' \in Nat
    BY <1>6 DEF ReadFails, TypeOK, Goto, Labels
  <2> QED BY <1>6, <2>1 DEF ReadFails, TypeOK
<1> QED BY <1>1, <1>2, <1>3, <1>4, <1>5, <1>6 DEF Poll

\* The subscribing process keeps the types.
LEMMA TypeProcess ==
    ASSUME TypeOK, NEW s \in Subs, Take(s) \/ Stop(s)
    PROVE  TypeOK'
<1>1. CASE Take(s)
  <2>1. chan[s] \in Seq(Nat) /\ chan[s] # <<>>
    BY <1>1 DEF Take, TypeOK
  <2>2. Tail(chan[s]) \in Seq(Nat) /\ Len(Tail(chan[s])) <= Len(chan[s])
    BY <2>1
  <2>3. chan' \in [Subs -> Seq(Nat)] /\ \A x \in Subs : Len(chan'[x]) <= Batch
    BY <1>1, <2>1, <2>2, BoundsAssumption DEF Take, TypeOK
  <2> QED BY <1>1, <2>3 DEF Take, TypeOK, history
<1>2. CASE Stop(s)
  <2>1. chan' \in [Subs -> Seq(Nat)] /\ \A x \in Subs : Len(chan'[x]) <= Batch
    BY <1>2, BoundsAssumption DEF Stop, TypeOK
  <2>2. rows' \in [Subs -> SUBSET (1 .. Len(log))] /\ pc' \in [Subs -> Labels]
    BY <1>2 DEF Stop, TypeOK, Goto, Labels
  <2> QED BY <1>2, <2>1, <2>2 DEF Stop, TypeOK, history
<1> QED BY <1>1, <1>2

\* Every step keeps the types.
LEMMA TypeNext == TypeOK /\ [Next]_vars => TypeOK'
<1> SUFFICES ASSUME TypeOK, [Next]_vars PROVE TypeOK'
  OBVIOUS
<1>1. CASE UNCHANGED vars
  BY <1>1 DEF vars, poller, history, TypeOK
<1> QED BY <1>1, TypeLog, TypeStart, TypePoll, TypeProcess DEF Next

\* Every variable keeps its type: positions stay within the log and no
\* channel outgrows its capacity.
THEOREM TypeCorrect == Spec => []TypeOK
BY TypeInit, TypeNext, PTL DEF Spec

(***************************************************************************)
(* The inductive invariant.                                                *)
(***************************************************************************)

\* What the invariant says of one subscription.
SubInv(s) ==
    /\ start[s] <= cursor[s] /\ cursor[s] <= last[s]
    /\ pc[s] # "deliver" => rows[s] = {}
    /\ pc[s] \in {"select", "save"} => last[s] = cursor[s]
    /\ pc[s] = "deliver" => rows[s] \subseteq After(s, last[s])
    /\ \A q \in rows[s], r \in After(s, last[s]) : r < q => r \in rows[s]
    /\ \A q \in Contract!Wanted(s) :
           start[s] < q /\ q <= last[s] => q \in handed[s]

\* The invariant, subscription by subscription.
LEMMA InvBySubs ==
    /\ BusInv <=> TypeOK /\ \A s \in Subs : SubInv(s)
    /\ BusInv' <=> TypeOK' /\ \A s \in Subs : SubInv(s)'
BY DEF BusInv, SubInv

\* The invariant holds of an empty log.
LEMMA InvInit == Init => BusInv
<1> SUFFICES ASSUME Init PROVE BusInv
  OBVIOUS
<1>1. TypeOK
  BY TypeInit
<1>2. ASSUME NEW s \in Subs PROVE SubInv(s)
  <2>1. Contract!Wanted(s) = {}
    BY DEF Init, Contract!Wanted
  <2> QED BY <2>1 DEF Init, SubInv
<1> QED BY <1>1, <1>2, InvBySubs

\* A message that is published comes after everything read so far, and
\* after every row still to be read.
LEMMA InvPublish == BusInv /\ Publish => BusInv'
<1> SUFFICES ASSUME BusInv, Publish PROVE BusInv'
  OBVIOUS
<1>0. TypeOK /\ TypeOK'
  BY TypeLog DEF BusInv
<1>1. PICK m \in Messages : log' = Append(log, m)
  BY DEF Publish
<1>2. UNCHANGED <<pruned, cursors, poller, history>>
  BY DEF Publish
<1>3. /\ Len(log') = Len(log) + 1 /\ Len(log) \in Nat /\ pruned \in Nat
      /\ log \in Seq(Messages) /\ log' \in Seq(Messages)
      /\ \A q \in 1 .. Len(log) : log'[q] = log[q]
  BY <1>0, <1>1 DEF TypeOK
<1>4. ASSUME NEW s \in Subs PROVE SubInv(s)'
  <2>1. last[s] \in 0 .. Len(log) /\ rows[s] \subseteq 1 .. Len(log) /\ SubInv(s)
    BY <1>0, InvBySubs DEF TypeOK
  <2>2. \A q \in 1 .. Len(log) : q \in After(s, last[s])' <=> q \in After(s, last[s])
    BY <1>2, <1>3 DEF After, Selects, poller
  <2>3. \A q \in 1 .. Len(log) : q \in Contract!Wanted(s)' <=> q \in Contract!Wanted(s)
    <3>1. \A q : q \in Contract!Wanted(s)' <=>
             /\ q \in pruned + 1 .. Len(log') /\ log'[q] \in Wants[s]
      BY <1>2 DEF Contract!Wanted, Wants, Selects
    <3> QED BY <1>3, <3>1 DEF Contract!Wanted
  <2>4. After(s, last[s]) \subseteq 1 .. Len(log)
    BY <1>3 DEF After
  <2>5. After(s, last[s])' \subseteq Nat \ {0}
    BY <1>2, <1>3 DEF After
  <2>6. pc[s] = "deliver" => rows[s] \subseteq After(s, last[s])'
    BY <2>1, <2>2, <2>4 DEF SubInv
  <2>7. \A q \in rows[s], r \in After(s, last[s])' : r < q => r \in rows[s]
    BY <1>3, <2>1, <2>2, <2>5 DEF SubInv
  <2>8. \A q \in Contract!Wanted(s)' : start[s] < q /\ q <= last[s] => q \in handed[s]
    <3>1. ASSUME NEW q \in Contract!Wanted(s)', start[s] < q, q <= last[s]
          PROVE  q \in handed[s]
      <4>1. q \in Nat
        BY <1>3, <1>2 DEF Contract!Wanted
      <4>2. start[s] \in Nat
        BY <1>0 DEF TypeOK
      <4>3. q \in 1 .. Len(log)
        BY <2>1, <1>3, <3>1, <4>1, <4>2
      <4> QED BY <2>1, <2>3, <3>1, <4>3 DEF SubInv
    <3> QED BY <3>1
  <2> QED BY <1>2, <2>1, <2>6, <2>7, <2>8 DEF SubInv, poller, history
<1> QED BY <1>0, <1>4, InvBySubs

\* Pruning deletes nothing that is still to be read.
LEMMA InvPrune == BusInv /\ Prune => BusInv'
<1> SUFFICES ASSUME BusInv, Prune PROVE BusInv'
  OBVIOUS
<1>0. TypeOK /\ TypeOK'
  BY TypeLog DEF BusInv
<1>1. /\ pruned' \in pruned + 1 .. Len(log) /\ UNCHANGED <<log, cursors, poller, history>>
      /\ \A s \in Subs : Live(s) => pruned' <= cursor[s]
  BY DEF Prune
<1>2. pruned \in Nat /\ pruned' \in Nat /\ pruned < pruned' /\ Len(log) \in Nat
  BY <1>0, <1>1 DEF TypeOK
<1>3. ASSUME NEW s \in Subs PROVE SubInv(s)'
  <2>1. SubInv(s) /\ cursor[s] \in Nat /\ last[s] \in Nat
    BY <1>0, InvBySubs DEF TypeOK
  <2>2. After(s, last[s])' \subseteq After(s, last[s])
    BY <1>1, <1>2 DEF After, Selects, poller
  <2>3. Contract!Wanted(s)' \subseteq Contract!Wanted(s)
    BY <1>1, <1>2 DEF Contract!Wanted, Wants, Selects
  <2>4. pc[s] = "deliver" => rows[s] \subseteq After(s, last[s])'
    <3>1. ASSUME pc[s] = "deliver", NEW q \in rows[s] PROVE q \in After(s, last[s])'
      <4>1. q \in pruned + 1 .. Len(log) /\ last[s] < q /\ Selects(s, log[q])
        BY <2>1, <3>1 DEF SubInv, After
      <4>2. pruned' <= cursor[s] /\ cursor[s] <= last[s]
        BY <1>1, <2>1, <3>1 DEF Live, SubInv
      <4>3. q \in Nat /\ q \in pruned' + 1 .. Len(log)
        BY <1>2, <2>1, <4>1, <4>2
      <4>4. Len(log') = Len(log) /\ last'[s] = last[s] /\ (Selects(s, log[q]))'
        BY <1>1, <4>1 DEF Selects, poller
      <4> QED BY <4>1, <4>3, <4>4 DEF After
    <3> QED BY <3>1
  <2> QED BY <1>1, <2>1, <2>2, <2>3, <2>4 DEF SubInv, poller, history
<1> QED BY <1>0, <1>3, InvBySubs

\* A step of one subscription that leaves the log alone leaves the other
\* subscriptions as they were.
LEMMA InvOthers ==
    ASSUME BusInv, NEW s \in Subs, UNCHANGED <<log, pruned>>,
           \A x \in Subs \ {s} :
               /\ pc'[x] = pc[x] /\ cursor'[x] = cursor[x] /\ rows'[x] = rows[x]
               /\ last'[x] = last[x] /\ start'[x] = start[x] /\ handed'[x] = handed[x],
           TypeOK', SubInv(s)'
    PROVE  BusInv'
<1>1. ASSUME NEW x \in Subs \ {s} PROVE SubInv(x)'
  <2>1. SubInv(x)
    BY InvBySubs
  <2>2. After(x, last[x])' = After(x, last[x]) /\ Contract!Wanted(x)' = Contract!Wanted(x)
    BY DEF After, Selects, Contract!Wanted, Wants
  <2> QED BY <2>1, <2>2 DEF SubInv
<1> QED BY <1>1, InvBySubs

\* A subscription that starts has skipped nothing yet.
LEMMA InvStart ==
    ASSUME BusInv, NEW s \in Subs, Resume(s) \/ StartAtHead(s)
    PROVE  BusInv'
<1>0. TypeOK /\ TypeOK' /\ SubInv(s) /\ pc[s] \in {"off", "head"}
  BY TypeStart, InvBySubs DEF Resume, StartAtHead
<1>1. UNCHANGED <<log, pruned, rows>>
  BY DEF Resume, StartAtHead
<1>2. ASSUME NEW c, StartAt(s, c) PROVE BusInv'
  <2>1. /\ start'[s] = c /\ cursor'[s] = c /\ last'[s] = c
        /\ handed'[s] = {} /\ pc'[s] = "select" /\ rows'[s] = {}
    BY <1>0, <1>1, <1>2 DEF StartAt, Goto, TypeOK, SubInv
  <2>2. c \in Nat
    BY <1>0, <2>1 DEF TypeOK
  <2>3. Contract!Wanted(s)' \subseteq Nat
    BY <1>0 DEF Contract!Wanted, TypeOK
  <2>4. SubInv(s)'
    BY <2>1, <2>2, <2>3 DEF SubInv
  <2> QED BY <1>0, <1>1, <1>2, <2>4, InvOthers DEF StartAt, Goto, TypeOK
<1>3. ASSUME Goto(s, "head"), UNCHANGED <<cursor, last, start, handed>> PROVE BusInv'
  <2>1. pc'[s] = "head"
    BY <1>0, <1>3 DEF Goto, TypeOK
  <2>2. After(s, last[s])' = After(s, last[s]) /\ Contract!Wanted(s)' = Contract!Wanted(s)
    BY <1>1, <1>3 DEF After, Selects, Contract!Wanted, Wants
  <2>3. SubInv(s)'
    BY <1>0, <1>1, <1>3, <2>1, <2>2 DEF SubInv
  <2> QED BY <1>0, <1>1, <1>3, <2>3, InvOthers DEF Goto, TypeOK
<1> QED BY <1>2, <1>3 DEF Resume, StartAtHead

\* A query returns what comes next.
LEMMA InvQuery == ASSUME BusInv, NEW s \in Subs, Query(s) PROVE BusInv'
<1>0. TypeOK /\ TypeOK' /\ SubInv(s) /\ pc[s] = "select"
  BY TypePoll, InvBySubs DEF Query, Poll
<1>1. UNCHANGED <<log, pruned, cursor, last, start, handed>>
  BY DEF Query, history
<1>2. pc'[s] = "deliver" /\ rows'[s] = Select(s, cursor[s]) /\ last[s] = cursor[s]
  BY <1>0 DEF Query, Goto, TypeOK, SubInv
<1>3. cursor[s] \in Nat /\ log \in Seq(Messages) /\ pruned \in Nat
  BY <1>0 DEF TypeOK
<1>4. After(s, last[s])' = After(s, last[s]) /\ Contract!Wanted(s)' = Contract!Wanted(s)
  BY <1>1 DEF After, Selects, Contract!Wanted, Wants
<1>5. SubInv(s)'
  BY <1>0, <1>1, <1>2, <1>3, <1>4, SelectFacts DEF SubInv
<1> QED BY <1>0, <1>1, <1>5, InvOthers DEF Query, Goto, TypeOK

\* The next row read is the next one after the last, and nothing that s
\* wants lies between them.
LEMMA NextRowFacts ==
    ASSUME TypeOK, NEW s \in Subs, SubInv(s), pc[s] = "deliver",
           NEW q \in rows[s], NextRow(s, q)
    PROVE  /\ q \in pruned + 1 .. Len(log) /\ last[s] < q /\ Selects(s, log[q])
           /\ q \in Nat /\ last[s] \in Nat /\ Len(log) \in Nat
           /\ Contract!NothingBetween(s, last[s], q)
<1>1. /\ q \in pruned + 1 .. Len(log) /\ last[s] < q /\ Selects(s, log[q])
      /\ q \in Nat /\ last[s] \in Nat /\ Len(log) \in Nat
  BY DEF SubInv, After, TypeOK
<1>2. ASSUME NEW r \in Contract!Wanted(s), last[s] < r, r < q PROVE FALSE
  <2>1. r \in pruned + 1 .. Len(log) /\ Selects(s, log[r])
    BY <1>2, WantedFacts DEF TypeOK
  <2>2. r \in After(s, last[s])
    BY <1>2, <2>1 DEF After
  <2>3. r \in rows[s] /\ q <= r
    BY <1>2, <2>2 DEF SubInv, NextRow
  <2> QED BY <1>1, <1>2, <2>1, <2>3
<1>3. Contract!Wanted(s) \subseteq Nat
  BY DEF Contract!Wanted, TypeOK
<1> QED BY <1>1, <1>2, <1>3 DEF Contract!NothingBetween

\* Reading the next row, sent or skipped, leaves no gap.
LEMMA InvRow ==
    ASSUME BusInv, NEW s \in Subs, Send(s) \/ SkipRow(s)
    PROVE  BusInv'
<1>0. TypeOK /\ TypeOK' /\ SubInv(s) /\ pc[s] = "deliver"
  BY TypePoll, InvBySubs DEF Send, SkipRow, Poll
<1>1. PICK q \in rows[s] :
         /\ NextRow(s, q)
         /\ last' = [last EXCEPT ![s] = q]
         /\ rows' = [rows EXCEPT ![s] = @ \ {q}]
         /\ \/ handed' = [handed EXCEPT ![s] = @ \cup {q}]
            \/ ~log[q].ok /\ handed' = handed
  BY DEF Send, SkipRow, history
<1>2. UNCHANGED <<log, pruned, pc, cursor, start>>
  BY DEF Send, SkipRow, history
<1>3. /\ q \in pruned + 1 .. Len(log) /\ last[s] < q /\ Selects(s, log[q])
      /\ q \in Nat /\ last[s] \in Nat /\ Len(log) \in Nat
      /\ Contract!NothingBetween(s, last[s], q)
  BY <1>0, <1>1, NextRowFacts
<1>4. last'[s] = q /\ rows'[s] = rows[s] \ {q} /\ pc'[s] = "deliver"
  BY <1>0, <1>1, <1>2 DEF TypeOK
<1>5. handed[s] \subseteq handed'[s] /\ (log[q].ok => q \in handed'[s])
  BY <1>0, <1>1 DEF TypeOK
<1>6. Contract!Wanted(s)' = Contract!Wanted(s)
  BY <1>2 DEF Contract!Wanted, Wants, Selects
<1>7. \A r : r \in After(s, last[s])' <=> r \in After(s, last[s]) /\ q < r
  <2>1. After(s, last[s])' = After(s, q)
    BY <1>2, <1>4 DEF After, Selects
  <2>2. After(s, last[s]) \subseteq Nat /\ After(s, q) \subseteq Nat
    <3>1. pruned \in Nat /\ Len(log) \in Nat
      BY <1>0 DEF TypeOK
    <3> QED BY <3>1 DEF After
  <2> QED BY <1>3, <2>1, <2>2 DEF After
<1>8. rows'[s] \subseteq After(s, last[s])'
  <2>1. ASSUME NEW r \in rows[s], r # q PROVE q < r
    BY <1>0, <1>1, <1>3, <2>1 DEF NextRow, TypeOK
  <2> QED BY <1>0, <1>4, <1>7, <2>1 DEF SubInv
<1>9. \A x \in rows'[s], r \in After(s, last[s])' : r < x => r \in rows'[s]
  BY <1>0, <1>3, <1>4, <1>7 DEF SubInv
<1>10. \A w \in Contract!Wanted(s) : start[s] < w /\ w <= q => w \in handed'[s]
  <2>1. ASSUME NEW w \in Contract!Wanted(s), start[s] < w, w <= q
        PROVE  w \in handed'[s]
    <3>1. CASE w <= last[s]
      BY <1>0, <1>5, <2>1, <3>1 DEF SubInv
    <3>2. CASE q <= w
      <4>1. w \in Nat
        BY <1>0 DEF Contract!Wanted, TypeOK
      <4>2. w = q
        BY <1>3, <2>1, <3>2, <4>1
      <4>3. log[q].ok
        BY <1>0, <2>1, <4>2, WantedFacts DEF TypeOK
      <4> QED BY <1>5, <4>2, <4>3
    <3> QED BY <1>3, <3>1, <3>2 DEF Contract!NothingBetween
  <2> QED BY <2>1
<1>11. start[s] <= cursor[s] /\ cursor[s] <= q
  BY <1>0, <1>3 DEF SubInv, TypeOK
<1>12. SubInv(s)'
  BY <1>2, <1>4, <1>6, <1>8, <1>9, <1>10, <1>11 DEF SubInv
<1> QED BY <1>0, <1>1, <1>2, <1>12, InvOthers DEF TypeOK

\* Finishing or giving up a batch, saving, taking and stopping keep the
\* invariant.
LEMMA InvRest ==
    ASSUME BusInv, NEW s \in Subs,
           BatchDone(s) \/ ReadFails(s) \/ SaveCursor(s) \/ Take(s) \/ Stop(s)
    PROVE  BusInv'
<1>0. TypeOK /\ TypeOK' /\ SubInv(s)
  BY TypePoll, TypeProcess, InvBySubs DEF Poll
<1>1. UNCHANGED <<log, pruned, start, handed>>
  BY DEF BatchDone, ReadFails, SaveCursor, Take, Stop, history
<1>2. Contract!Wanted(s)' = Contract!Wanted(s)
  BY <1>1 DEF Contract!Wanted, Wants, Selects
<1>3. Contract!Wanted(s) \subseteq Nat
  BY <1>0 DEF Contract!Wanted, TypeOK
<1>4. /\ start[s] \in Nat /\ cursor[s] \in Nat /\ last[s] \in Nat
      /\ start[s] <= cursor[s] /\ cursor[s] <= last[s]
  BY <1>0 DEF TypeOK, SubInv
<1>5. CASE BatchDone(s)
  <2>1. /\ cursor'[s] = last[s] /\ pc'[s] \in {"select", "save"} /\ rows'[s] = {}
        /\ last'[s] = last[s]
    BY <1>0, <1>5 DEF BatchDone, Goto, TypeOK
  <2>2. SubInv(s)'
    BY <1>0, <1>1, <1>2, <1>4, <2>1 DEF SubInv
  <2> QED BY <1>0, <1>1, <1>5, <2>2, InvOthers DEF BatchDone, Goto, TypeOK, history
<1>6. CASE ReadFails(s)
  <2>1. /\ last'[s] = cursor[s] /\ pc'[s] = "select" /\ rows'[s] = {}
        /\ cursor'[s] = cursor[s]
    BY <1>0, <1>6 DEF ReadFails, Goto, TypeOK
  <2>2. \A w \in Contract!Wanted(s) :
           start[s] < w /\ w <= cursor[s] => w \in handed[s]
    BY <1>0, <1>3, <1>4 DEF SubInv
  <2>3. SubInv(s)'
    BY <1>1, <1>2, <1>4, <2>1, <2>2 DEF SubInv
  <2> QED BY <1>0, <1>1, <1>6, <2>3, InvOthers DEF ReadFails, Goto, TypeOK
<1>7. CASE SaveCursor(s)
  <2>1. /\ pc[s] = "save" /\ pc'[s] = "select"
        /\ UNCHANGED <<cursor, last, rows>>
    BY <1>0, <1>7 DEF SaveCursor, Goto, TypeOK
  <2>2. SubInv(s)'
    BY <1>0, <1>1, <1>2, <1>4, <2>1 DEF SubInv
  <2> QED BY <1>0, <1>1, <1>7, <2>2, InvOthers DEF SaveCursor, Goto, TypeOK, history
<1>8. CASE Take(s)
  <2>1. UNCHANGED <<pc, cursor, last, rows>>
    BY <1>8 DEF Take
  <2>2. After(s, last[s])' = After(s, last[s])
    BY <1>1, <2>1 DEF After, Selects
  <2>3. SubInv(s)'
    BY <1>0, <1>1, <1>2, <2>1, <2>2 DEF SubInv
  <2> QED BY <1>0, <1>1, <2>1, <2>3, InvOthers
<1>9. CASE Stop(s)
  <2>1. pc'[s] = "off" /\ rows'[s] = {} /\ UNCHANGED <<cursor, last>>
    BY <1>0, <1>9 DEF Stop, Goto, TypeOK
  <2>2. SubInv(s)'
    BY <1>0, <1>1, <1>2, <2>1 DEF SubInv
  <2> QED BY <1>0, <1>1, <1>9, <2>2, InvOthers DEF Stop, Goto, TypeOK, history
<1> QED BY <1>5, <1>6, <1>7, <1>8, <1>9

\* Every step keeps the invariant.
LEMMA InvNext == BusInv /\ [Next]_vars => BusInv'
<1> SUFFICES ASSUME BusInv, [Next]_vars PROVE BusInv'
  OBVIOUS
<1>1. CASE UNCHANGED vars
  <2>1. TypeOK'
    BY <1>1, TypeNext DEF BusInv
  <2>2. ASSUME NEW s \in Subs PROVE SubInv(s)'
    <3>1. After(s, last[s])' = After(s, last[s]) /\ Contract!Wanted(s)' = Contract!Wanted(s)
      BY <1>1 DEF vars, poller, After, Selects, Contract!Wanted, Wants
    <3> QED BY <1>1, <3>1, InvBySubs DEF vars, poller, history, SubInv
  <2> QED BY <2>1, <2>2, InvBySubs
<1> QED BY <1>1, InvPublish, InvPrune, InvStart, InvQuery, InvRow, InvRest DEF Next, Poll

\* The inductive invariant holds in every reachable state.
THEOREM InvCorrect == Spec => []BusInv
BY InvInit, InvNext, PTL DEF Spec

\* Up to a subscription's cursor nothing that it wants has been skipped
\* (sqlite.go:323).
THEOREM NothingSkipped == Spec => []NothingIsSkipped
<1>1. BusInv => NothingIsSkipped
  <2> SUFFICES ASSUME BusInv, NEW s \in Subs, NEW q \in Contract!Wanted(s),
                      start[s] < q, q <= cursor[s]
               PROVE  q \in handed[s]
    BY DEF NothingIsSkipped
  <2>1. TypeOK /\ SubInv(s)
    BY InvBySubs
  <2>2. q \in Nat /\ cursor[s] \in Nat /\ last[s] \in Nat
    BY <2>1 DEF Contract!Wanted, TypeOK
  <2> QED BY <2>1, <2>2 DEF SubInv
<1> QED BY <1>1, InvCorrect, PTL

\* A stored position is never rewound (sqlite.go:439).
THEOREM StoredPositionsStand == Spec => CursorsNeverRewind
<1> DEFINE Forward == \A a \in Agents : cursors[a] <= cursors'[a]
<1>1. TypeOK /\ [Next]_vars => [Forward]_vars
  <2> SUFFICES ASSUME TypeOK, Next PROVE Forward
    OBVIOUS
  <2>1. \A a \in Agents : cursors[a] \in Int
    BY DEF TypeOK, NoRow
  <2>2. CASE UNCHANGED cursors
    BY <2>1, <2>2
  <2>3. ASSUME NEW s \in Subs, SaveCursor(s) PROVE Forward
    <3>1. cursor[s] \in Int /\ Owner[s] \in Agents
      BY OwnerAssumption DEF TypeOK
    <3>2. CASE UNCHANGED cursors
      BY <2>2, <3>2
    <3>3. CASE cursors' = [cursors EXCEPT ![Owner[s]] = Advance(@, cursor[s])]
      <4>1. cursors[Owner[s]] <= Advance(cursors[Owner[s]], cursor[s])
        BY <2>1, <3>1 DEF Advance
      <4>2. \A a \in Agents :
                cursors'[a] = IF a = Owner[s] THEN Advance(cursors[a], cursor[s]) ELSE cursors[a]
        BY <3>1, <3>3 DEF TypeOK
      <4> QED BY <2>1, <4>1, <4>2
    <3> QED BY <2>3, <3>2, <3>3 DEF SaveCursor
  <2>4. CASE Publish \/ Prune
    BY <2>2, <2>4 DEF Publish, Prune
  <2>5. ASSUME NEW s \in Subs,
               \/ Resume(s) \/ StartAtHead(s) \/ Query(s) \/ Send(s) \/ SkipRow(s)
               \/ BatchDone(s) \/ ReadFails(s) \/ Take(s) \/ Stop(s)
        PROVE  Forward
    BY <2>2, <2>5 DEF Resume, StartAtHead, Query, Send, SkipRow, BatchDone,
                      ReadFails, Take, Stop
  <2> QED BY <2>3, <2>4, <2>5 DEF Next, Poll
<1> QED BY <1>1, TypeCorrect, PTL DEF Spec, CursorsNeverRewind

(***************************************************************************)
(* The refinement.                                                         *)
(***************************************************************************)

\* The initial state is one of Inbox.
LEMMA InitRefines == Init => Contract!Init
BY DEF Init, Contract!Init

\* Every step is a step of Inbox, or leaves its state unchanged.
LEMMA StepRefines ==
    BusInv /\ [Next]_vars => [Contract!Next]_(Contract!vars)
<1> SUFFICES ASSUME BusInv, [Next]_vars
             PROVE  Contract!Next \/ UNCHANGED Contract!vars
  OBVIOUS
<1>0. TypeOK /\ Len(log) \in Nat
  BY DEF BusInv, TypeOK
<1>1. CASE UNCHANGED vars
  BY <1>1 DEF vars, poller, history, Contract!vars
<1>2. CASE Publish
  BY <1>2 DEF Publish, poller, history, Contract!Publish, Contract!Next
<1>3. CASE Prune
  <2>1. pruned' \in pruned .. Len(log)
    BY <1>0, <1>3 DEF Prune, TypeOK
  <2> QED BY <1>3, <2>1 DEF Prune, poller, history, Contract!Prune, Contract!Next
<1>4. ASSUME NEW s \in Subs, Resume(s) \/ StartAtHead(s)
      PROVE  Contract!Next \/ UNCHANGED Contract!vars
  <2>1. ASSUME NEW c \in 0 .. Len(log), StartAt(s, c), UNCHANGED <<log, pruned>>
        PROVE  Contract!Open(s)
    BY <2>1 DEF StartAt, Contract!Open
  <2>2. HeadSeq \in 0 .. Len(log)
    BY <1>0 DEF HeadSeq
  <2>3. cursors[Owner[s]] # NoRow => cursors[Owner[s]] \in 0 .. Len(log)
    BY <1>0, OwnerAssumption DEF TypeOK
  <2>4. CASE StartAtHead(s)
    BY <2>1, <2>2, <2>4 DEF StartAtHead, Contract!Next
  <2>5. CASE Resume(s) /\ cursors[Owner[s]] # NoRow
    BY <2>1, <2>3, <2>5 DEF Resume, Contract!Next
  <2>6. CASE Resume(s) /\ cursors[Owner[s]] = NoRow
    BY <2>6 DEF Resume, Contract!vars
  <2> QED BY <1>4, <2>4, <2>5, <2>6
<1>5. ASSUME NEW s \in Subs, Send(s) PROVE Contract!Next
  <2>1. PICK q \in rows[s] :
           /\ NextRow(s, q) /\ log[q].ok
           /\ last' = [last EXCEPT ![s] = q]
           /\ handed' = [handed EXCEPT ![s] = @ \cup {q}]
    BY <1>5 DEF Send
  <2>2. SubInv(s) /\ pc[s] = "deliver" /\ UNCHANGED <<log, pruned, start>>
    BY <1>5, InvBySubs DEF Send
  <2>3. /\ q \in pruned + 1 .. Len(log) /\ last[s] < q /\ Selects(s, log[q])
        /\ Contract!NothingBetween(s, last[s], q)
    BY <1>0, <2>1, <2>2, NextRowFacts
  <2>4. q \in Contract!Wanted(s)
    BY <1>0, <2>1, <2>3, WantedFacts DEF TypeOK
  <2>5. Contract!Hand(s)
    BY <2>1, <2>2, <2>3, <2>4 DEF Contract!Hand
  <2> QED BY <2>5 DEF Contract!Next
<1>6. ASSUME NEW s \in Subs, SkipRow(s) PROVE Contract!Next
  <2>1. PICK q \in rows[s] :
           NextRow(s, q) /\ ~log[q].ok /\ last' = [last EXCEPT ![s] = q]
    BY <1>6 DEF SkipRow
  <2>2. /\ SubInv(s) /\ pc[s] = "deliver"
        /\ UNCHANGED <<log, pruned, start, handed>>
    BY <1>6, InvBySubs DEF SkipRow, history
  <2>3. /\ q \in pruned + 1 .. Len(log) /\ last[s] < q
        /\ q \in Nat /\ last[s] \in Nat
        /\ Contract!NothingBetween(s, last[s], q)
    BY <1>0, <2>1, <2>2, NextRowFacts
  <2>4. q \notin Contract!Wanted(s)
    BY <1>0, <2>1, WantedFacts DEF TypeOK
  <2>5. q \in last[s] + 1 .. Len(log)
    BY <1>0, <2>3
  <2>6. Contract!Pass(s)
    BY <2>1, <2>2, <2>3, <2>4, <2>5 DEF Contract!Pass
  <2> QED BY <2>6 DEF Contract!Next
<1>7. ASSUME NEW s \in Subs, ReadFails(s) PROVE Contract!Next
  <2>1. cursor[s] \in start[s] .. last[s]
    BY <1>0, InvBySubs DEF SubInv, TypeOK
  <2>2. Contract!Back(s)
    BY <1>7, <2>1 DEF ReadFails, Contract!Back
  <2> QED BY <2>2 DEF Contract!Next
<1>8. ASSUME NEW s \in Subs,
             Query(s) \/ BatchDone(s) \/ SaveCursor(s) \/ Take(s) \/ Stop(s)
      PROVE  UNCHANGED Contract!vars
  BY <1>8 DEF Query, BatchDone, SaveCursor, Take, Stop, history, Contract!vars
<1> QED BY <1>1, <1>2, <1>3, <1>4, <1>5, <1>6, <1>7, <1>8 DEF Next, Poll

\* The poller implements Inbox: ordered, gapless delivery, at least once.
THEOREM Refinement == Spec => ImplementsInbox
BY InitRefines, StepRefines, InvCorrect, PTL DEF Spec, ImplementsInbox, Contract!Spec

(***************************************************************************)
(* What there is to come stays.                                            *)
(***************************************************************************)

\* Among some numbers one is the least.
LEMMA LeastFacts ==
    ASSUME NEW T, T \subseteq Nat, T # {}
    PROVE  \E x \in T : \A y \in T : x <= y
<1>1. PICK x \in T : \A y \in T : <<y, x>> \notin OpToRel(<, Nat)
  BY NatLessThanWellFounded, WFMin, Zenon
<1>2. \A y \in T : ~(y < x)
  <2> SUFFICES ASSUME NEW y \in T, y < x PROVE FALSE
    OBVIOUS
  <2>1. <<y, x>> \in Nat \X Nat /\ <<y, x>>[1] < <<y, x>>[2]
    BY <1>1
  <2>2. <<y, x>> \in OpToRel(<, Nat)
    BY <2>1 DEF OpToRel
  <2> QED BY <1>1, <2>2, Zenon
<1>3. \A m, n \in Nat : ~(n < m) => m <= n
  OBVIOUS
<1> QED BY <1>2, <1>3, Zenon

\* A query finds a row if there is one.
LEMMA SelectFinds ==
    ASSUME NEW s \in Subs, NEW c \in Nat, log \in Seq(Messages), pruned \in Nat,
           After(s, c) # {}
    PROVE  Select(s, c) # {}
<1>1. After(s, c) \subseteq Nat
  BY SelectFacts
<1>2. PICK x \in After(s, c) : \A y \in After(s, c) : x <= y
  BY <1>1, LeastFacts
<1>3. {r \in After(s, c) : r < x} = {}
  BY <1>1, <1>2
<1>4. Cardinality({r \in After(s, c) : r < x}) = 0
  BY <1>3, FS_EmptySet, Zenon
<1>5. x \in Select(s, c)
  BY <1>4, BoundsAssumption DEF Select
<1> QED BY <1>5

\* What is to come of s, is to come, is handed over or s ends.
StayDue(s) ==
    \A q \in Contract!Wanted(s) :
        Live(s) /\ last[s] < q =>
            \/ q \in handed'[s] \/ ~Live(s)'
            \/ q \in Contract!Wanted(s)' /\ last'[s] < q

\* A step that leaves the log, and a position that it does not advance.
LEMMA DueKept ==
    ASSUME BusInv, NEW s \in Subs, UNCHANGED <<log, pruned>>, last'[s] <= last[s],
           last'[s] \in Nat
    PROVE  StayDue(s)
<1>1. Contract!Wanted(s)' = Contract!Wanted(s) /\ Contract!Wanted(s) \subseteq Nat
  BY DEF Contract!Wanted, Wants, Selects, BusInv, TypeOK
<1>2. last[s] \in Nat
  BY DEF BusInv, TypeOK
<1> QED BY <1>1, <1>2 DEF StayDue

LEMMA DueLog == ASSUME BusInv, NEW s \in Subs, Publish \/ Prune PROVE StayDue(s)
<1>0. /\ TypeOK /\ SubInv(s) /\ Len(log) \in Nat /\ pruned \in Nat
      /\ log \in Seq(Messages) /\ last[s] \in Nat /\ cursor[s] \in Nat
      /\ last' = last /\ cursor[s] <= last[s]
  <2>1. TypeOK /\ SubInv(s) /\ last' = last
    BY InvBySubs DEF Publish, Prune, poller
  <2> QED BY <2>1 DEF TypeOK, SubInv
<1> SUFFICES ASSUME NEW q \in Contract!Wanted(s), Live(s), last[s] < q
             PROVE  q \in Contract!Wanted(s)'
  BY <1>0 DEF StayDue
<1>1. q \in pruned + 1 .. Len(log) /\ log[q] \in Wants[s] /\ q \in Nat
  BY <1>0 DEF Contract!Wanted
<1>2. Wants' = Wants
  BY DEF Wants, Selects
<1>3. CASE Publish
  <2>1. PICK m \in Messages : log' = Append(log, m)
    BY <1>3 DEF Publish
  <2>2. Len(log') = Len(log) + 1 /\ log'[q] = log[q] /\ pruned' = pruned
    BY <1>0, <1>1, <1>3, <2>1 DEF Publish
  <2>3. q \in pruned' + 1 .. Len(log')
    BY <1>0, <1>1, <2>2
  <2> QED BY <1>1, <1>2, <2>2, <2>3 DEF Contract!Wanted
<1>4. CASE Prune
  <2>1. pruned' \in Nat /\ pruned' <= cursor[s] /\ log' = log
    BY <1>0, <1>4 DEF Prune
  <2>2. pruned' + 1 <= q /\ q <= Len(log')
    <3>1. cursor[s] <= last[s] /\ last[s] < q /\ cursor[s] \in Nat /\ last[s] \in Nat
      BY <1>0
    <3>2. pruned' + 1 <= q
      BY ONLY <3>1, <2>1, <1>1
    <3>3. q <= Len(log)
      BY <1>0, <1>1
    <3>4. Len(log') = Len(log)
      BY <2>1
    <3> QED BY <3>2, <3>3, <3>4
  <2>3. q \in pruned' + 1 .. Len(log')
    BY <1>1, <2>1, <2>2
  <2> QED BY <1>1, <1>2, <2>1, <2>3 DEF Contract!Wanted
<1> QED BY <1>3, <1>4

\* Reading a row passes over nothing that is wanted.
LEMMA DueRow == ASSUME BusInv, NEW s \in Subs, Send(s) \/ SkipRow(s) PROVE StayDue(s)
<1>0. TypeOK /\ SubInv(s) /\ pc[s] = "deliver"
  BY InvBySubs DEF Send, SkipRow
<1>1. PICK q \in rows[s] :
         /\ NextRow(s, q)
         /\ last' = [last EXCEPT ![s] = q]
         /\ \/ handed' = [handed EXCEPT ![s] = @ \cup {q}]
            \/ ~log[q].ok
  BY DEF Send, SkipRow
<1>2. /\ last'[s] = q /\ UNCHANGED <<log, pruned>> /\ q \in Nat /\ last[s] \in Nat
      /\ Contract!NothingBetween(s, last[s], q)
      /\ ~log[q].ok \/ q \in handed'[s]
  <2>1. UNCHANGED <<log, pruned>> /\ last'[s] = q /\ (~log[q].ok \/ q \in handed'[s])
    BY <1>0, <1>1 DEF Send, SkipRow, TypeOK
  <2> QED BY <1>0, <1>1, <2>1, NextRowFacts
<1>3. Contract!Wanted(s)' = Contract!Wanted(s) /\ Contract!Wanted(s) \subseteq Nat
  BY <1>0, <1>2 DEF Contract!Wanted, Wants, Selects, TypeOK
<1>4. ASSUME NEW r \in Contract!Wanted(s), last[s] < r
      PROVE  r \in handed'[s] \/ q < r
  <2>1. r \in Nat /\ q <= r
    BY <1>2, <1>3, <1>4 DEF Contract!NothingBetween
  <2>2. CASE r = q
    <3>1. log[r].ok
      BY <1>0, WantedFacts DEF TypeOK
    <3> QED BY <1>2, <2>2, <3>1
  <2> QED BY <1>2, <2>1, <2>2
<1> QED BY <1>2, <1>3, <1>4 DEF StayDue

LEMMA DueStep ==
    ASSUME BusInv, NEW s \in Subs, NEW x \in Subs,
           \/ Resume(x) \/ StartAtHead(x) \/ Poll(x) \/ ReadFails(x) \/ Take(x) \/ Stop(x)
    PROVE  StayDue(s)
<1>0. TypeOK /\ SubInv(s) /\ UNCHANGED <<log, pruned>> /\ last[s] \in Nat /\ cursor[s] \in Nat
      /\ cursor[s] <= last[s]
  <2>1. TypeOK /\ SubInv(s)
    BY InvBySubs
  <2>2. UNCHANGED <<log, pruned>>
    BY DEF Resume, StartAtHead, Poll, Query, Send, SkipRow, BatchDone, SaveCursor,
           ReadFails, Take, Stop
  <2> QED BY <2>1, <2>2 DEF TypeOK, SubInv
<1>1. CASE last'[s] = last[s]
  BY <1>0, <1>1, DueKept
<1>2. CASE x = s /\ (Resume(s) \/ StartAtHead(s))
  <2>1. ~Live(s)
    BY <1>2 DEF Resume, StartAtHead, Live
  <2> QED BY <2>1 DEF StayDue
<1>3. CASE x = s /\ (Send(s) \/ SkipRow(s))
  BY <1>3, DueRow
<1>4. CASE x = s /\ ReadFails(s)
  <2>1. last'[s] = cursor[s]
    BY <1>0, <1>4 DEF ReadFails, TypeOK
  <2> QED BY <1>0, <2>1, DueKept
<1>5. CASE x # s \/ Query(x) \/ BatchDone(x) \/ SaveCursor(x) \/ Take(x) \/ Stop(x)
  <2>1. last' = last \/ (x # s /\ \E c : last' = [last EXCEPT ![x] = c])
    BY <1>5 DEF Resume, StartAtHead, StartAt, Poll, Query, Send, SkipRow, BatchDone,
                SaveCursor, ReadFails, Take, Stop, history
  <2>2. last'[s] = last[s]
    BY <1>0, <2>1 DEF TypeOK
  <2> QED BY <1>1, <2>2
<1> QED BY <1>2, <1>3, <1>4, <1>5 DEF Poll

\* A message that is due stays due until it is handed over, for any capacity
\* and however many subscriptions share an agent's name, and every query finds
\* some of what is due (sqlite.go:323, 362): with MessagesArrive's fairness
\* the message arrives.
THEOREM DueMessagesStay == Spec => MessagesStayDue
<1> DEFINE Stay ==
               \A s \in Subs :
                   /\ \A q \in Contract!Wanted(s) :
                          Live(s) /\ last[s] < q =>
                              \/ q \in handed'[s] \/ ~Live(s)'
                              \/ q \in Contract!Wanted(s)' /\ last'[s] < q
                   /\ Query(s) /\ After(s, cursor[s]) # {} => rows'[s] # {}
<1>1. BusInv /\ [Next]_vars => [Stay]_vars
  <2> SUFFICES ASSUME BusInv, Next, NEW s \in Subs
               PROVE  /\ StayDue(s)
                      /\ Query(s) /\ After(s, cursor[s]) # {} => rows'[s] # {}
    BY DEF StayDue
  <2>1. StayDue(s)
    BY DueLog, DueStep DEF Next
  <2>2. ASSUME Query(s), After(s, cursor[s]) # {} PROVE rows'[s] # {}
    <3>1. rows'[s] = Select(s, cursor[s])
      BY <2>2 DEF Query, BusInv, TypeOK
    <3>2. log \in Seq(Messages) /\ pruned \in Nat /\ cursor[s] \in Nat
      BY DEF BusInv, TypeOK
    <3> QED BY <2>2, <3>1, <3>2, SelectFinds
  <2> QED BY <2>1, <2>2
<1> QED BY <1>1, InvCorrect, PTL DEF Spec, MessagesStayDue
=============================================================================
