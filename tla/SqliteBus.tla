----------------------------- MODULE SqliteBus -----------------------------
(***************************************************************************)
(* The durable bus of pkg/bus/sqlite: an append-only log, a stored cursor  *)
(* per agent name, and one poller goroutine per subscription.              *)
(*                                                                         *)
(* A subscription belongs to a process and can end and be made again any   *)
(* number of times; several subscriptions may use one agent's name, as a   *)
(* pc submit and the courier of the same agent do.  One SQL statement is   *)
(* one action, except that a query's rows are read one by one: they are a  *)
(* snapshot taken when the query starts.                                   *)
(*                                                                         *)
(* Operators named Mutant* are faulty variants of the definition below     *)
(* them; they show that a property can fail and are used nowhere.          *)
(***************************************************************************)
EXTENDS Integers, Sequences, FiniteSets

CONSTANTS
    Agents,         \* agent names
    Subs,           \* subscriptions
    Owner,          \* the agent each subscription is made for
    TopicsOf,       \* the topics each subscription joins
    Messages,       \* [from, to, topic, ok]: see Selects
    Batch,          \* rows per query, and capacity of the channel
    MaxLog,         \* bound: messages ever published
    MaxErrors       \* bound: queries that fail

NoRow == -1             \* no row in cursors
Nothing == "nothing"    \* no recipient, or no topic

ASSUME OwnerAssumption == Owner \in [Subs -> Agents] /\ Nothing \notin Agents
ASSUME TopicsAssumption == \A s \in Subs : Nothing \notin TopicsOf[s]
ASSUME BoundsAssumption == Batch \in Nat \ {0} /\ MaxLog \in Nat /\ MaxErrors \in Nat
ASSUME MessagesAssumption == \A m \in Messages : m.ok \in BOOLEAN

VARIABLES
    log,        \* the messages table: row q of it is log[q], if pruned < q
    pruned,     \* rows up to here are deleted
    cursors,    \* the cursors table
    pc,         \* where each subscription stands
    cursor,     \* cursor of poll_
    rows,       \* the rows of its query it has yet to read
    last,       \* last of deliverBatch
    chan,       \* its channel: positions of the messages in the log
    start,      \* history: where it started
    handed,     \* history: what has been put into its channel since
    errors      \* history: queries that have failed

poller == <<pc, cursor, rows, last, chan>>
history == <<start, handed, errors>>
vars == <<log, pruned, cursors, poller, history>>

Init ==
    /\ log = <<>> /\ pruned = 0
    /\ cursors = [a \in Agents |-> NoRow]
    /\ pc = [s \in Subs |-> "off"]
    /\ cursor = [s \in Subs |-> 0]
    /\ rows = [s \in Subs |-> {}]
    /\ last = [s \in Subs |-> 0]
    /\ chan = [s \in Subs |-> <<>>]
    /\ start = [s \in Subs |-> 0]
    /\ handed = [s \in Subs |-> {}]
    /\ errors = 0

Goto(s, label) == pc' = [pc EXCEPT ![s] = label]

Live(s) == pc[s] \in {"select", "deliver", "save"}
-----------------------------------------------------------------------------
(***************************************************************************)
(* The log.                                                                *)
(***************************************************************************)

Publish ==
    /\ Len(log) < MaxLog
    /\ \E m \in Messages : log' = Append(log, m)
    /\ UNCHANGED <<pruned, cursors, poller, history>>

\* "callers prune only below positions all subscribers have already passed"
Prune ==
    /\ \E n \in pruned + 1 .. Len(log) :
           /\ \A a \in Agents : cursors[a] # NoRow => n <= cursors[a]
           /\ \A s \in Subs : Live(s) => n <= cursor[s]
           /\ pruned' = n
    /\ UNCHANGED <<log, cursors, poller, history>>

\* A new agent starts at the message that is published next.
MutantHeadSeqNext == Len(log) + 1

\* headSeq
HeadSeq == IF pruned = Len(log) THEN 0 ELSE Len(log)

\* WHERE to_agent = me OR (to_topic IN topics AND from_agent <> me)
Selects(s, m) ==
    \/ m.to = Owner[s]
    \/ m.topic \in TopicsOf[s] /\ m.from # Owner[s]

\* selectQuery without its LIMIT: seq > c
After(s, c) == {q \in pruned + 1 .. Len(log) : c < q /\ Selects(s, log[q])}

\* selectQuery: the first Batch of those, in the order of seq.
Select(s, c) ==
    {q \in After(s, c) : Cardinality({r \in After(s, c) : r < q}) < Batch}

-----------------------------------------------------------------------------
(***************************************************************************)
(* Subscribe.                                                              *)
(***************************************************************************)

StartAt(s, c) ==
    /\ start' = [start EXCEPT ![s] = c]
    /\ cursor' = [cursor EXCEPT ![s] = c]
    /\ last' = [last EXCEPT ![s] = c]
    /\ handed' = [handed EXCEPT ![s] = {}]
    /\ Goto(s, "select")

\* initCursor: a returning agent resumes after its stored position, ...
Resume(s) ==
    /\ pc[s] = "off"
    /\ LET row == cursors[Owner[s]]
       IN  IF row # NoRow
           THEN StartAt(s, row)
           ELSE Goto(s, "head") /\ UNCHANGED <<cursor, last, start, handed>>
    /\ UNCHANGED <<log, pruned, cursors, rows, chan, errors>>

\* ... and a new one starts at the head of the log, by a second query.
StartAtHead(s) ==
    /\ pc[s] = "head"
    /\ StartAt(s, HeadSeq)
    /\ UNCHANGED <<log, pruned, cursors, rows, chan, errors>>

-----------------------------------------------------------------------------
(***************************************************************************)
(* poll_ and deliverBatch.                                                 *)
(***************************************************************************)

Query(s) ==
    /\ pc[s] = "select"
    /\ rows' = [rows EXCEPT ![s] = Select(s, cursor[s])]
    /\ Goto(s, "deliver")
    /\ UNCHANGED <<log, pruned, cursors, cursor, last, chan, history>>

\* The result is not ordered.
MutantNextRowAny(s, q) == q \in rows[s]

\* ORDER BY seq: the next row of the result.
NextRow(s, q) == q \in rows[s] /\ \A r \in rows[s] : q <= r

\* The send waits for a free slot in the channel.
Send(s) ==
    /\ pc[s] = "deliver" /\ Len(chan[s]) < Batch
    /\ \E q \in rows[s] :
           /\ NextRow(s, q) /\ log[q].ok
           /\ chan' = [chan EXCEPT ![s] = Append(@, q)]
           /\ handed' = [handed EXCEPT ![s] = @ \cup {q}]
           /\ last' = [last EXCEPT ![s] = q]
           /\ rows' = [rows EXCEPT ![s] = @ \ {q}]
    /\ UNCHANGED <<log, pruned, cursors, pc, cursor, start, errors>>

\* The poll is given up at a row that cannot be decoded.
MutantSkipRowGivesUp(s) ==
    /\ pc[s] = "deliver"
    /\ \E q \in rows[s] : NextRow(s, q) /\ ~log[q].ok
    /\ rows' = [rows EXCEPT ![s] = {}]
    /\ UNCHANGED <<log, pruned, cursors, pc, cursor, last, chan, history>>

\* A row that cannot be decoded is skipped.
SkipRow(s) ==
    /\ pc[s] = "deliver"
    /\ \E q \in rows[s] :
           /\ NextRow(s, q) /\ ~log[q].ok
           /\ last' = [last EXCEPT ![s] = q]
           /\ rows' = [rows EXCEPT ![s] = @ \ {q}]
    /\ UNCHANGED <<log, pruned, cursors, pc, cursor, chan, history>>

\* The query, a row or the iteration fails: the next poll starts from the
\* cursor again, whatever has been sent.
ReadFails(s) ==
    /\ pc[s] = "deliver" /\ errors < MaxErrors
    /\ errors' = errors + 1
    /\ last' = [last EXCEPT ![s] = cursor[s]]
    /\ rows' = [rows EXCEPT ![s] = {}]
    /\ Goto(s, "select")
    /\ UNCHANGED <<log, pruned, cursors, cursor, chan, start, handed>>

\* The cursor is moved to the head of the log, not to the last row.
MutantBatchDoneJumps(s) ==
    /\ pc[s] = "deliver" /\ rows[s] = {}
    /\ cursor' = [cursor EXCEPT ![s] = Len(log)]
    /\ last' = [last EXCEPT ![s] = Len(log)]
    /\ Goto(s, IF last[s] > cursor[s] THEN "save" ELSE "select")
    /\ UNCHANGED <<log, pruned, cursors, rows, chan, history>>

\* The batch is through.
BatchDone(s) ==
    /\ pc[s] = "deliver" /\ rows[s] = {}
    /\ cursor' = [cursor EXCEPT ![s] = last[s]]
    /\ Goto(s, IF last[s] > cursor[s] THEN "save" ELSE "select")
    /\ UNCHANGED <<log, pruned, cursors, rows, last, chan, history>>

\* The last writer wins.
MutantAdvanceOverwrites(row, c) == c

\* ON CONFLICT DO UPDATE SET last_seq = MAX(last_seq, excluded.last_seq)
Advance(row, c) == IF row < c THEN c ELSE row

\* saveCursor; an error is reported and otherwise ignored.
SaveCursor(s) ==
    /\ pc[s] = "save"
    /\ \/ cursors' = [cursors EXCEPT ![Owner[s]] = Advance(@, cursor[s])]
       \/ UNCHANGED cursors
    /\ Goto(s, "select")
    /\ UNCHANGED <<log, pruned, cursor, rows, last, chan, history>>

Poll(s) == Query(s) \/ Send(s) \/ SkipRow(s) \/ BatchDone(s) \/ SaveCursor(s)

-----------------------------------------------------------------------------
(***************************************************************************)
(* The process that subscribes.                                            *)
(***************************************************************************)

\* Its dispatch loop takes the next message.
Take(s) ==
    /\ chan[s] # <<>>
    /\ chan' = [chan EXCEPT ![s] = Tail(@)]
    /\ UNCHANGED <<log, pruned, cursors, pc, cursor, rows, last, history>>

\* Its context is cancelled, it closes the bus, or it dies: the poller
\* returns without saving, and the channel goes with the process.
Stop(s) ==
    /\ pc[s] # "off"
    /\ Goto(s, "off")
    /\ rows' = [rows EXCEPT ![s] = {}]
    /\ chan' = [chan EXCEPT ![s] = <<>>]
    /\ UNCHANGED <<log, pruned, cursors, cursor, last, history>>

Next ==
    \/ Publish \/ Prune
    \/ \E s \in Subs :
           \/ Resume(s) \/ StartAtHead(s)
           \/ Poll(s) \/ ReadFails(s)
           \/ Take(s) \/ Stop(s)

Spec == Init /\ [][Next]_vars

\* A poller's ticker fires, and a process that lives reads its channel.
FairSpec ==
    /\ Spec
    /\ \A s \in Subs : WF_vars(Poll(s)) /\ WF_vars(Take(s))
-----------------------------------------------------------------------------
(***************************************************************************)
(* Properties.                                                             *)
(***************************************************************************)

Labels == {"off", "head", "select", "deliver", "save"}

\* The type of the tables and of every poller: positions lie within the log,
\* and no channel holds more than a batch (sqlite.go:263).
TypeOK ==
    /\ log \in Seq(Messages) /\ pruned \in 0 .. Len(log)
    /\ cursors \in [Agents -> 0 .. Len(log) \cup {NoRow}]
    /\ pc \in [Subs -> Labels]
    /\ cursor \in [Subs -> 0 .. Len(log)] /\ last \in [Subs -> 0 .. Len(log)]
    /\ start \in [Subs -> 0 .. Len(log)]
    /\ rows \in [Subs -> SUBSET (1 .. Len(log))] /\ handed \in [Subs -> SUBSET Nat]
    /\ chan \in [Subs -> Seq(Nat)]
    /\ \A s \in Subs : Len(chan[s]) <= Batch
    /\ errors \in Nat

\* The messages a subscription is to get.
Wants == [s \in Subs |-> {m \in Messages : Selects(s, m) /\ m.ok}]

Contract == INSTANCE Inbox WITH pos <- last, got <- handed

\* What the poller does, with queries that fail, rows that cannot be
\* decoded, other subscriptions under the same name and restarts, is what
\* Inbox promises (PROTOCOL.md:74).
ImplementsInbox == Contract!Spec

\* A subscription's cursor never gets ahead of what was put into its
\* channel: whatever fails on the way, a message it wants that lies between
\* its start and its cursor has been handed over (sqlite.go:323).
NothingIsSkipped ==
    \A s \in Subs : \A q \in Contract!Wanted(s) :
        start[s] < q /\ q <= cursor[s] => q \in handed[s]

\* The invariant that makes it inductive and carries the refinement: the
\* rows still to be read are the next ones after the last one read, without
\* a gap, and up to there nothing was skipped.
BusInv ==
    /\ TypeOK
    /\ \A s \in Subs :
           /\ start[s] <= cursor[s] /\ cursor[s] <= last[s]
           /\ pc[s] # "deliver" => rows[s] = {}
           /\ pc[s] \in {"select", "save"} => last[s] = cursor[s]
           /\ pc[s] = "deliver" => rows[s] \subseteq After(s, last[s])
           /\ \A q \in rows[s], r \in After(s, last[s]) : r < q => r \in rows[s]
           /\ \A q \in Contract!Wanted(s) :
                  start[s] < q /\ q <= last[s] => q \in handed[s]

\* A stored position is never rewound, although subscriptions of unequal
\* progress share it (sqlite.go:439).
CursorsNeverRewind ==
    [][\A a \in Agents : cursors[a] <= cursors'[a]]_vars

\* A live subscription gets every message there is for it, past rows that
\* cannot be decoded and failed queries (sqlite.go:362).
MessagesArrive ==
    \A s \in Subs : \A q \in 1 .. MaxLog :
        (Live(s) /\ q \in Contract!Wanted(s) /\ last[s] < q)
            ~> (q \in handed[s] \/ ~Live(s))

\* What MessagesArrive comes to: a message that is to come to a live
\* subscription stays to come, whatever fails, is pruned or saved, until it is
\* handed over or the subscription ends; and a query finds one if there is one
\* (sqlite.go:323, 362).
MessagesStayDue ==
    [][\A s \in Subs :
           /\ \A q \in Contract!Wanted(s) :
                  Live(s) /\ last[s] < q =>
                      \/ q \in handed'[s] \/ ~Live(s)'
                      \/ q \in Contract!Wanted(s)' /\ last'[s] < q
           /\ Query(s) /\ After(s, cursor[s]) # {} => rows'[s] # {}]_vars
=============================================================================
