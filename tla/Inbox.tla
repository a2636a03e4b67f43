------------------------------- MODULE Inbox -------------------------------
(***************************************************************************)
(* What a durable bus promises its subscriptions: each gets the messages   *)
(* it wants, from where it starts, in the order of the log, and each of    *)
(* them at least once.  Its position may fall back, so that messages are   *)
(* handed over again, but it never moves over a message that is still to   *)
(* come.                                                                   *)
(*                                                                         *)
(* This is the contract that SqliteBus is shown to implement.              *)
(***************************************************************************)
EXTENDS Naturals, Sequences

CONSTANTS
    Subs,       \* subscriptions
    Messages,
    Wants       \* the messages each subscription is to get

VARIABLES
    log,        \* every message ever published
    pruned,     \* the messages up to here are deleted
    start,      \* where each subscription started
    pos,        \* where it stands
    got         \* the positions in the log of what it was handed so far

vars == <<log, pruned, start, pos, got>>

\* What there is for s in the log.
Wanted(s) == {q \in pruned + 1 .. Len(log) : log[q] \in Wants[s]}

\* Nothing for s lies after p and before q.
NothingBetween(s, p, q) == \A r \in Wanted(s) : r <= p \/ q <= r

Init ==
    /\ log = <<>>
    /\ pruned = 0
    /\ start = [s \in Subs |-> 0]
    /\ pos = [s \in Subs |-> 0]
    /\ got = [s \in Subs |-> {}]

Publish ==
    /\ \E m \in Messages : log' = Append(log, m)
    /\ UNCHANGED <<pruned, start, pos, got>>

Prune ==
    /\ pruned' \in pruned .. Len(log)
    /\ UNCHANGED <<log, start, pos, got>>

\* s starts, or starts anew, anywhere.
Open(s) ==
    /\ \E p \in 0 .. Len(log) :
           /\ start' = [start EXCEPT ![s] = p]
           /\ pos' = [pos EXCEPT ![s] = p]
    /\ got' = [got EXCEPT ![s] = {}]
    /\ UNCHANGED <<log, pruned>>

\* s is handed the next message for it.
Hand(s) ==
    \E q \in Wanted(s) :
        /\ pos[s] < q /\ NothingBetween(s, pos[s], q)
        /\ pos' = [pos EXCEPT ![s] = q]
        /\ got' = [got EXCEPT ![s] = @ \cup {q}]
        /\ UNCHANGED <<log, pruned, start>>

\* s passes over a message that is not for it.
Pass(s) ==
    \E q \in pos[s] + 1 .. Len(log) :
        /\ q \notin Wanted(s) /\ NothingBetween(s, pos[s], q)
        /\ pos' = [pos EXCEPT ![s] = q]
        /\ UNCHANGED <<log, pruned, start, got>>

\* s falls back.
Back(s) ==
    /\ \E p \in start[s] .. pos[s] : pos' = [pos EXCEPT ![s] = p]
    /\ UNCHANGED <<log, pruned, start, got>>

Next ==
    \/ Publish \/ Prune
    \/ \E s \in Subs : Open(s) \/ Hand(s) \/ Pass(s) \/ Back(s)

Spec == Init /\ [][Next]_vars
=============================================================================
