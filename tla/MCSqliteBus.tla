---------------------------- MODULE MCSqliteBus ----------------------------
(***************************************************************************)
(* One agent name with two subscriptions, as a courier (direct messages    *)
(* only) and a pc submit (which joins the gate's topic) make them.         *)
(***************************************************************************)
EXTENDS SqliteBus

CONSTANTS a, b, t, s1, s2

MCSubs == {s1, s2}
MCOwner == [s \in MCSubs |-> a]
MCTopicsOf == [s \in MCSubs |-> IF s = s1 THEN {} ELSE {t}]

Direct(ok) == [from |-> b, to |-> a, topic |-> Nothing, ok |-> ok]
ToTopic(from) == [from |-> from, to |-> Nothing, topic |-> t, ok |-> TRUE]
MCMessages == {Direct(TRUE), Direct(FALSE), ToTopic(b), ToTopic(a)}
=============================================================================
