----------------------------- MODULE MCCourier -----------------------------
(***************************************************************************)
(* The courier of agent w, a peer p, and messages that take each of the    *)
(* courier's paths: a block, a broadcast, and a request its own agent sent *)
(* to itself.                                                              *)
(***************************************************************************)
EXTENDS Courier

CONSTANTS w, p, run

MCOnSteer == {<<"exec", "exit">>}
MCOnFollow == {<<"tool">>}
MCOnStart == <<>>
Message(from, to, intent, text) ==
    [from |-> from, to |-> to, intent |-> intent, text |-> text]
MCOutgoing ==
    {Message(p, w, "block", TRUE),
     Message(p, Topic, "inform", TRUE),
     Message(w, w, "request", TRUE)}
=============================================================================
