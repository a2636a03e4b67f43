----------------------------- MODULE Workspace -----------------------------
(***************************************************************************)
(* The lease manager of pkg/workspace for one worktree path.               *)
(*                                                                         *)
(* The lease row lives in SQLite, the worktree on disk.  Callers are the   *)
(* processes and goroutines that acquire this path, one acquisition at a   *)
(* time each; a caller's identity in the row stands for the token that     *)
(* newHolderToken mints per acquisition, which is faithful because a       *)
(* caller starts an acquisition only when nothing of its last one is left. *)
(*                                                                         *)
(* One SQL statement is one action (SQLite serialises them), one git       *)
(* command or stat is one action, and anything may happen in between.      *)
(* Time is the age of the row's last heartbeat.                            *)
(***************************************************************************)
EXTENDS Naturals

CONSTANTS
    Callers,    \* acquisitions that compete for the path
    Branches,   \* branches they ask for
    TTL         \* leaseTTL, in ticks

ASSUME TTLAssumption == TTL \in Nat
ASSUME DistinctAssumption ==
    "nobody" \notin Callers /\ "none" \notin Branches /\ "broken" \notin Branches

Row(c, age) == [holder |-> c, age |-> age]
NoRow == Row("nobody", 0)
Rows == [holder : Callers, age : 0 .. TTL + 1]

NoDir == "none"         \* nothing at the path
Broken == "broken"      \* left by a git command that was killed half way

VARIABLES
    row,        \* the row of the leases table for this path, or NoRow
    dir,        \* the branch checked out at the path, NoDir or Broken
    pc,         \* where each caller stands in Acquire, its lease, or Release
    branch      \* the branch each caller asked for

vars == <<row, dir, pc, branch>>

Init ==
    /\ row = NoRow
    /\ dir = NoDir
    /\ pc = [c \in Callers |-> "idle"]
    /\ branch \in [Callers -> Branches]

Goto(c, label) == pc' = [pc EXCEPT ![c] = label]
-----------------------------------------------------------------------------
(***************************************************************************)
(* Acquire.  Operators named Mutant* are faulty variants of the definition *)
(* below them; they show that a property can fail and are used nowhere.    *)
(***************************************************************************)

\* Off by one: heartbeat_at <= now - ttl.
MutantClaimableEarly == row = NoRow \/ row.age >= TTL

\* WHERE leases.heartbeat_at < now - ttl
Claimable == row = NoRow \/ row.age > TTL

\* The upsert wins the row, free or stale.  A refused caller (ErrLeased)
\* changes nothing.
Claim(c) ==
    /\ pc[c] = "idle" /\ Claimable
    /\ row' = Row(c, 0)
    /\ branch' \in {[branch EXCEPT ![c] = b] : b \in Branches}
    /\ Goto(c, "stat")
    /\ UNCHANGED dir

\* os.Stat decides between a fresh worktree and the reattach path; an error
\* other than "not exist" rolls back.
Stat(c) ==
    /\ pc[c] = "stat"
    /\ \/ Goto(c, IF dir = NoDir THEN "add" ELSE "check")
       \/ Goto(c, "rollback")
    /\ UNCHANGED <<row, dir, branch>>

\* git worktree add: it fails on an existing directory, and when it fails or
\* is killed with the caller's context it may leave a part of one.
Add(c) ==
    /\ pc[c] = "add"
    /\ \/ dir = NoDir /\ dir' = branch[c] /\ Goto(c, "held")
       \/ dir' \in {dir} \cup (IF dir = NoDir THEN {Broken} ELSE {})
          /\ Goto(c, "rollback")
    /\ UNCHANGED <<row, branch>>

\* Reattaching checks the requested branch out (workspace.go:169).
MutantCheckSwitches(c) ==
    /\ pc[c] = "check"
    /\ \/ dir # NoDir /\ dir' = branch[c] /\ Goto(c, "held")
       \/ Goto(c, "rollback") /\ UNCHANGED dir
    /\ UNCHANGED <<row, branch>>

\* The reattach path: only the requested branch will do.
Check(c) ==
    /\ pc[c] = "check"
    /\ \/ dir = branch[c] /\ Goto(c, "held")
       \/ Goto(c, "rollback")
    /\ UNCHANGED <<row, dir, branch>>

\* DELETE FROM leases WHERE path = ?, whoever holds the row by now.
Rollback(c) ==
    /\ pc[c] = "rollback"
    /\ row' = NoRow
    /\ Goto(c, "idle")
    /\ UNCHANGED <<dir, branch>>

-----------------------------------------------------------------------------
(***************************************************************************)
(* The lease.                                                              *)
(***************************************************************************)

\* Attributed to the agent's name, which every holder of the path shares
\* (the defect described at workspace.go:27).
MutantMineByName(c) == row # NoRow

\* WHERE path = ? AND agent = ? AND holder = ?
Mine(c) == row.holder = c

\* Renewing with a time in seconds where the row holds milliseconds.
MutantHeartbeatSeconds(c) ==
    /\ pc[c] = "held"
    /\ IF Mine(c)
       THEN row' = Row(row.holder, TTL + 1000) /\ UNCHANGED pc
       ELSE Goto(c, "lost") /\ UNCHANGED row
    /\ UNCHANGED <<dir, branch>>

\* Heartbeat renews the row, or learns that the lease is lost.
Heartbeat(c) ==
    /\ pc[c] = "held"
    /\ IF Mine(c)
       THEN row' = Row(row.holder, 0) /\ UNCHANGED pc
       ELSE Goto(c, "lost") /\ UNCHANGED row
    /\ UNCHANGED <<dir, branch>>

\* Release first deletes the row; a holder that was fenced out stops there.
Release(c) ==
    /\ pc[c] \in {"held", "lost"}
    /\ IF Mine(c)
       THEN row' = NoRow /\ Goto(c, "remove")
       ELSE Goto(c, "idle") /\ UNCHANGED row
    /\ UNCHANGED <<dir, branch>>

\* git worktree remove --force: done, failed, or killed half way.
Remove(c) ==
    /\ pc[c] = "remove"
    /\ dir' \in {NoDir, dir} \cup (IF dir = NoDir THEN {} ELSE {Broken})
    /\ Goto(c, "idle")
    /\ UNCHANGED <<row, branch>>

-----------------------------------------------------------------------------
(***************************************************************************)
(* What happens to the callers.                                            *)
(***************************************************************************)

\* The caller's process dies; a git command it was running may still have
\* its effect, in whole or in part.
Crash(c) ==
    /\ pc[c] # "idle"
    /\ dir' \in {dir}
          \cup (IF pc[c] = "add" /\ dir = NoDir THEN {branch[c], Broken} ELSE {})
          \cup (IF pc[c] = "remove" /\ dir # NoDir THEN {NoDir, Broken} ELSE {})
    /\ Goto(c, "idle")
    /\ UNCHANGED <<row, branch>>

Tick ==
    /\ row # NoRow /\ row.age <= TTL
    /\ row' = Row(row.holder, row.age + 1)
    /\ UNCHANGED <<dir, pc, branch>>

Step(c) ==
    \/ Claim(c) \/ Stat(c) \/ Add(c) \/ Check(c) \/ Rollback(c)
    \/ Heartbeat(c) \/ Release(c) \/ Remove(c)

Next == Tick \/ \E c \in Callers : Step(c) \/ Crash(c)

Spec == Init /\ [][Next]_vars

\* Time passes; nobody is obliged to live, to renew or to release.
FairSpec == Spec /\ WF_vars(Tick)
-----------------------------------------------------------------------------
(***************************************************************************)
(* Properties.                                                             *)
(***************************************************************************)

Labels == {"idle", "stat", "add", "check", "rollback", "held", "lost", "remove"}

\* The type of every variable of the lease row, the path and its callers: a
\* row's age never passes one tick beyond the TTL (workspace.go:128).
TypeOK ==
    /\ row \in Rows \cup {NoRow}
    /\ dir \in Branches \cup {NoDir, Broken}
    /\ pc \in [Callers -> Labels]
    /\ branch \in [Callers -> Branches]

FencedOut(c) == pc[c] \in {"held", "lost"} /\ row.holder # c

\* A holder whose lease was reclaimed changes nothing any more, neither the
\* row nor the worktree, whether it renews, releases or dies, and it never
\* gets its lease back by renewing (workspace.go:21).
FencedOutTouchesNothing ==
    [][\A c \in Callers : FencedOut(c) =>
           /\ pc'[c] # pc[c] => UNCHANGED <<row, dir>> /\ pc'[c] \in {"idle", "lost"}
           /\ pc'[c] = pc[c] => FencedOut(c)']_vars

\* Work on disk survives everybody but a holder that deleted its own row to
\* release it: no acquisition, reattachment, rollback or crash of anybody
\* else overwrites or deletes a checked-out branch (workspace.go:166).
WorkSurvives ==
    [][dir' # dir /\ dir \in Branches =>
           /\ dir' \in {NoDir, Broken}
           /\ \E c \in Callers : pc[c] = "remove" /\ pc'[c] = "idle"]_vars

\* A lease is lost only by going stale (workspace.go:22), with one exception:
\* the rollback of a failed acquisition deletes the row whoever holds it by
\* then (workspace.go:158), so an acquisition that outlived its own lease
\* takes a renewed one away.
LiveLeaseIsKept ==
    [][\A c \in Callers :
           pc[c] = "held" /\ row.holder = c /\ row.age <= TTL =>
               \/ row'.holder = c
               \/ pc'[c] # "held"
               \/ \E d \in Callers : pc[d] = "rollback" /\ row' = NoRow]_vars

\* A lease nobody renews lapses: when its holder is gone the path becomes
\* claimable again (workspace.go:200), or its holder comes back.
AbandonedLeaseLapses ==
    \A c \in Callers :
        row.holder = c /\ pc[c] = "idle" ~> Claimable \/ pc[c] # "idle"

\* "deleting [the row] IS the ownership check [...] what stops a stale holder
\* from force-removing a directory the new holder is working in"
\* (workspace.go:225): nobody removes the worktree of a lease that is
\* somebody else's.
NobodyRemovesAHeldWorktree ==
    [][\A c \in Callers :
           pc[c] = "held" /\ row.holder = c /\ dir = branch[c] =>
               dir' = dir]_vars

\* That is so if nobody acquires the path while a release has yet to remove
\* the worktree (workspace.go:242).
Orderly ==
    (\E d \in Callers : pc[d] = "remove") => \A c \in Callers : ~Claim(c)

OrderlySpec == Init /\ [][Next /\ Orderly]_vars

\* What makes it inductive: until then nobody holds the path.
RemovalInv == \A d \in Callers : pc[d] = "remove" => row = NoRow

\* What AbandonedLeaseLapses comes to, with time passing: a lease whose holder
\* is gone only ages, whoever else tries for it, until it can be claimed or a
\* failed acquisition's rollback deletes it (workspace.go:128).
AbandonedLeaseOnlyAges ==
    [][\A c \in Callers :
           row.holder = c /\ pc[c] = "idle" /\ ~Claimable =>
               /\ row' \in {row, Row(c, row.age + 1), NoRow}
               /\ row' = NoRow => \E d \in Callers : pc[d] = "rollback"
               /\ pc'[c] = "idle"]_vars
=============================================================================
