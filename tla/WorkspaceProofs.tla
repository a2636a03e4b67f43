-------------------------- MODULE WorkspaceProofs --------------------------
(***************************************************************************)
(* What the lease row guarantees for any number of competing acquisitions, *)
(* any branches and any TTL.                                               *)
(***************************************************************************)
EXTENDS Workspace, TLAPS

\* Rows are records of a holder and an age; NoRow is held by nobody.
LEMMA RowFacts ==
    /\ NoRow.holder = "nobody" /\ NoRow.age = 0
    /\ \A c, a : Row(c, a).holder = c /\ Row(c, a).age = a
    /\ \A c \in Callers, a \in 0 .. TTL + 1 : Row(c, a) \in Rows
    /\ \A r \in Rows : r.holder \in Callers /\ r.age \in 0 .. TTL + 1
BY TTLAssumption DEF NoRow, Row, Rows

\* The initial state has its types.
LEMMA TypeInit == Init => TypeOK
BY DEF Init, TypeOK, Labels

\* A caller's step keeps the types.
LEMMA TypeStep ==
    ASSUME TypeOK, NEW c \in Callers, Step(c) \/ Crash(c)
    PROVE  TypeOK'
<1>0. Row(c, 0) \in Rows
  BY RowFacts, TTLAssumption
<1>1. row' \in Rows \cup {NoRow}
  <2>1. CASE Claim(c)
    BY <1>0, <2>1 DEF Claim
  <2>2. CASE Heartbeat(c)
    BY <1>0, <2>2 DEF Heartbeat, Mine, TypeOK
  <2>3. CASE ~Claim(c) /\ ~Heartbeat(c)
    BY <2>3 DEF Step, Crash, Stat, Add, Check, Rollback, Release, Remove, TypeOK
  <2> QED BY <2>1, <2>2, <2>3
<1>2. dir' \in Branches \cup {NoDir, Broken}
  BY DEF Step, Crash, Claim, Stat, Add, Check, Rollback, Heartbeat, Release,
     Remove, TypeOK
<1>3. pc' \in [Callers -> Labels]
  BY DEF Step, Crash, Claim, Stat, Add, Check, Rollback, Heartbeat, Release,
     Remove, TypeOK, Goto, Labels
<1>4. branch' \in [Callers -> Branches]
  BY DEF Step, Crash, Claim, Stat, Add, Check, Rollback, Heartbeat, Release,
     Remove, TypeOK
<1> QED BY <1>1, <1>2, <1>3, <1>4 DEF TypeOK

\* So does the clock.
LEMMA TypeTick == TypeOK /\ Tick => TypeOK'
<1> SUFFICES ASSUME TypeOK, Tick PROVE TypeOK'
  OBVIOUS
<1>1. row \in Rows /\ row.age + 1 \in 0 .. TTL + 1
  BY RowFacts, TTLAssumption DEF Tick, TypeOK
<1>2. row' \in Rows
  BY <1>1, RowFacts DEF Tick
<1> QED BY <1>2 DEF Tick, TypeOK

\* The row names its holder and a bounded age, the path holds a branch,
\* nothing or the remains of a git command, in every reachable state.
THEOREM TypeCorrect == Spec => []TypeOK
<1>1. TypeOK /\ [Next]_vars => TypeOK'
  <2> SUFFICES ASSUME TypeOK, [Next]_vars PROVE TypeOK'
    OBVIOUS
  <2>1. CASE UNCHANGED vars
    BY <2>1 DEF vars, TypeOK
  <2> QED BY <2>1, TypeStep, TypeTick DEF Next
<1> QED BY TypeInit, <1>1, PTL DEF Spec

\* A caller whose lease another one holds, or nobody, can only notice or
\* leave; the others' steps do not give the lease back.
LEMMA FencedStep ==
    ASSUME TypeOK, Next, NEW c \in Callers, FencedOut(c)
    PROVE  /\ pc'[c] # pc[c] => UNCHANGED <<row, dir>> /\ pc'[c] \in {"idle", "lost"}
           /\ pc'[c] = pc[c] => FencedOut(c)'
<1>1. CASE Tick
  BY <1>1, RowFacts DEF Tick, FencedOut, TypeOK
<1>2. CASE Step(c) \/ Crash(c)
  BY <1>2 DEF Step, Crash, Claim, Stat, Add, Check, Rollback, Heartbeat,
     Release, Remove, FencedOut, Mine, Goto, TypeOK
<1>3. ASSUME NEW d \in Callers, d # c, Step(d) \/ Crash(d)
      PROVE  pc'[c] = pc[c] /\ row'.holder # c
  <2>1. pc'[c] = pc[c]
    BY <1>3 DEF Step, Crash, Claim, Stat, Add, Check, Rollback, Heartbeat,
       Release, Remove, Goto, TypeOK
  <2>2. row' \in {row, NoRow, Row(d, 0)}
    BY <1>3 DEF Step, Crash, Claim, Stat, Add, Check, Rollback, Heartbeat,
       Release, Remove, Mine
  <2>3. c # "nobody"
    BY DistinctAssumption
  <2> QED BY <1>3, <2>1, <2>2, <2>3, RowFacts DEF FencedOut
<1> QED BY <1>1, <1>2, <1>3 DEF Next, FencedOut

\* A fenced-out holder never touches the row or the worktree again and never
\* gets its lease back by renewing.
THEOREM Fenced == Spec => FencedOutTouchesNothing
<1>1. TypeOK /\ [Next]_vars =>
        [\A c \in Callers : FencedOut(c) =>
           /\ pc'[c] # pc[c] => UNCHANGED <<row, dir>> /\ pc'[c] \in {"idle", "lost"}
           /\ pc'[c] = pc[c] => FencedOut(c)']_vars
  BY FencedStep
<1> QED BY <1>1, TypeCorrect, PTL DEF Spec, FencedOutTouchesNothing

\* Only the release of a lease deletes checked-out work, and nothing ever
\* replaces it by another branch.
THEOREM WorkKept == Spec => WorkSurvives
<1>1. ASSUME TypeOK, Next, dir \in Branches, dir' # dir
      PROVE  /\ dir' \in {NoDir, Broken}
             /\ \E c \in Callers : pc[c] = "remove" /\ pc'[c] = "idle"
  <2>1. PICK c \in Callers : Step(c) \/ Crash(c)
    BY <1>1 DEF Next, Tick
  <2>2. dir # NoDir
    BY <1>1, DistinctAssumption DEF NoDir
  <2>3. Remove(c) \/ (Crash(c) /\ pc[c] = "remove")
    BY <1>1, <2>1, <2>2 DEF Step, Crash, Claim, Stat, Add, Check, Rollback,
       Heartbeat, Release
  <2> QED BY <1>1, <2>2, <2>3 DEF Remove, Crash, Goto, TypeOK
<1>2. TypeOK /\ [Next]_vars =>
        [dir' # dir /\ dir \in Branches =>
           /\ dir' \in {NoDir, Broken}
           /\ \E c \in Callers : pc[c] = "remove" /\ pc'[c] = "idle"]_vars
  BY <1>1
<1> QED BY <1>2, TypeCorrect, PTL DEF Spec, WorkSurvives

\* A lease renewed in time is lost to nobody but a failed acquisition's
\* rollback.
THEOREM LiveLeaseKept == Spec => LiveLeaseIsKept
<1>1. ASSUME TypeOK, Next, NEW c \in Callers,
             pc[c] = "held", row.holder = c, row.age <= TTL
      PROVE  \/ row'.holder = c
             \/ pc'[c] # "held"
             \/ \E d \in Callers : pc[d] = "rollback" /\ row' = NoRow
  <2>0. c # "nobody" /\ row # NoRow /\ row \in Rows /\ row.age \in Nat
    BY <1>1, RowFacts, DistinctAssumption, TTLAssumption DEF TypeOK
  <2>1. CASE Tick
    BY <1>1, <2>1, RowFacts DEF Tick
  <2>2. CASE Step(c) \/ Crash(c)
    BY <1>1, <2>0, <2>2, RowFacts DEF Step, Crash, Claim, Claimable, Stat, Add,
       Check, Rollback, Heartbeat, Release, Remove, Mine, Goto, TypeOK
  <2>3. ASSUME NEW d \in Callers, d # c, Step(d) \/ Crash(d)
        PROVE  row' = row \/ (pc[d] = "rollback" /\ row' = NoRow)
    <3>1. ~Claimable
      BY <1>1, <2>0, TTLAssumption DEF Claimable
    <3>2. ~Mine(d)
      BY <1>1, <2>3 DEF Mine
    <3> QED BY <2>3, <3>1, <3>2 DEF Step, Crash, Claim, Stat, Add, Check,
               Rollback, Heartbeat, Release, Remove
  <2> QED BY <1>1, <2>1, <2>2, <2>3 DEF Next
<1>2. TypeOK /\ [Next]_vars =>
        [\A c \in Callers :
           pc[c] = "held" /\ row.holder = c /\ row.age <= TTL =>
               \/ row'.holder = c
               \/ pc'[c] # "held"
               \/ \E d \in Callers : pc[d] = "rollback" /\ row' = NoRow]_vars
  BY <1>1
<1> QED BY <1>2, TypeCorrect, PTL DEF Spec, LiveLeaseIsKept

-----------------------------------------------------------------------------
(***************************************************************************)
(* Removals that nobody overtakes, and leases that nobody renews.          *)
(***************************************************************************)

\* While a removal is pending and nobody acquires, nobody holds the path.
LEMMA RemovalStep ==
    ASSUME TypeOK, RemovalInv, Next, Orderly
    PROVE  RemovalInv'
<1>1. CASE Tick
  BY <1>1 DEF Tick, RemovalInv
<1>2. ASSUME NEW c \in Callers, Step(c) \/ Crash(c) PROVE RemovalInv'
  <2>1. CASE Claim(c)
    BY <2>1 DEF Claim, Goto, TypeOK, RemovalInv, Orderly
  <2>2. CASE Release(c)
    BY <2>2 DEF Release, Goto, TypeOK, RemovalInv
  <2>3. CASE Heartbeat(c)
    <3>1. pc[c] = "held" /\ \A d \in Callers : pc'[d] = "remove" => pc[d] = "remove"
      BY <2>3 DEF Heartbeat, Goto, TypeOK
    <3>2. row = NoRow => row' = row
      BY <2>3, RowFacts, DistinctAssumption DEF Heartbeat, Mine
    <3> QED BY <3>1, <3>2 DEF RemovalInv
  <2>4. CASE Stat(c) \/ Add(c) \/ Check(c) \/ Rollback(c) \/ Remove(c) \/ Crash(c)
    <3>1. /\ row' = row \/ row' = NoRow
          /\ \A d \in Callers : pc'[d] = "remove" => pc[d] = "remove"
      BY <2>4 DEF Stat, Add, Check, Rollback, Remove, Crash, Goto, TypeOK
    <3> QED BY <3>1 DEF RemovalInv
  <2> QED BY <1>2, <2>1, <2>2, <2>3, <2>4 DEF Step
<1> QED BY <1>1, <1>2 DEF Next

\* A worktree that is held is removed by nobody but one that releases the path
\* and is overtaken by an acquisition before it has removed the worktree: the
\* statement at workspace.go:225 holds of every other order of the steps.
THEOREM OrderlyRemovalsAreSafe == OrderlySpec => NobodyRemovesAHeldWorktree
<1>1. Init => TypeOK /\ RemovalInv
  BY TypeInit DEF Init, RemovalInv
<1>2. TypeOK /\ RemovalInv /\ [Next /\ Orderly]_vars => TypeOK' /\ RemovalInv'
  <2>1. TypeOK /\ UNCHANGED vars => TypeOK'
    BY DEF vars, TypeOK
  <2>2. RemovalInv /\ UNCHANGED vars => RemovalInv'
    BY DEF vars, RemovalInv
  <2> QED BY <2>1, <2>2, RemovalStep, TypeStep, TypeTick DEF Next
<1>3. ASSUME TypeOK, RemovalInv, Next, NEW c \in Callers,
             pc[c] = "held", row.holder = c, dir = branch[c]
      PROVE  dir' = dir
  <2>1. row # NoRow
    BY <1>3, RowFacts, DistinctAssumption
  <2>2. dir # NoDir
    BY <1>3, DistinctAssumption DEF TypeOK, NoDir
  <2>3. \A d \in Callers : pc[d] # "remove"
    BY <1>3, <2>1 DEF RemovalInv
  <2> QED BY <1>3, <2>2, <2>3 DEF Next, Tick, Step, Crash, Claim, Stat, Add, Check,
          Rollback, Heartbeat, Release, Remove
<1>4. TypeOK /\ RemovalInv /\ [Next /\ Orderly]_vars =>
        [\A c \in Callers :
           pc[c] = "held" /\ row.holder = c /\ dir = branch[c] => dir' = dir]_vars
  BY <1>3
<1> QED BY <1>1, <1>2, <1>4, PTL DEF OrderlySpec, NobodyRemovesAHeldWorktree

\* Nobody renews or takes a lease whose holder is gone before it has lapsed,
\* so that TTL + 1 ticks make it claimable (workspace.go:128).
THEOREM AbandonedLeaseAges == Spec => AbandonedLeaseOnlyAges
<1>1. ASSUME TypeOK, Next, NEW c \in Callers,
             row.holder = c, pc[c] = "idle", ~Claimable
      PROVE  /\ row' \in {row, Row(c, row.age + 1), NoRow}
             /\ row' = NoRow => \E d \in Callers : pc[d] = "rollback"
             /\ pc'[c] = "idle"
  <2>1. row # NoRow
    BY <1>1 DEF Claimable
  <2>2. CASE Tick
    <3>1. row' = Row(c, row.age + 1) /\ pc' = pc
      BY <1>1, <2>2 DEF Tick
    <3>2. row' # NoRow
      BY <1>1, <3>1, RowFacts, DistinctAssumption
    <3> QED BY <1>1, <3>1, <3>2
  <2>3. ASSUME NEW d \in Callers, Step(d) \/ Crash(d)
        PROVE  /\ row' = row \/ (pc[d] = "rollback" /\ row' = NoRow)
               /\ pc'[c] = "idle"
    <3>1. pc[d] # "idle" => d # c
      BY <1>1
    <3>2. pc[d] # "idle"
      BY <1>1, <2>3 DEF Step, Crash, Claim, Stat, Add, Check, Rollback, Heartbeat,
         Release, Remove
    <3>3. ~Mine(d)
      BY <1>1, <3>1, <3>2 DEF Mine
    <3>4. pc'[c] = "idle"
      BY <1>1, <2>3, <3>1, <3>2 DEF Step, Crash, Claim, Stat, Add, Check, Rollback,
         Heartbeat, Release, Remove, Goto, TypeOK
    <3>5. row' = row \/ (pc[d] = "rollback" /\ row' = NoRow)
      BY <1>1, <2>3, <3>3 DEF Step, Crash, Claim, Stat, Add, Check, Rollback,
         Heartbeat, Release, Remove
    <3> QED BY <3>4, <3>5
  <2> QED BY <1>1, <2>1, <2>2, <2>3 DEF Next
<1>2. TypeOK /\ [Next]_vars =>
        [\A c \in Callers :
           row.holder = c /\ pc[c] = "idle" /\ ~Claimable =>
               /\ row' \in {row, Row(c, row.age + 1), NoRow}
               /\ row' = NoRow => \E d \in Callers : pc[d] = "rollback"
               /\ pc'[c] = "idle"]_vars
  BY <1>1
<1> QED BY <1>2, TypeCorrect, PTL DEF Spec, AbandonedLeaseOnlyAges
=============================================================================
