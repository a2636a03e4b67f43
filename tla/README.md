# TLA+ models of Parallel Consciousness

A verification project for the program in `src/`: several coding agents change
several services at once, and a *gate*, a test that spans the services, decides
when they are done. The models cover the protocol by which agents, gate and
runner agree, and the parts it stands on: the durable and the in-memory bus,
the worktree leases, the process that waits for a verdict, the process that
runs a scenario, the runner that merges and tests, and the courier that relays
messages to an agent's session.

Every module header names the files it models. `PROJECT.json` maps every
definition to its source lines, lists the hazards at the lines where they bite,
and says for each run what it shows.

## 1. The system

### How the parts interact

```
 agent session --exec--> pc submit --Ready--> bus --> coordinator --Request--> runner
      ^                     ^                  |           |                     |
      |                     +--- Ack/Nack -----+-----------+                     |
   courier <---- Block -----+--- Inform -------+-----------+<--- Done/Disagree --+
      ^                                                    |
      |                                               OnVerdict hook
   pc run (leases, heartbeats, sessions, caps) <-----------+
```

An agent commits in its worktree and calls `pc submit`, which publishes a Ready
for its gate and waits. The coordinator records the Ready, acknowledges it, and
opens a round when every required participant stands ready; the runner merges
the branches, runs the test and replies; the coordinator broadcasts the verdict,
blocks the owners if it is a failure, and calls a hook. `pc run` starts all of
this and ends the scenario on a pass, on too many failures, on a dead session,
on a lost lease or when its budget is spent. Processes share one SQLite
file, which holds the message log, a cursor per agent name, and the leases.

### Components

| Component (source) | State | Operations | What is hard about it | What makes it correct |
|---|---|---|---|---|
| gate coordinator, runner protocol (`pkg/gate`) | per gate: standing claims, in-flight flag, generation, remembered verdict; one timer per round | onReady (replay / record / refuse), open, onVerdictMsg, timer, resolve | the dispatch loop and any number of timers resolve concurrently; lock released between check and act; lost requests, late replies; one answer for several questions | the quorum is never lost, the remembered verdict is that of the standing claims, every verdict names everybody, every round ends |
| SQLite bus (`pkg/bus/sqlite`) | log, cursors table, per subscription a cursor, a result set and a channel | Publish, Prune, Subscribe, poll, deliverBatch, saveCursor, Close | restart between delivery and save; two subscriptions of one name; failing reads in a batch; undecodable rows; pruning | ordered delivery, nothing skipped, positions never rewound, everything arrives |
| pc submit (`internal/pcops/submit*.go`) | round boundary, `recorded`, five one-slot channels | declareReady, three handlers, three waits, retry after a Nack | two goroutines; messages left behind by an earlier process; answers that overtake each other; dropped signals | a pass is for this very version, no attempt waits for an answer that has gone by |
| pc run (`internal/pcops/run.go`) | held leases, sessions, heartbeats, three channels, fix cycle, round count | start, wait, unwind, drain events, heartbeat, count rounds | four event sources in one select; bounded channels that drop; adversarial resubmission patterns | ends on every failure, gives up in time, blames the right one, releases in order |
| workspace leases (`pkg/workspace`) | lease row (holder token, heartbeat), directory | Acquire (claim, reattach, add, rollback), Heartbeat, Release | SQL and git are not one transaction; expiry; stale holders; kills | fenced holders touch nothing, work on disk survives, live leases are kept, dead ones lapse |
| gate runner (`internal/pcops/rungate.go`) | worktree of the runner | reset, resolve and merge each branch, run the command | branches move while they are merged; commands hang and leave processes behind; restarts in a used worktree | the verdict names what was tested, nothing older than declared is tested, a run finds no more of earlier ones than git clean keeps, every request is answered |
| in-memory bus (`pkg/bus/bus.go`) | inbox per agent, topics | Subscribe, Publish, teardown | full inboxes drop; a second subscription under one name | order per recipient |
| agent dispatch loop (`pkg/agent`) | handlers, urgent channel | dispatch, auto-ack, Interrupted | a handler may block the loop; replies are sent after the handler | serial handling, no request unanswered |
| courier, send, watch (`internal/pcops`) | none of their own | forward blocks and messages to a session; print the log | the handler waits for a session that may end or hang | messages keep their order, an answer comes last, nobody is left waiting |
| agent runtime contract, fake (`pkg/runtime`) | session queue, pending counts, event stream | Start, Steer, Follow, Interrupt, Close | two bounded channels between the callers, the loop and the reader; acceptance races the end of the session | one turn at a time, in order; counts settle; the end is announced; an ending session stops |
| scenario configuration (`config.go`) | none | validate | which names and branches may coincide | what the other parts assume of a scenario |
| message envelope (`pkg/protocol`), coordinator host (`up.go`), command line and demos (`cmd/`), fixtures, architecture test | none | pure functions, wiring | | |

### Not modelled

- Envelope, host, command line, demos, fixtures and the conformance suite
  `runtimetest`: they keep no state that changes while the system runs. Of the
  configuration, `validate` is modelled, as the assumption `Runner` makes on
  its scenario; parsing, defaults and paths are not.
- `pcops.Send` and `Watch`: one publication, and a printed log.
- In the bus packages: `OpenDB` with its retries, `History`, `Tail`,
  `WithReplayFromZero`; a second `Subscribe` under one name on the in-memory
  bus. In `pkg/agent`: `Interrupted`, which no code calls.
- What a session writes and says: transcripts, file contents, texts of events.
- Commits taken back: branches only grow in the models. An amend, a rebase, or
  the branch reset of `git worktree add -B` (workspace.go:161) is a branch that
  goes back, of which `NothingOlderThanDeclared` and `AnswersComeInTurn` say
  nothing.

The rest of what is left is in section 7.

## 2. The modules

| Module | Models | Extends / instantiates | Theorems in |
|---|---|---|---|
| `GateCoordinator` | `pkg/gate/gate.go` and the reply of `pkg/agent` | | `GateCoordinatorProofs` |
| `Submit` | `internal/pcops/submit.go`, `submitwaiter.go` | | |
| `GateSystem` | one agent's `pc submit`, the coordinator, the runner, a peer, the bus between them | extends `Submit`, instantiates `GateCoordinator` | `GateSystemProofs` |
| `SqliteBus` | `pkg/bus/sqlite/sqlite.go` | instantiates `Inbox` as its contract | `SqliteBusProofs` |
| `Inbox` | abstract: what a subscription is promised | | |
| `Workspace` | `pkg/workspace` | | `WorkspaceProofs` |
| `RunLoop` | `internal/pcops/run.go` | | `RunLoopProofs` |
| `Runner` | `internal/pcops/rungate.go`, `validate` of `config.go`, `ServeRunner` | | `RunnerProofs` |
| `Session` | `pkg/runtime/fake` | instantiates `Turns` as its contract | `SessionProofs` |
| `Turns` | abstract: what a session promises (`pkg/runtime/runtime.go`) | | |
| `Courier` | `internal/pcops/courier.go`, `pkg/agent`, `pkg/bus` | extends `Session` | `CourierProofs` |
| `MC*` | values of the constants for TLC | the module of the same name | |

Operators called `Mutant*` are faulty variants of the definition they stand
above. Nothing uses them: putting one in the place of its definition must break
a property, which shows that the property says something about the code.

### GateCoordinator

State: `ready`, `inflight`, `gen`, `last` are the fields of `gateState`. `pc`
and `verdict` hold, for the dispatch loop (goroutine 0) and each round's timer,
where it stands and the verdict it resolves with. `reply` is what onReady
returned and `dispatch` has yet to send. `requests` and `replies` are the two
directions of the runner's traffic; each reply carries what it answers although
the code does not look at it. `out` is what the last step published.

| Action | Code |
|---|---|
| `ReplayVerdict`, `RecordReady`, `RefuseReady`, `IgnoreReady` | the branches of `onReady`, one critical section each |
| `Open` | `open`: flag, request, timer |
| `SendReply` | `dispatch` sends what `onReady` returned, after `open` |
| `OnVerdictMsg` | a reply is taken for the round in flight |
| `TimerFires(t)` | the timer's check of `gen` and `inflight`, its own critical section |
| `Settle(g)`, `Inform(g)`, `Block(g)`, `Hook(g)` | `resolve`: the critical section, then the publications outside the lock |
| `RunnerReplies`, `RunnerLoses` | `ServeRunner`, or a lost request |

A round replayed from the remembered verdict is a round like any other: it takes
the flag, bumps the generation and calls the hook, as in the code.

### Submit and GateSystem

`Submit` has the attempt loop (`at`) and the dispatch loop (`handling`, `offer`):
a handler is `Receive` (with `fresh`), then `OnInform` or `OnReply`, then
`Offer`, so that stamp, reset and drain of a new attempt can come between any two
of them. Time is reduced to what `fresh` asks: `Stamp` marks everything
published so far as `old`. The initial state may hold one Ready of an earlier
process that the coordinator has not taken yet; `Start` is handed any suffix of what the bus
holds for the name, since the stored position lags. `GiveUp` is both timeouts, a
failed publication and a kill. The five drains are one step: a signal offered
between two of them is either drained, as if offered before the first, or kept,
as if offered after the last, and the model has both.

`GateSystem` turns what `GateCoordinator` publishes into the process's mail
(`ToMe`, `Carried`) and the process's Readies into the coordinator's actions
(`MyReady`). Delivery is complete and in order, which is what `SqliteBus` shows
of a live subscription. Other participants declare readiness at any time
(`PeerReady`). The runner merges what it was asked for or reports nothing after
a failed merge; with `BranchMoves` it may name other commits.

### SqliteBus and Inbox

A subscription is off, between the two queries of `initCursor` (`head`), about
to query, delivering, or saving. `rows` is the snapshot of the query in
progress, `last` and `cursor` are the locals of `deliverBatch` and `poll_`.
`Stop` stands for a cancelled context, a closed bus and a dead process: in all
of them the position is not saved. `Prune` keeps to the obligation its comment
puts on callers. `Inbox` is the contract: `pos` moves over nothing that is
still to be handed over, in order, and may fall back; the refinement mapping is
`pos <- last`, `got <- handed`.

### Workspace

One path, its row and its directory. Each SQL statement, each `stat` and each
git command is a step; anybody may act in between or die; a git command that
is killed may leave nothing, all or a broken part of its effect. The age of the row
replaces clock readings, and a caller's identity its token.

### RunLoop

`held` is the stack of deferred releases, `session` and `beat` the drainers and
heartbeats, `verdicts`, `failures`, `lost` the three channels with their
capacities and non-blocking sends. `TakePass`, `TakeFailure`, `TakeDeath`,
`TakeLoss`, `BudgetExhausted` are the arms of the select; `started`, `base`,
`moved`, `rounds` are the fix cycle. `told` records that a pass was broadcast
before the hook, so that sessions can finish because of it. Once Run returns,
its channels and locals are cleared: nobody reads them.

### Runner

A branch is the number of its last commit (`tip`); `tree` is the commit of each
branch the runner's worktree has on top of main. `litter` is what else lies
there, by what removes it: changes of tracked files (`git reset --hard`),
untracked files (`git clean -qfd`), and ignored files and nested repositories,
which neither removes; `unmerged` is the state of the index. `log` is what the
coordinator asked, as the bus keeps it, `inbox` what was handed over of it. `at`
walks through the handler:

| Action | Code |
|---|---|
| `TakeRequest`, `Reply`, `ReplyIsLost` | the loop of `ServeRunner`; `dispatch` drops the error of a reply it cannot publish |
| `Reset`, `Clean`, `Resolve`, `Merge`, `SetupFails` | `mergeAll`, one git invocation each |
| `MergeFails`, `Classify` | a failed merge: conflict or not, then `merge --abort`, whose error is ignored |
| `RunShell`, `CommandEnds`, `Timeout`, `SurvivorsEnd` | `runShell`: the deadline kills the shell alone, and the call returns when nothing holds its output any more |
| `Commit`, `Ask`, `StrayWrites` | the agents, the coordinator, what a command left running |
| `Redeliver` | a batch of the SQLite bus fails halfway and is sent again, answered requests too |
| `Shutdown`, `StartRunner` | the runner's context ends at any step; a runner starts in the same worktree, and the bus goes on behind any request, since the position it stored may lag behind what was served or be ahead of it |

`struck`, `fouled`, `ran` and `lost` are history: how a merge really failed,
whether something left behind wrote since the last reset, what the command ran
on and found there, and which reply was not published.

### Session, Turns and Courier

`Session` is the fake's loop goroutine (`at`, `turn`, `todo`), its callers
(`calling`, `offer`), its two bounded channels (`work`, `events`) and the three
signals of its end (`cancelled` for the context of the work, `done`,
`stopped`). A call is three steps, as in the code: counted and reported
(`Call`, `Receipt`), then handed over or refused (`Accepted`, `Refused`). A
wait in a select is an action with a disjunct per arm. `Interrupt`,
`CloseDone` and `RunExit` end a session; `SeeDone`, `Farewell`, `CloseEvents`
and `Stop` are the loop's way out. A command is left by itself (`ExecEnds`) or
because the context of the work is cancelled (`Kill`); then it is `held` until
nothing has its output any more (`OutputReleased`), because only the process
that was started is killed and `CombinedOutput` waits for what that one started.
A turn's actions are any of a set of scripts for each verb, which is what the
hooks OnSteer and OnFollow may return.

`Turns` is the contract: accepted messages are acted on one by one in order, no
message cuts a turn short, no action starts once the session is ending. The
refinement mapping is `queued <- work`, `left <- todo`,
`busy <- at \in {"run", "held"}`, and a life that is ending from `cancelled` and
over from `stopped`. An action starts where the loop checks that the session
goes on; what it does may come after an Interrupt that was called right after
that check has returned.

`Courier` puts the in-memory bus (`Publish`, `Delivered`, `Teardown`), the
dispatch loop of the courier's agent (`Dispatch`, `HandlerReturns`, `Answer`,
`RunReturns`) and its peers (`PeerDispatch`) around one session. Its handler
runs in the dispatch loop's own goroutine, which is the session's only caller,
so a session that does not take a message holds up the agent's inbox.

## 3. The runs

States are distinct states. All runs end with the whole graph explored, except
the "violation" ones, which stop at the counterexample.

| Run | Instance | States | What it shows |
|---|---|---|---|
| `gate` | 2 required + 1 foreign agent, 2 versions, 2 resolutions | 72 k | the coordinator's invariants, in every interleaving of loop and timers; a quorum is answered, with a dead runner too |
| `gate_system` | submit, one earlier Ready, a peer with one Ready, 2 versions, 2 resolutions | 1.5 M (versions symmetric) | a reported pass is earned; nobody waits for what has come and gone |
| `sqlite_bus` | 1 name, 2 subscriptions, 4 kinds of message, log of 2, batch of 2, 1 failing query | 317 k | safety, refinement of `Inbox`, arrival |
| `workspace` | 3 acquisitions, 2 branches, TTL of 2 | 122 k | fencing, survival of work, leases kept and lapsing |
| `run_loop` | 2 agents + runner, 2 versions, cap of 2, verdict channel of 1 | 348 k | bounded failures, visible deaths and losses, blame, order of unwinding, termination |
| `runner` | 2 branches of 2 commits, 2 requests, 1 restart or redelivery | 948 k | verdicts name what ran, nothing older than declared is tested, clean starts, causes, answers |
| `courier` | courier, session and one peer, 3 messages, inbox and queue of two, 1 slot for events | 889 k | order, receipts, announced end, refinement of `Turns`, nobody left waiting |
| `gate_stale_timer`, `gate_late_reply`, `workspace_release`, `run_loop_finish`, `submit_mismatch` | as above | | section 6 |

### The bounds and why they are enough

- `MaxGen` (resolutions of a gate): a stale timer needs one round to be armed
  in and another to strike in; a late reply likewise; the remembered verdict
  needs a round to make it and one to replay or replace it: two. The invariants
  are proved for any number.
- `MaxQueue` (requests at the runner): one is enough for a lost request; the
  late reply needs two (`gate_late_reply`). `MaxGen` and `MaxQueue` are guards of `OnReady` and
  `Open`.
- `MaxPeers` = 1 in `gate_system`: one peer's Ready completes the quorum and
  may come at any time, before, between and after the agent's own. Two
  resolutions let a round displace the agent and another one include it. With
  `BranchMoves` the same properties hold over 5.1 M states.
- `MaxLog` = 2, `Batch` = 2: two messages make a gap and an order, and fill
  the channel. The batch is as large as the log here, so that a query can fail
  between two rows of it; that there may be more rows than a batch takes is left
  to the theorems, which hold for any batch and log, and was looked at with a
  log of three (8.0 M states, safety only, not among the runs). One failing
  query per behaviour can come at every place, with any number of restarts.
- Three callers in `workspace`: a stale holder, its successor, and one that
  races both. The TTL of two ticks has a live, an expiring and an expired row.
- `run_loop`: a cap of two and one slot for verdicts make both the cap and
  the drop happen; the bound on failing verdicts is proved for any cap.
- `runner`: two branches have a first merge, a last one and a commit to either
  in between; two requests have a worktree that an earlier run used, and two
  commits a branch that moved between them. The initial worktree is any, and a
  restart or a redelivery (`MaxAgain`) may come at any step. The four invariants
  are proved for any scenario and any number of commits, requests, restarts and
  redeliveries.
- `courier`: an inbox and a queue of two have an order among what they hold, and
  three messages fill either, so that a send can meet a full channel while a
  turn is in progress. A block makes the session wait in a command and then
  exit, a follow makes it report and stay. There is one caller, as in the code,
  where the dispatch loop is the only one; the theorems are for any number. The
  bus is the in-memory one: the bus over SQLite may hand a message over again
  (sqlite.go:312, 443), and then a session sees it twice.

Deadlock is checked in `workspace` and `sqlite_bus`. The other systems stop on
purpose: a finished scenario, a process that returned, a gate whose resolutions
are used up.

### Fairness

- `GateCoordinator`: the dispatch loop when it has a step of its own and each
  timer that is armed. Nothing is assumed of participants, runner or bus: this is
  what `time.AfterFunc` is there for.
- `SqliteBus`: each live poller and the reader of its channel. A process may
  still stop at any time, and queries may fail (a bounded number of times).
- `RunLoop`: Run's own goroutine. No session, gate, heartbeat or budget is
  obliged to act, which is why a dead session has to be found by its event.
- `Workspace`: time passes. No holder is obliged to renew or to release.
- `Runner`: its goroutine runs and the shell's deadline comes (`Loop`). A
  command need not end. `EveryRequestIsAnswered` has two hypotheses, which the
  code does not give: git commands end (`GitEnds`; git waits for a lock that
  nobody holds any more, rungate.go:196), and so does what holds a killed shell's
  output (`OutputIsReleased`).
- `Session`: its loop, the second half of Close, and each caller's call.
  `EndingStops` needs nobody to read the events and no command to end by itself,
  but has the hypothesis that what holds the output of a killed one ends
  (`OutputIsReleased`). `NobodyIsLeftWaiting` has as hypotheses that events are
  read (`EventsAreRead`: a session whose reader is gone holds up its callers)
  and that commands end (`CommandsEnd`).
- `Courier`: its dispatch loop. Its peers may stop at any time.

Go gives no fairness among the ready arms of a select; where an order matters
the models leave it open.

## 4. What is checked

Beyond one type invariant per module (those of `Runner` and `Courier` are
proved rather than checked by a run):

- **Gate.** `QuorumIsNeverLost`, `RememberedRoundIsCurrent`,
  `DiscardIsNeverRead`, `VerdictNamesEveryone`, `NobodyWaitsForAPeer`,
  `DiscardMeansANewCombination`; `QuorumIsAnswered` under fairness.
- **Submit with the gate.** `PassIsEarned` relates what the process is about to
  report to what the runner has done. `NobodyIsDeaf` says of every quiet state
  (nothing in flight, nothing going on) that a waiting process has something to
  take or stands ready for a round that lacks a peer; it is the safety form of
  "no lost wake-up". The arms that submit.go:262 and submitwaiter.go:323 ask to
  keep, for the sake of a second coordinator, are needed with a single one: an
  earlier process's Ready can be acknowledged after the new attempt's stamp.
- **Bus.** `NothingIsSkipped`, `CursorsNeverRewind`, `ImplementsInbox`;
  `MessagesArrive` under fairness.
- **Leases.** `FencedOutTouchesNothing`, `WorkSurvives`, `LiveLeaseIsKept` (with
  the one exception the code has: an unfenced rollback), `AbandonedLeaseLapses`
  under fairness.
- **Run.** `GivesUpInTime` (at most 1 + (cap - 1)(quorum + 1) failing verdicts,
  whatever is resubmitted), `DeathIsVisible`, `LossIsKept`, `BlameIsDeserved`,
  `GivenUpLast`; `TroubleEndsTheRun` under fairness.
- **Runner.** `ReportNamesWhatRan` and `NothingOlderThanDeclared` hold although
  the branches move between any two git commands, because a branch is resolved
  once per request and the commit is merged, not the name. `RunsStartClean`:
  of what an earlier run left, a command finds no more than what `git clean -qfd`
  keeps, ignored files and nested repositories; what a process that is still
  running there writes after the reset is not of that run's leaving and excepted
  too. `FailureNamesItsCause`. `EveryRequestIsAnswered`, under fairness and its
  two hypotheses: a request that was taken is answered, unless its reply cannot be
  published or the runner stops.
- **Session and courier.** `ImplementsTurns` (no action starts once the session
  is ending, where to start is to pass the check); `ReceiptsSettle`, with the one
  exception of a caller who gave up in a live session; `EndIsAnnounced`, but
  for a full channel; `InPublicationOrder`, on the in-memory bus;
  `AnswerComesLast`, an answer means that the courier is done with the message;
  `EndingStops` and `NobodyIsLeftWaiting` under fairness and their hypotheses.

Hazards the code has and no property covers: a pass dropped at a full verdicts
channel while four failing ones are unread (run.go:226; the model has the drop,
and the sessions' ends or the budget still end the run); a renewal that finishes
after its release (run.go:392; its statement then matches no row); two
subscriptions of one name with different topics, which share a position
(sqlite.go:281), and a new name that ends before its first saved batch
(sqlite.go:289); two coordinators on one database (submitwaiter.go:318); a
`git worktree add` killed halfway, whose directory every later acquisition
refuses (workspace.go:161); a second subscription of one name on the in-memory
bus, which the end of the first removes (bus.go:66).

## 5. What is proved

TLAPS checks these for every value of the constants that satisfies the named
assumptions (finite, non-empty quorum; reports and verdicts of the right type;
positive cap and batch; names that differ from the null values). `GateSystem`
also assumes that a report that passed names the agent's version
(`PassAssumption`) and that reports name participants by versions
(`ReportsAssumption`); `AnswersComplete` of `RunnerProofs` is that theorem for
the runner's answers.

There are three kinds. Most theorems state a property that a run checks. Some
say **what a liveness property comes to**: that what must happen stays possible,
or that the work in its way is bounded, which is what a proof of it would join
with fairness. And four say **when a sentence of section 6 is true**: under a
specification that restricts the steps or the initial states and is otherwise
the module's own (`UnracedSpec`, `PromptSpec`, `OrderlySpec`, `OneVersionSpec`),
the statement that its run refutes holds, for every value of the constants; so
what the restriction rules out is the only way in which it fails.

- **`GateCoordinatorProofs`**: `TypeCorrect`; `InvCorrect` for
  `CoordinatorInv`; from it `QuorumStands`, `CacheIsCurrent`, `DiscardIsUnread`,
  `EverybodyIsNamed`, `ReadinessStands` and the action property
  `NewCombination`. None of the five is inductive alone. That the quorum stands
  needs to know that a round opens only from a full quorum, and that settling
  restates claims of required participants only; that the cache is current needs
  the backfill to name everybody, which needs the quorum, and needs the cache to
  have been discarded when a round opens. `CoordinatorInv` ties them together
  with what holds between a discard and the `Open` it leads to. The exact count
  `len(ready) == len(Required)` enters by `FullMeansEverybody`.
  `RoundsAreTimed` (from `TimedInv`): whatever becomes of the request, a round in
  flight has its own timer running or is being settled; that timer is free
  when the round opens, because timers do not outrun the generations.
  `SettleInTurn`: generations are not reused, and a timer settles its own round
  or a later one. `UnracedTimersAreFenced` (from `FenceInv`): only its own, if
  no round starts between its two critical sections. `PromptRepliesFit` (from
  `PromptInv`): with a runner that is never too late, at most one request or
  reply is under way, it is for the claims that stand, and its round waits for
  it.
- **`RunLoopProofs`**: `TypeCorrect`; `InvCorrect` for `RunInv`; from it
  `GivesUp`, `DeathSeen`, `LossSeen`; with `BlameInv` (only ended sessions and
  fenced leases are queued, and nobody is blamed before Run returns)
  `BlameDeserved`; with `UnwindInv` (what is not held is idle, and a deferred
  call makes the top lease idle before it releases it) `IdleWhenGivenUp`. The bound on failing verdicts follows
  because each counted round pays for a whole cycle in advance (`Paid`), and a
  verdict that does not count adds a participant to `moved`, which is a subset
  of the quorum. That no loss is dropped follows because the queue has exactly
  one entry per fenced lease and room for every lease.
  `RunEnds`: `StepsLeft` counts leases and sessions to start, verdicts before
  Run gives up and deferred calls; it is a natural number, nothing that the
  others do raises it, every step of Run lowers it. A failure or a loss is
  still in its channel when Run next waits.
- **`SqliteBusProofs`**: `TypeCorrect`; `InvCorrect` for `BusInv`; from it
  `NothingSkipped`; `StoredPositionsStand`; and `Refinement`, the poller
  implements `Inbox`. `BusInv` says that the rows of the result still unread are
  the next ones after the last one read, without a gap, although messages are
  published and pruned meanwhile; it is what makes each `Send` a `Hand` and each
  `SkipRow` a `Pass`. A failed read is a `Back`.
  `DueMessagesStay`: a message due to a live subscription is due until it is
  handed over, and a query finds a row when there is one after the cursor (the
  least such row exists because sequence numbers are natural numbers).
- **`WorkspaceProofs`**: `TypeCorrect` and the action properties `Fenced`,
  `WorkKept`, `LiveLeaseKept`. They need no more than the type invariant:
  every SQL statement carries its own fence. `AbandonedLeaseAges`: nothing makes
  an abandoned lease younger. `OrderlyRemovalsAreSafe` (from `RemovalInv`): a
  worktree is removed from under its holder only by a release that somebody
  else's acquisition has overtaken.
- **`RunnerProofs`**: `TypeCorrect`; `InvCorrect` for `RunnerInv`; from it
  `ReportTruthful`, `NothingOlder`, `StartsClean`, `CauseNamed`. `RunnerInv`
  has a part for each: while branches are merged the worktree holds what the
  map says; from the reset and the clean on it holds nothing of an earlier run but
  ignored files and nested repositories, unless a stray wrote; the branches
  merged so far are no older than declared, because tips only grow; and unmerged
  paths are there just after a conflict. That the verdict's participant names the
  right branch needs the configuration's rule that names differ.
  `AnswersComplete` and `AnswersInTurn` from `TurnInv` and `CommitInv`: as long
  as the bus hands nothing over again, requests are answered in the order in
  which the coordinator asked and none twice. Whatever the bus hands over again,
  to the same runner or to its successor, an answer names commits that the
  branches have and that are no older than the last answer's (`AtLeast`, carried
  through resolving, merging, testing and the verdict).
  `RequestsTakeTurns`: `WorkLeft`, a natural number, bounds the steps until the
  inbox is empty, and no request in it is passed over.
- **`SessionProofs`**: `SessionInvCorrect` and `SessionRefines`, the fake
  implements `Turns` with any number of callers and any capacities.
  `SessionInv` says at which labels a turn is in progress, that an action is
  run only if one is left, and that the loop leaves only after the end.
  `EndAnnounced` from `EndInv`: the last event is sent before the channel is
  closed, and what is sent after it does not displace it. `ReceiptsTruthful`
  from `ReceiptInv`, which counts: what is pending of a kind is what was given
  up, what is queued, what the callers are offering and what the turn is about
  (`Counted`, with cardinalities, the callers need not be finitely many); and
  the snapshot taken at the last drain is not outdated before it is reported.
  `EndingBounded`: the scripts and the queue do not keep a session alive;
  `StepsToStop` gives every message that is still accepted the steps of a turn,
  and counts the release of a killed command's output as one of them, which
  nobody but the hypothesis of `EndingStops` obliges to come.
- **`CourierProofs`**: `CourierInvCorrect` for `CourierInv`; from it
  `CourierTypeCorrect`, `AnswersComeLast` and `CourierRefines`, which carries
  the session's refinement into the composition: every step of the bus and of
  the dispatch loops stutters or is a call. `EndOnTheBus` and
  `ReceiptsOnTheBus` follow the same way. `AnswerComesLast` is inductive once
  a message is known to be in one place at a time (`Distinct`, the numbers of
  an inbox) and the session to be called only while the loop waits for it.
  `OrderKeeps` from `OrderInv`, the order between the turn, the queue, the call
  and the inbox piece by piece, and that no number above `published` is in use.
  `EndingOnTheBus` carries the session's bound over.
- **`GateSystemProofs`**: `Refinement`, every step of the system is a step of a
  `GateCoordinator` or none of its, for any number of processes' worth of
  Readies. So `CoordinatorStands`: the coordinator's invariant, proved in
  `GateCoordinatorProofs`, holds in the composition (the theorems of that
  module are instantiated, not repeated). `TypeCorrect`. `PassEarned`: wherever a
  pass is on its way to the agent (a reply, the remembered verdict, a verdict
  in resolution, the publication, the mail, the handler, the signal to the
  waiter), it is of a version in `earned` (`GateEarned`, `SubmitEarned`), which
  takes the coordinator's invariant: the remembered round is the current one.
  `NobodyDeaf` from `HearingInv` (`AnswersArePending`), which says of every
  state what `NobodyIsDeaf` says of the quiet ones: what an attempt waits for
  is somewhere on its way. `AnswerComes` follows the answer to the attempt's
  last Ready from the coordinator (`AckAtGate`, `NackAtGate`, `VerdictAtGate`)
  through mail, handler and offer to a channel that is listened to; an Ack is
  an answer only if a round or a missing peer stands behind it, and only if
  that round's verdict has not overtaken it. `EndComes` does the same for the
  round that a refused attempt waits for, `NackTellsOfRound` says that there is
  such a round, `OfferFits` that a handler offers what its message says, so
  that a signal left over from before the last stamp is never a verdict for
  the wrong version, `NamesMe` that no verdict is without the agent (from the
  coordinator's backfill), and `TimersInOrder` that a timer belongs to the
  round in flight or an earlier one.
  `MismatchTellsOfMoved` from `OneVersionInv`: until the runner has merged another
  version of the agent, no claim, request, reply, verdict or message names one,
  if no Ready of the agent for another one was unheard at the start.

**Only model-checked**: what needs fairness (`QuorumIsAnswered`,
`MessagesArrive`, `AbandonedLeaseLapses`, `TroubleEndsTheRun`, `EndingStops`,
`NobodyIsLeftWaiting`, `EveryRequestIsAnswered`). The provers have no rule for
WF, SF and ENABLED, so the last step, from "the work left is bounded and a
step that lowers it stays enabled" to "it ends", is TLC's. The safety behind
each is proved, except for `NobodyIsLeftWaiting`: nothing is proved of the
work of a session that nobody has ended, which its scripts may prolong.
Every invariant and action property of the passing runs is proved. The
statements of the five runs that find a disagreement do not hold as they stand;
when each does is proved for four of them. The fifth, of `run_loop_finish`,
fails whenever a session finishes before Run has taken the pass: no order of
the coordinator's steps avoids it. No induction
over data and no recursive operator is used anywhere.

## 6. Where the sources say something else

Each of these runs checks one sentence of the sources and finds a behaviour of
the code that contradicts it. Quotations are in `PROJECT.json`.

- `gate_stale_timer`: a timer checks that its round is unresolved, and
  resolves in a second critical section that does not check the generation.
  When the round is settled and the next one opened in between, the timer
  declares the new round stalled.
- `gate_late_reply`: a reply is not matched to its request. After a timeout,
  the late failure of a merge that names no versions settles the next round, and the
  backfill attributes it to claims that were never merged.
- `workspace_release`: Release gives the row away before it removes the
  directory; a new holder that reattaches in between works in a directory that
  is then removed by force.
- `run_loop_finish`: the pass is broadcast before the hook is called. A session
  that ends because of it can reach Run first, which then reports a dead
  session for a scenario that passed.
- `submit_mismatch`: the fence compares when a reply was made, not which Ready
  it answers. An Ack of an earlier process's Ready passes for the new one's, and
  a round that stalls before the new Ready is heard names the earlier version:
  the process reports that its branch moved when it did not.

Met while modelling, and part of the models without a run of their own:

- An ending SQLite subscription does not flush its position, so its successor
  is handed messages again; the design document promises a flush and no
  redelivery. `Inbox` lets the position fall back. (`pc submit` knows this and
  fences, see `Fresh`.)
- fake.go:394: when there is room and the session is done, the select of
  `queue` may take the room and return nil, for a message nobody will act on;
  the comment above it says that such a caller is told. `Accepted` has no guard
  on `done`.
- fake.go:310: `emit` waits for room or for the end of the session, not for the
  caller's context, which runtime.go:54 asks every method to honour. `Receipt`
  does not look at `gone`.
- rungate.go:206: a shell that is killed at its deadline may leave children
  that hold its output, and the call waits for them: `Timeout` and
  `SurvivorsEnd`. The same in fake.go:272: the comments say of a command that a
  cancelled context "actually kills it rather than waiting it out" (fake.go:36),
  but `CombinedOutput` without a `WaitDelay` waits for whoever holds the output:
  `Kill` and `OutputReleased`.
- rungate.go:124: `git clean -qfd` has no `-x` and one `-f`, so that ignored
  files and nested repositories of one run are there in the next: `Clean`.
- rungate.go:196: git waiting for a stale lock is bounded by the wall budget
  alone, which is optional: `GitEnds`.
- agent.go:115: the error of publishing a reply is dropped, so that a request
  may have been served and never be answered: `ReplyIsLost`. The coordinator's
  timer settles the round then.
- config.go:176: the names in `gate.required` are looked up in a set that has
  the runner too, so a gate may require its own runner, which nobody declares
  ready. `Validate` allows it.

## 7. The plan

Done, in this order: the gate coordinator, the leases, the run loop, the bus
with its contract, the submit process, its composition with the coordinator,
the runner, the session with its contract, the courier over the in-memory bus.

Then their proofs: every invariant and action property of the passing runs, the
safety behind the liveness properties, and the conditions under which the
sentences of section 6 are true.

Next, most important first:

1. **Runner in the system**: `Runner` in the place of the constant reports of
   `GateSystem`, so that a pass is traced to the commits that were tested. Both
   ends are proved (`PassEarned`, `ReportTruthful`, `AnswersComplete`); what
   joins them is assumed (`PassAssumption`, `ReportsAssumption`).
2. **InMemoryBus**: a second subscription under one name whose predecessor's
   teardown removes it; which part of `Inbox` the bus keeps.
3. **A contract of the coordinator**: what a submitter may rely on (an answer to
   each Ready, verdicts in generation order), with `GateCoordinator` refining it
   and `GateSystem` using only it.
4. **Liveness of submit** under fairness of its two goroutines, the coordinator
   and the bus: every attempt ends, in a verdict where there is one.
