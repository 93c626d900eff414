# EnergyPlus-Agent: a verification project for the agent runtime

The repository drives language-model agents that read building drawings, correct
them and turn them into EnergyPlus models.  Most of it is data work (geometry,
image evidence, schemas, conversion).  What makes it a *system* is the runtime in
`src/src/agent_runtime/`: several agent tasks run as coroutines of one process,
call paid model services under a common budget, write every step to one journal,
and are resumed from that journal after a crash.  This project models that
runtime in TLA+, checks it with TLC and proves its central results with TLAPS.

Paths below are relative to the repository; `loop.py`, `dispatch.py`, ... without a
directory are files of `src/agent_runtime/`, and `budget.py` of the contracts is
`src/harness_contracts/budget.py`.

## 1. The system

| Component | State it keeps | Operations | Talks to |
|---|---|---|---|
| Budget ledger (`budget.py`, `budget_projection.py`, contracts `budget.py`, `incremental.py`, `validation.py`) | reservations, settlements, releases, reconciliations; running totals per ledger | reserve, settle, release, reconcile, project | journal (every entry is an event), loop |
| Request lifecycle (`loop.py: _model_call, _settle, _restore`) | the last reservation and request of a task, its stop reason | admit, send, answer or fail, settle, retry, stop, restore | ledger, dispatcher, adapter |
| Capacity line (`loop.py: _BudgetCapacitySignal`) | revision, queue of futures, requests in flight | complete, wait, wake head | all tasks of a run |
| Route dispatch (`dispatch.py`) | tickets, permits in use, limit, cooldown | acquire, release, rejected, succeeded | all runs of an event loop |
| Tool execution (`loop.py: _execute_pending, _restore`; `src/agent/runtime_tools.py`; `recover_pending`) | pending reply, executed and unknown calls, expected files, checkpoint | ask, invoke, call, record, accept, retry, recover, replay, inspect | journal, domain tools, files |
| Operator inbox (`control.py`) | command files, acknowledgements | submit, deliver, pause, resume | another process |
| Journal store (`store.py`) | the file and its tail, events in memory, writer lock, repair note | open, repair, append, fail, close | file system |
| Context (`context.py`, `continuation.py`) | message projections, summaries | compact, summarise, overflow retry | adapter |
| Call quota (`call_quota.py`) | a counter in a shared file | take | other processes |
| Adapters (`adapter.py`, `anthropic.py`, ...) | none across calls | send, parse | services |
| Reading session (`src/agent/runtime_roles/session.py`, `artifacts.py`, `submission.py`) | filed batches, slots, a record, submission and receipt per reader | delegate, expand, run or reuse a reader, submit, deliver, cancel, recover | coordinator, one loop and journal per reader, ledger |
| Delegation and delivery (`src/agent/runtime_delegation.py`, `runtime_delivery.py`, `runtime_coordinator.py`) | observer attempts, delivered artifacts | delegate, deliver | reading session |
| Stage execution (`scripts/tool_scripts/run_stage.py`, `src/agent/execution/`) | filed attempts, manifest, views, approval, reviews, pending stop | flow, run, resample, judge, approve, re-read, merge | judges, people, readers in isolated workspaces |
| Geometry, correction, judge, reading, converters, validator, MCP state | building data | pure functions and edits | tools |

Hard behaviours, and where they are: concurrent admission against shared money
(ledger); a process that may end between any two journal entries (request
lifecycle); lost wake-ups and nobody left to wake anybody (capacity line);
refusals that reorder and shrink a queue (dispatch); unknown outcomes of tools and
effects that land after their call was given up; commands that race with
completion; torn appends and interrupted repairs; readers of one batch that are
killed or cancelled between their submission and their record; a manifest that is
held in memory while people and judges change the one on disk.  `PROJECT.json`
lists each hazard at its line with the property that covers it, or says why none
does.

What makes each component correct:

* *Ledger*: never committed above its limit; incremental totals equal a replay;
  an entry is final; a charge equals what was reported.
* *Request lifecycle*: whatever was sent is charged, whatever was not sent can be
  given back, nothing is booked twice, nobody is admitted on books that are known
  to be behind, every task halts.
* *Capacity line*: no wake-up is lost, nobody waits for nothing, every waiter
  leaves.
* *Dispatch*: permits are conserved, the head of the queue always has something
  that wakes it, first come first served except for calls that were refused, every
  ticket is served.
* *Tools*: no call takes effect twice, an unknown write ends its task, the model is
  told every result once and in its place, and works on files it knows.
* *Inbox*: each command is applied at most once and in order; paused means no
  further request.
* *Store*: what was acknowledged survives; a torn record is archived, never half
  kept; no event number is used twice.
* *Reading session*: a recovered delegation covers what the interrupted one did; a
  delivery is one the journal knows, and stays as it is; a cancellation is no
  result; the limit of truncated answers holds for the whole run.
* *Stages*: as long as the stages are run in turn, what is accepted was drawn from
  what is accepted, and a correction is drawn from views that were gated; nothing
  passes the geometry checkpoint unapproved; every command ends.

## 2. Modules

| Module | Models | State and code |
|---|---|---|
| `Escrow` | what the budget promises to whoever pays: the abstract specification | `phase`, `escrow` per reservation, `spent`: no code, the properties the ledger's validators state |
| `RunLedger` | ledger and request lifecycle, crash, restore, offline repair | `status`, `hold`, `usage`: budget events; `request`, `reply`: request, answer and failure events; `committed`, `overrun`: `IncrementalBudgetIndex`; `pc`, `floor`: where a coroutine is, and whether it is between two awaits; `restarts` |
| `CapacityWait` | the capacity line on an explicit event-loop queue | `ready`: asyncio's queue of callbacks; `waiters`, `seen`, `signal`: the deque of futures and their revisions; `revision`; `free`, `charged`, `hold`: the root ledger reduced to seconds |
| `RouteDispatch` | one route's dispatcher and the slot that uses it | `queue`, `inFlight`, `limit`: the fields of those names; `woken`, `timer`: the future a ticket sleeps on; `released`: the lease's flag; `redispatch`: `redispatch_of` is set; `compacted`: the context was compacted after a rejection; `blocked`, `quiet`: what the clock says; histories `standing` (what the service said of the call) and `before` (whose tickets are older) |
| `TaskControl` | one task, its operator's inbox, checkpoint and resume | `inbox`, `draft`: command files in place, and the one being written; `journal`: the task's events; `mem`: the fields `_checkpoint` saves; `saved`: the last checkpoint and its position; `todo`: what `read_commands` returned; `receipt`: receipt.json |
| `ToolRecovery` | the tool calls of one task and their recovery | `mem`: what the loop remembers; `journal`, `invoked`, `open`, `outcome`: events; `checkpoint`: memory and journal position; `attempt`: the awaited call; `world`: the files, reduced to how often each call took effect; `receipt`: the coordinator's own records; `straggler`: calls whose effect may still land |
| `Journal` | what a journal promises: the abstract specification of the store | `log` and `acked`: the events and how many were acknowledged |
| `JournalStore` | the file, its processes, kills and power loss | `file`, `tail`, `synced`: events.jsonl; `archive`, `note`: blobs and tail_repair.json; `holder`: the writer lock; `log`: `self.all_events` |
| `ReaderBatch` | the reading session: delegations, slots, readers and their deliveries | `calls`: delegate_readers calls and their filed batches; `record`: reader_record.json; `child`: a reader's journal; `disk`: its submission and receipt; `reader`: its coroutine; `replies`: answers in the order of the root journal |
| `StageRun` | the staged run of a case | `filed`: attempt directories; `accepted`: the saved manifest; `cmd`: the running command with the manifest it holds; `views`, `geometry`, `shown`, `approval`, `reviews`, `stop`: the files of those purposes; histories `strayed`, `disturbed`, `approved` |
| `MCRunLedger`, `MCCapacityWait`, `MCRouteDispatch`, `MCTaskControl`, `MCToolRecovery`, `MCJournalStore`, `MCReaderBatch`, `MCStageRun` | instances for TLC | small constants, symmetry |
| `RunLedgerProofs` | theorems of `RunLedger` | the inductive invariant; holds, bookings and totals; the refinement |
| `CapacityWaitProofs` | theorems of `CapacityWait` | the inductive invariant; nobody waits for nothing, no wake-up is lost; the books; nobody is stuck |
| `RouteDispatchProofs` | theorems of `RouteDispatch` | the inductive invariant; permits, the head of the queue, the order of service |
| `ToolRecoveryProofs` | theorems of `ToolRecovery` | the inductive invariant, in two layers; effects, finality, conversation, answers and files |
| `TaskControlProofs` | theorems of `TaskControl` | the inductive invariant; what a resume rebuilds; acknowledgements, pause, messages, interactions |
| `JournalStoreProofs` | theorems of `JournalStore` | the inductive invariant, the store's properties and its refinement |
| `ReaderBatchProofs` | theorems of `ReaderBatch` | the inductive invariant and the session's properties |
| `StageRunProofs` | theorems of `StageRun` | the inductive invariant; the checkpoint, the order of the stages |

`RunLedger` and `CapacityWait` overlap on purpose: the first has all dimensions
and crashes, but lets a coroutine that waits simply stay `ready`; the second has
the exact order of callbacks, but only seconds.  `RunLedger` justifies what
`CapacityWait` takes for granted (a hold is given back or kept as a whole), and
`CapacityWait` what `RunLedger`'s fairness takes for granted (a task that waits is
woken).  In the same way every module with a journal takes for granted that what was
appended is there after a crash, in order and once: that is `Journal`, which
`JournalStore` is shown to implement.  `ReaderBatch` has many tasks and one tool, the
submission; `ToolRecovery` has one task and all kinds of tools.

### How `RunLedger` corresponds to the code

One action is everything a handler does up to its next await.

* `Reserve` is `_model_call` from the budget check to the `reserve` event, for the
  task's ledger and the root's; it needs room for the whole estimate in both.
* `Send` journals `model_request` and awaits the adapter.  `Respond` and `Fail`
  journal the outcome, `Settle` books it; between the two no other coroutine runs
  (`floor`), but the process may end.
* `GiveUp` is a budget stop that does not wait (`_budget_stop`,
  `_can_wait_for_root_time_reservation`); a task that waits has no step until the
  ledger changes.  `Leave` is completion, or a stop for any other reason.
* `ProcessEnds` ends all coroutines; receipts of failures, which live in the
  exception only, are lost.  `ReleaseUnsent`, `RestoreIdle`, `RestoreReplay`,
  `RestoreDangling` and `RestoreRefused` are the branches of `_restore`, in its order.
* `OfflineRelease` and `Reconcile` are the two commands of `budget_recovery.py`,
  which take the journal's lock, so no task of that run is alive.

`Settlement`, `CanSettle`, `EffectiveCharge` and `OverrunOf` are the arithmetic of a
settlement: a late request is charged its tokens and keeps its reserved time, an
unreported amount stays at its hold, and an excess is remembered apart because the
limit is checked without it.

Left out of the ledger: US dollars (never elastic, like seconds), the image token
allowance (part of an amount), what a request contains, and the reasons' wording.  The estimate of
a request is any member of a set, a receipt is any member of another or missing,
and time used is anything from zero to one past the reserved time.

### How `RouteDispatch` corresponds to the code

`Acquire`, `Recheck` and `Expire` are `acquire` between its awaits; `Refuse`, `Succeed`,
`Fail` and `ContextTooLong` what `_model_call` does when the awaited request ends, up to
the point where the lease is back; `Leave` is the end of `_dispatch_slot`, after which the
task asks again or is done.  `Release` happens in several of them and counts once.

Whether a ticket goes to the front is decided by `redispatch_of` of the task alone.
A refusal sets it (or clears it, without a retry budget); an answer and any other
failure clear it (`loop.py:344`, `904`, `924`).  A request that is too long for the
service does not: `_model_call` compacts the context and goes on (`loop.py:880-899`), so
that the next attempt goes ahead once more if the attempt before was a redispatched one.
It happens once in the life of a task, which is why each task has `compacted`.

### How `TaskControl` corresponds to the code

The operator's `Submit` is everything `submit_command` does under the inbox lock up
to the file's final name, `PlaceFile` the renaming, `LosePending` a process that ends
in between.  The task reads the journal and the inbox but takes no lock.

`ReadInbox`, `Deliver` and `Delivered` are `_control_boundary`: one snapshot of the
inbox, one event and one effect per command, one checkpoint.  `Wake` is its polling
loop.  A turn is `SendRequest`, `Receive` or `NoUsableReply`, `AcceptReply`, `Save`,
and after a reply that calls tools `RunTools` and `FinishTools` with a checkpoint each;
the process may end between any two.  A failed, refused or truncated reply, and a
summary, are followed by another request inside `_model_call`, without a boundary.
`Restored` folds `Replay`, the loop of `_restore`, over the journal behind the
checkpoint.  `RefuseResume` stands for every reason `_restore` gives, before or after
the replay; `AlreadyCompleted` and `Resume` are its other two ends.

`domain` tasks complete by evidence in saved results and do not look at the inbox
first; the others complete by an answer.  Left out: what tools did before a crash (a
doubtful one leads to `RefuseResume`), budgets other than the number of calls (any
other stop is `GiveUp`), the text of messages.

### How `ToolRecovery` corresponds to the code

`AcceptReply`, `Invoke`, `Record`, `AcceptResult` and `FinishBatch` are the steps of
`_execute_pending` between its appends, awaits and checkpoints; the `Tool...` actions are
what a tool does while it is awaited, by kind: a read, a query that may not be
repeated, a write, a write with a record of its own (`_once`), a delegation.
`ToolRaises` is the handler that journals an unknown outcome; what the tool was doing
then may still land (`LateEffect`).  `Resume` starts a process; a coordinator runs
`recover_pending` first (`RecoverCall`, `RecordRecovered`), then everybody `_restore`:
`BeginRestore` takes the last checkpoint, `Replay` one journal entry, `Inspect` decides
about calls without a result and compares the files.

`recover_pending` takes its own snapshot of the files after a recovered call, so edits
made while the process was down are accepted there without a comparison;
`WorksOnKnownFiles` is stated for the other calls.

### How `JournalStore` corresponds to the code

`Open` is the constructor up to the lock, `Archive`, `Note`, `Replace` are `_repair_tail`
up to each thing it makes durable, `Load` reads the file.  `BeginAppend`, `WriteRest`,
`WriteNewline`, `Acknowledge` split an append where a kill leaves different bytes.
A power loss keeps at least what was synced.  A kill between the replacement of the
file and the repair's own event loses that event; `tail_repair.json` still says what was
done.

### How `ReaderBatch` corresponds to the code

`Delegate` is a journaled call of `delegate_readers`, `Expand` is `_delegate_batch` with the
filing of the batch and the start of all readers, `Answer` the end of the call.  A
reader is `run_reader` inside its slot: `Reuse`, `TooLate` and `Enter` before its loop,
`StartChild` and `FirstCheckpoint` for a new journal, `RestoreRefuses`, `AlreadyCompleted`
and `RestoreGoesOn` for an old one, then requests, truncated answers and the submission
as in the loop, and `Record`, which writes its record.  Steps with no await in between
(`Synchronous`) are not interleaved with other readers, and not cancelled, but the
process may be killed there.  `Restart` is a resume of the session with
`recover_pending`.

Readers are lost for their identity in the code, and so in the model, when the
process is killed between their start event and their first checkpoint, when their
submission or their request is cancelled while it is away, and when a completed reader
is killed before its receipt while an older receipt is there.  A request that was
cancelled is why "cancelled" in the list of `session.py:1029` helps only readers that
were between requests (`loop.py:1804-1808` refuses the others), which
`CancelledIsNoResult` states.  An exception other than ValueError and KeyError in the
setup of one reader ends `asyncio.gather` while its siblings run on (`session.py:1012`);
that is not modelled.

### How `StageRun` corresponds to the code

A command takes the manifest at its start, works on its own copy, and saves all of it
after each stage.  `Flow`, `Run`, `Resample` begin one; `DecideWithoutDraw`, `BudgetSpent`,
`BeginDraw`, `FileAttempt` are `run_one_stage`; `Save`, `FlowPasses`, `FlowShowsGeometry`,
`FlowRoutes`, `FlowStops` are the loop of the flow command, `EndRun` the end of run and
resample.  `Judge`, `ApproveGeometry`, `ApproveReview`, `Reread` and `Merge` are other
people's commands and may come between any two steps.  `Kill` ends the running command.

`strayed` marks a history in which a stage was run out of turn.  A bare `run --force`
and a merge replace an accepted output and do not drop the pointers downstream, although
`invalidation.py:3-5` wants them dropped; a flow or a resample may name a stage whose
inputs are not accepted; and so may a verdict.  The code takes any known stage as the root
of a blocking verdict (`judge/verdict.py:56`, `step_orchestrator.py:402`), also one behind
the judged stage: the flow then goes forward past the stages in between and draws the named
one (`run_stage.py:3519-3534`).  The run has such a verdict, a correction blocked with `mep`
as its root.  `AcceptedIsFresh` and `CorrectionReadsGatedViews` say nothing of what comes
after that; `OnlyApprovedGeometryGoesOn` and `EveryCommandEnds` do.  Without the entry for
such a verdict in `strayed`, TLC finds `AcceptedIsFresh` violated after five commands.

A correction compares the views at the stage root with the accepted reading once, before
its first read (`run_stage.py:772`, in `BeginDraw`).  `run_correction` then reads them for its
prompt (`793`, `ReadViews`) and waits for the model, and with the answer there the draw reads
them again, for the number of strokes (`825`) and the outline (`898`), with no second
comparison for schemas 1 and 2 (`SeenInTheEnd`, in `FileAttempt`).  An attempt remembers the
views it was compared with (`from`) and those it read (`seen`).  A reader or a merge that
replaces the views in between makes them differ, so that ungated views do get into the
correction; the two properties say of a draw in which that happened (`disturbed`) only what
it was compared with.  Without that exemption TLC finds `CorrectionReadsGatedViews` violated
by one re-read during a draw.  The mechanical leg of a correction (`run_stage.py:545`) reads
the same files, also several times, and is the same action.

A merge copies its mirrors into the working copy before it saves the manifest; the model
does both in one step, and counts every merge as out of turn.  It loads the manifest before
it takes its lock.  A redraw of `mep` does not look at the approval again.

Definitions under a comment *Wrong on purpose* are the mutants: each is a
plausible bug of the definition that follows it, no specification uses it, and TLC
finds the property paired with it in `PROJECT.json` violated when it is put in place.

## 3. Runs

| Run | Question | Bounds |
|---|---|---|
| `ledger_safety` | Do the books stay right under concurrency, one crash and repair, and implement `Escrow`? | 2 tasks, 2 requests each (3 calls in all), 2 seconds, 1 restart |
| `ledger_live` | Does every task halt, with a money limit and one second for the whole run? | 2 tasks, 1 call each, 1 restart |
| `ledger_latestop` | Is a time stop kept across a restart? (finding) | 1 task, 2 requests, 1 restart |
| `capacity_line` | Is a wake-up ever lost, does anybody wait for nothing, does every waiter leave the line without a deadline? | 3 tasks, 2 seconds, 2 calls each |
| `dispatch` | Are permits counted, who overtakes, does the head always wake, is every ticket served? | 3 tasks, up to 2 permits, 5 attempts in all |
| `control` | Is every command acknowledged once and in order, does a pause hold, is a message heard? | 2 commands, 2 requests, 2 starts or resumes |
| `control_late` | Can a command arrive after completion? (finding) | 1 command, 2 requests, 1 start |
| `control_receipt` | Is the receipt that of the completion? (finding) | 1 command, 2 requests, 3 starts or resumes |
| `tool_recovery` | Does any call take effect twice, and does the model see every result once, whatever raises, lands late or crashes? | 2 calls in 1 or 2 replies, 3 roles, 3 resumes, 1 edit |
| `journal` | Is the file the journal that was promised? | 2 processes, 4 records |
| `readers` | Does a recovered batch lose or double a reader's work, and does the truncation limit hold for the run? | 2 readers at a time, 2 replies each, 2 delegations, 2 interrupted lives |
| `stage` | Is anything accepted that was drawn from something older, read what no gate has seen, or passes unapproved? | stages up to `mep`, 2 draws each, 4 commands or kills, verdicts with root `reading`, `correction` or `mep` |

Why these bounds are enough to be interesting: two tasks are needed for a request
to be admitted while another is away, and the root limit (3 calls, 5 tokens, 2
seconds) is below the sum of the task limits, so that either ledger may refuse.  A
receipt is below (1) or above (3) an estimate (2), so every charge shrinks or
exceeds its hold.  Two requests per task make "the last reservation" differ from
"any reservation".  In the line and the queue, three tasks make a head, a follower and
somebody who is not in it.  Two commands give every pair of actions in every order
(pause and resume, a message during a pause), two requests a first turn and a retry
or a second turn.  Two calls are a batch or two replies in turn, and three resumes
interrupt a recovery and its retry.  Four records are one before a torn append, the
torn one, the repair's own event and one behind it.  Two readers in two slots receive
truncated answers at once and judge them in either order, and the second life is the
recovery of a recovery; after it the run goes on undisturbed.  Four commands are a
flow, a kill or a verdict in it, an approval or a re-read, and a flow that goes on
(the three invariants also held with five commands: 13.3 million states).  Symmetry is used in runs without liveness only.
`CHECK_DEADLOCK FALSE` everywhere: tasks end, and the bounds end the rest.

Fairness.  `RunLedger!FairSpec`: weak fairness of each task's own steps; the event
loop runs every ready coroutine and every request has a timeout (`asyncio.wait_for`
in `_model_call`).  None for `Leave`, a refused restore, crashes or repair.
`CapacityWait!FairSpec`: the loop runs what is ready and every await other than the
line ends; none on deadlines, which a run need not have.  `RouteDispatch!FairSpec`:
a woken ticket looks again, whoever holds a permit goes on, a cooldown passes; none
on expiry.  `TaskControl!FairSpec`: the loop runs the task, requests time out, tools
return; none for the operator, stops, crashes or resumes.  `ToolRecovery!FairSpec`: the
loop and the restore go on, and an awaited tool answers or runs out of time; none on
late effects, which may never land, nor on crashes and resumes.  `StageRun!FairSpec`: a
command that nobody kills goes on.  `ReaderBatch` and `JournalStore` state safety only.

### Findings

1. *A time stop is lost by a resume* (`ledger_latestop`).  A request that fails after
   its reserved time stops its task; `_settle` says that a late request will "keep
   the time stop" (`loop.py:1127`).  `_restore` finds such a request without an answer,
   calls `_settle` and drops its result (`loop.py:1819`), so the resumed task sends
   again.  For answered requests the replay finds the stop again.
2. *A command can arrive after completion* (`control_late`).  `submit_command` checks
   the journal under the inbox lock (`control.py:92-95`), but a task completes without
   that lock.  The command is reported as queued and never read: a completed task is
   not resumed.  The same happens to a command that is placed, in time, between the
   last reading of the inbox and the stop.
3. *A stale receipt is taken for a completion* (`control_receipt`).  `_stop` appends the
   stop event and then writes `receipt.json` (`loop.py:2265`, `2272`).  If the process ends
   in between and an earlier stop left a receipt, `_restore` (`loop.py:1626`) returns that
   one as "already_completed": old status, no answer, at every further resume.

`_yield_budget_waiters` (`loop.py:2044-2047`) lets the head of the line look at the
budget before the task that has just settled, and nobody behind that head; its comment
speaks of older waiters in general.  No property is stated about it.

Three more places where the code does less than is said of it are in the models without a
run of their own; the properties next to them are stated around them.

* *An attempt that repeats no refused one goes ahead.*  `dispatch.py:60` says "FIFO requests,
  with refused attempts readmitted ahead of new requests".  A refused and redispatched
  attempt that turns out too long is followed by one with the same `redispatch_of`
  (`loop.py:897-899`), which overtakes older tickets.  A resume at that point clears it
  (`loop.py:1825`).  `FifoExceptRefused` allows exactly this; with an attempt after a
  compaction counted as any other, TLC finds it violated after ten states.
* *Views may change under a correction.*  `run_stage.py:772` compares them, `825` and `898` read
  them again (see `StageRun` above).
* *A verdict may send a flow forward.*  The rubrics name stages up to the judged one
  (`reading/judge_rubric.md:60`, `correction/judge_rubric.md:61`, under
  `src/agent/legacy/intake/`), the code takes any (`step_orchestrator.py:402`).

## 4. Proofs

`RunLedgerProofs` proves for every number of tasks, requests and restarts, every
limit and every set of estimates and receipts allowed by `LedgerAssumption`:

* `Invariance`: `Spec => [](IInv /\ Fresh)`, with
  `IInv == TypeOK /\ Shape /\ CommittedWithinLimit`.
* `TypeCorrect`, `LimitHolds`: its two parts of interest.

`CommittedWithinLimit` is not inductive alone.  That a settlement shrinks what is
committed without excess (`ChargeShrinks`) needs a hold of exactly one call and
reports in which tokens and money are known or unknown together; `Shape` says so of
every hold, usage and reply, and that a task which is busy has an open hold.  That
a reconciliation shrinks it (`AmendShrinks`) needs the known time of the settlement
to stay, and settled time never to exceed reserved time.  `FitsRoom` turns the
admission test, which clamps at zero, into the inequality of the invariant.
`Fresh` says that reservations beyond `made` are untouched, so that a new one
really is new.

`ImplementsEscrow: Spec => EscrowSpec` is the refinement.  The mapping gives the
escrow of a reservation as its contribution without excess; each ledger step is one
`Open`, `Void`, `Close` or `Amend`, or leaves the mapped variables alone.

`ReleasedWasNeverSent`, `AnswersAreFullyCharged` and `SettlementsAreFinal` (an action
property) follow on top of `Invariance`; so do `NoHoldIsForgotten` (a
task that goes on has no open hold behind it, but for a request that failed after its
time) and `BookingComesFirst` (an action property: the run admits nothing while an
answer that exceeds its hold waits to be booked): both need at which place of its
coroutine a task can have an open hold.

`TotalsAreReplayed` says that the totals kept entry by entry are what a replay of the
ledger adds up to.  The sum is the number of its units (`SumOf`: one pair for each unit
of each term), so that it needs no recursion; an entry changes one term, and the sum by
as much (`SumUpdate`, `OneEntry`).  It is here that the tasks of a run must be finitely
many.

`CapacityWaitProofs` proves `SomebodyAlwaysComes` and `WakeUpsArrive` for any number of
tasks, any total and any holds.  Its invariant (`CapacityInvariant`) says that each
waiting task stands in line once; that whoever joined at the present revision found a
request away, which still is (`JoinedForSomething`); that the head of the line was told
of any later revision (`HeadTold`); and that a set future belongs to a waiting task in
the loop's queue (`ToldWillRun`).  Two more invariants stand on it.  `Books`: only
requests in flight hold seconds, and those that are free, charged and held are at most
the total (`SecondsAreCounted`, and with it `CapacityTypes`); only what a late request
held is missing.  `Queue`: the loop's queue holds exactly the tasks whose code is due,
each once (`QueueIsExact`).  So while somebody is in line there is something to run, or
a request is away whose end puts something there (`NobodyIsStuck`): the part of
`EveryWaiterLeaves` that needs no fairness.

`TaskControlProofs` proves for any commands, calls and restarts the four safety
properties of the run `control`.  Its invariant (`ControlInvariant`) says that the memory
of the running task, the last checkpoint and what a resume makes of it each reflect a
prefix of the journal (`Reflects`: which commands are acknowledged, whether a pause is in
force, whether an interaction is open, whether an answer still stands); that
acknowledgements go through the inbox one by one (`InOrder`); and that each event was
lawful when it was recorded.  One event more, replayed, makes a memory reflect one event
more.  That the whole suffix after a checkpoint does so is an induction over its length,
made with a smallest counterexample (the natural numbers are well-founded); this is
`ResumeForgetsNothing`, and it is what a resume hands to the loop.

`RouteDispatchProofs` proves for any number of tasks, permits and attempts that permits
are counted right (`DispatchPermits`), that the head of the queue is never asleep with
nothing to wake it (`DispatchHead`), and who overtakes (`DispatchFifo`, an action property):
nobody gets a permit while an older ticket is in the queue, or that of a redispatched
refusal, unless an earlier attempt of the same call was refused and nothing but a failure by
a context too long happened since.  Its invariant (`DispatchInvariant`) adds that the tasks
inside `acquire` have one ticket each (`Line`), that tickets with `redispatch_of` come first,
that a call with `redispatch_of` was refused, and that the others stand in the order
in which they came (`InOrder`), and that whoever has a permit has its request away, so that a
lease is given back once (`Leases`).

`ToolRecoveryProofs` proves for any number of calls, replies, retries and resumes that
no call takes effect twice (`ToolEffects`), that an unknown write is final
(`ToolFinality`) and that the model is told the journal (`ToolConversation`).  Its
invariant (`ToolInvariant`) says where a call can be open (`Places`), how far each kind
of call can have gone (`LifeOf`, `EffectOf`: a write that may still land late has not
landed and is never begun again; a receipted one that began has a record), that at most
one call that is no read is without a result (`Single`, which makes finality follow),
that each known call has one result in the journal (`Results`), and up to which entry
the memory and the checkpoint follow the journal (`Conversation`); `Asked` says that
what is pending is a reply.  A call whose outcome is known is thus answered in the
memory and cannot be the next one, so what the loop begins was never begun before, or
is a read (`FirstOrRead`).

The second layer (`ToolAccount`) says where in the journal results stand and what the
files were.  `Order` and `InPlace`: the results of a reply follow it in the order of its
calls, and only the call whose result is due (`Due`) was begun.  `Near`: the checkpoint
is at most one entry behind, and while it is, no call is without a result; so a memory
made from it takes the entry it lacks (`Taken`, `Minds`) before anything is recovered.
`Stragglers`: nothing is left behind while the loop runs, and what is left behind is a
write without a result.  `FilesKnown`: each result starts from the files the one before
left (`Linked`), and while the loop is at rest the files and what the memory says of
them are as the last result left them (`Left`).  From these follow `ToolAnswers`
(`ConversationIsWhole`) and `ToolFiles` (`WorksOnKnownFiles`).

`JournalStoreProofs` proves of any number of processes and records that no number is
used twice or left out (`StoreNumbers`), that who may append remembers the file
(`StoreMemory`), that a repair removes nothing it has not archived and announced
(`StoreKeepsBytes`), and that the store is a `Journal` (`StoreIsJournal`).  The
invariant (`StoreInvariant`) adds what is not visible in those: acknowledged records
are on the disk (`Bounds`), only the holder of the lock has the store open (`Held`),
and how the memory of a process and the tail differ from the file at each place of
its code (`Places`).

`ReaderBatchProofs` proves the five properties of the run `readers` for any number of
readers, slots, replies, delegations and interruptions.  Its invariant
(`SessionInvariant`) has three parts.  `Submissions`: what the journal and the disk of
a reader know of its submission at each place of its coroutine, that a reader with a
delivered record is not at work, and that its last reply is its submission; so a
restore can tell a delivery from a submission that was cut off, and a truncated last
reply means that nothing was submitted.  `Filed` and `Returned`: what was filed for a
delegation, that the first one has no records before it is filed, and that a reader
nobody waits for any more has left an honest record.  `Truncations`: a reader goes on
only after replies that were judged, and the latest reply the run has gone on after
bounds their number (the invariant says that there is such a reply, so that it need not
be found by induction).  `ReaderMoves` reduces a step of one
reader to what is said of that reader.

`StageRunProofs` proves the three safety properties of the run `stage` for any number
of draws, commands and kills and any last stage.  Its invariant (`StageInvariant`) says
how the manifest in memory differs from the saved one (`Manifests`: by the stage just
decided, and by a reading merged meanwhile), that a stage behind the checkpoint is drawn
only from an approved correction (`Gate`), what a correction has read (`Reads`: while the
views were not replaced, those it was compared with, in the draw that runs and in each
attempt on file), and, as long as nothing strayed, what stands around a draw (`Order`): its
inputs are accepted, nothing is accepted behind it, what it read is what is accepted, and
what each correction on file was compared with had passed gate 1.  Dropping the pointers
behind a stage keeps the rest fresh (`InvalidatedFresh`), also when a verdict routes to a
later stage whose inputs are there, and nothing stands on a stage that is not accepted
(`Closed`), so that a stage drawn for want of an accepted attempt has nothing behind it
either.  `StageCheckpoint`, `StageGatedViews` and `StageFreshness` hold for any verdicts a
judge may file.

Assumptions on constants are those of the modules (`LedgerAssumption`,
`JournalAssumption`, `CapacityAssumption`, `DispatchAssumption`, `ControlAssumption`,
`ToolRecoveryAssumption`, `ReaderBatchAssumption`, `StageRunAssumption`), which every run
evaluates.  `LedgerAssumption` says that a run has finitely many tasks, which are
registered one by one; the capacity line needs no such assumption.

Every invariant and action property of every passing run is stated by a theorem.
Model-checked only are the six liveness properties (`EveryTaskHalts`,
`EveryWaiterLeaves`, `EveryCommandIsRead`, `EveryTicketServed`, `EveryProcessEnds`,
`EveryCommandEnds`): fairness and `ENABLED` are out of the prover's reach.

## 5. Not modelled

* `RunLedger`: US dollars, image allowance, the contents of requests.
* `TaskControl`: several tasks sharing one inbox; `ToolRecovery`: images and pins of the
  context, what single tools compute.
* `JournalStore`: a disk that drops a page after a failed fsync; checkpoint and receipt
  files, which are atomic replacements.
* `ReaderBatch`: money limits (a sibling's unbooked answer then stops a reader, with
  "unsettled_reported_usage", which is not in the list of `session.py:1029`), rework,
  imported readers, deadlines, truncated answers of the coordinator, the coordinator's
  other tools.
* `StageRun`: corrections of schema 3, for which `_ensure_orientation_enriched`
  (`run_stage.py:1099`) accepts a new, unjudged correction attempt in the last stage;
  automatic reading; several drawing commands at a time; how an isolated workspace is
  built; a failure of the archive (like a kill).  `RunBudget.charge_*` is never used by
  a flow.
* Answer repair, the subscription's call quota (`call_quota.py`, a counter in a locked
  file), context compaction, the observer's deadline (`runtime_delegation.py:259`).
* The MCP server's building configuration, which tools edit one call at a time, and
  the legacy pipeline.
* Geometry, image evidence, judge and correction rules, conversion to EnergyPlus and
  its simulation, service adapters: sequential functions of large data, which the
  repository tests and a model would repeat.
