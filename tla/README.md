# TLA+ specifications of the agent runtime

This directory holds TLA+ modules of the runtime in `agent/`, TLC
configurations that model-check them on small instances, and proofs checked by
TLAPS. `PROJECT.json` maps every definition to the lines it translates and
lists the runs, the mutants, the findings, the hazards and the theorems.

## The system and its parts

A message from a chat platform becomes a *run*: the loop in `core/loop.py`
calls a model, executes the tools the model asks for, parks the run when a tool
needs a person's approval, and answers. Any process can die at any point; the
next one continues from the databases.

| Component | State it keeps | Operations | Modelled in |
|---|---|---|---|
| session store, `sessions/store.py` | runs (status, owner, lease, execution token), inbound messages with cached answers, checkpoints, ledger of tool executions | begin, claim, renew, save, transition, complete, claim/complete/fail tool, interrupt at start | `RunStore` |
| administration, `admin/` | the same tables, audit log, in Postgres the operations already applied | pause, cancel, recover a run; dispose of an uncertain tool | `RunStore` (the changes to runs and ledger), `PostgresStore` (with operation ids) |
| approval store, `approval/store.py` | requests with continuation, decision, expiry; card events seen | create, decide, expire, claim, complete, fail, consume, recover | `ApprovalStore` |
| agent loop, `core/` | the local variables of each thread | `run_turn`, `resume`, `resume_run` and everything they call | `AgentRuntime` |
| application and WeCom gateway, `application/`, `gateway/` | resume tasks in flight, cards sent | deliver a message, click a card, retry unsent cards, recover at start and at each ping | `AgentRuntime` |
| tasks, `tasks/graph.py`, `tasks/service.py` | task rows with dependencies, a trigger and a bound run | create, execute, resume, pause, cancel, fail, reconcile | `TaskGraph`, `TaskService` |
| scheduler, `scheduler/` | triggers, one per schedule and minute | dispatch, recover | `TaskService` |
| model clients, `models/resilient.py` | circuit breaker of a process; the id of the last answer of a run | retry, time out, fall back, open, let through again | `ModelClient` |
| context manager, `context/` | summaries of a session; the conversation of a run | build, compact, trim to the budget | `ContextWindow` (the choice), `SessionHistory` |
| retention, `retention/` | none of its own | purge what is older than a cutoff | `SessionHistory` |
| session store (Postgres), `sessions/postgres_store.py` | as in SQLite, and per connection what a transaction has read and locked | as in SQLite, statement by statement under row and advisory locks | `PostgresStore`; messages and summaries in `SessionHistory` |
| approval store (Postgres), `approval/postgres_store.py` | as in SQLite, and open transactions | as in SQLite, statement by statement | `PostgresApprovals` |
| memory, `memory/` | versions of what a user asked to remember, in chains, with their readers and expiry | remember, correct, forget, purge, list | `MemoryStore` |
| run queue, `tasks/queue.py` | queued run ids with a lease | enqueue, claim, acknowledge, release | `RunQueue` |
| skills, MCP, hooks, observability, settings, migrations | see `PROJECT.json` | | left out |

How they interact: the gateway starts a handler thread per message and a resume
task per decided card; both call the loop, which uses the two stores one
transaction at a time. The stores are two databases, so there is no transaction
over both. Processes share nothing but the databases. `owner_id` is one per
process start, so two threads of one process are the same owner. The task
service drives the loop with one run per trigger and keeps its rows in a third
database; the scheduler is one of its callers. Runs of one session share its
messages and summaries, which the context manager reads and extends. The threads
of a process share the breaker of the model client.

What is hard here: duplicated messages and clicks, threads and processes that
take a run from each other (leases, tokens), crashes between an effect and its
record, databases that must agree without a common transaction, decisions that
race with expiry and with other decisions, tasks that must not lose the run of a
slot, threads that share a breaker, runs that read and write the summaries of one
session, requests that are trimmed again and again, transactions of different
connections that read before they write. `hazards` in `PROJECT.json` lists each with
its line.

## Modules

**`Inbox`** (abstract): a message is accepted once and answered at most once.

**`RunStore`**: the session store, one action per method, because each method is one
`BEGIN IMMEDIATE` transaction or one statement, but for `complete_tool` and
`fail_tool`. Those two check the owner in one transaction and write the outcome in the
next (`store.py:602-634`), so `SettleTool` is the second one: it looks at the row of
the call and at nothing of the run. The first one is `CheckOwner` of `AgentRuntime`,
and in Postgres, where it locks the run, `AssertOwner`. A method whose condition fails
changes nothing, so its failure is the negation of the guard and has no action of its
own. The module is used on its own under arbitrary callers (`StoreSpec`: any store
instance presents any token, as a worker woken late would) and as the storage of
`AgentRuntime`, `TaskService` and `PostgresStore`. The field `by` of checkpoints and
ledger rows is a history variable: the token under which the row was written; no guard
reads it. A lease is `none`, `live` or `expired`; `LeaseExpires` is the clock.

**`Consent`** (abstract): a request is asked, settled by one verdict or by
expiry, and a confirmation is spent once.

**`ApprovalStore`**: the approval store, again one action per transaction, with
the request's deadline as an event of the clock (`overdue`).

**`Connections`**: database sessions, each with at most one open transaction.

**`PostgresStore`**: the twin of `RunStore` in PostgreSQL. The variables of
`RunStore` are the committed rows; `tx` is what the open transaction of each
connection has read and the locks it holds. A method is cut where another
transaction can come between a read and a write that relies on it:

| Actions | Code |
|---|---|
| `OpenInbound`, then `InsertInbound` | `begin_inbound`: the advisory lock of the message, the select, the inserts |
| `AssertOwner`, then `InsertCheckpoint`, `UpdateCompletion`, `UpdateExecution` | `_assert_owner` (`FOR UPDATE`), then `save_checkpoint`, `complete_run`, `complete_tool` and `fail_tool` |
| `AssertOwner`, `ReadLedger`, then `InsertExecution` | `claim_tool` |
| `LockControl`, then `Control`; `LockTool`, `LockRunOfTool`, then `Resolve` | `admin_control_run`, `admin_resolve_tool` with the advisory lock of the operation |
| `RecordMissing` | the same commands about a row that does not exist |
| `Rollback` | an exception, a lost connection, or a victim of deadlock detection |

Its writes do not test again what was read: that the locks make this sound is the
property (`ReadsStayTrue`) and the refinement (`ImplementsStore`).
Methods that are one `UPDATE` are the actions of `RunStore` when the row is not
locked.

**`PostgresApprovals`**: `create` and `decide` cut in the same way over the
variables of `ApprovalStore`; `decide` reads the clock before it waits for the row.

**`MemoryStore`**: `MemoryService` over `PostgresMemoryStore`. `memories` are
committed rows with root, audience, `live` (`deleted_at IS NULL`) and `next`
(`superseded_by_id`). `correct` is a read without a lock (`ReadVersion`), a locking read
(`LockVersion`) and the writes (`ReplaceVersion`); `hard_delete` is `LockChain`,
`ClearChain` (the `UPDATE`, with the snapshot of its own) and `DeleteChain` (the
`DELETE`, with another one). Behaviours in which no two transactions overlap are
SQLite's. `forgotten` is a history variable.

**`RunQueue`**: one action per method; consumers answer at any time, also after
their lease. `working` is a history variable.

**`AgentRuntime`**: threads over the two stores. A thread is a frame: a label
for the statement it is at and the locals it still needs. Each action is at most
one transaction of one store, one tool effect or one model answer, so that
crashes and other threads come in everywhere they can. The labels and the code:

| Labels | Code |
|---|---|
| `context`, `before_model`, `renew_model`, `model`, `before_finalize`, `before_tools`, `complete`, `interrupt` | `_run_turn`, `_run_bound`, `_generate_model`, `RunCoordinator.start/save/complete` |
| `renew_tool`, `claim_tool`, `execute`, `complete_tool`, `complete_row`, `fail_tool`, `fail_row`, `after_call` | `_process_calls`, `_invoke_tool`, `ToolExecutionCoordinator.invoke`; `complete_tool` and `fail_tool` are the check of the owner, `complete_row` and `fail_row` the update |
| `gate`, `park_checkpoint`, `park`, `card`, `cancel_unsent`, `consume_unsent` | `_process_calls` for a protected call, `WeComGateway._dispatch_message`, `cancel_approval` |
| `rr_*` | `_resume_run` |
| `rs_*`, `approval_done`, `approval_fail` | `_resume`, `_resume_result` |

`guarded` in a frame says whether an exception reaches the `except` clause that
interrupts the run (`Raise`). `effect` counts tool effects, `issued` the calls
the model asked for (a call id is new in its run), `sent` the cards a user can
click, `offered` the resume tasks of a process that have not started.

**`TaskGraph`**: the rows of tasks, one operator per update with its `WHERE`.

**`TaskService`**: threads of several processes that execute, resume, stop and
reconcile tasks and dispatch and recover triggers. It uses `TaskGraph` for the
tasks and `RunStore` for the runs (a message is a trigger), so a step is one
transaction of one of three databases. The work of the loop is taken in outline:
a worker that owns a run completes it, parks it for an approval, or fails; the
ledger is `AgentRuntime`'s business. Labels and code:

| Labels | Code |
|---|---|
| `load`, `reset`, `reload`, `check_run`, `claim`, `turn`, `bind`, `bind_result`, `apply`, `bind_failed`, `interrupt_task` | `TaskService.execute`, `_apply_result` |
| `resume`, `resume_check`, `take`, `get_run`, `read_checkpoint`, `wait`, `claim_run`, `approval`, `claim_parked`, `approved`, `work`, `park`, `interrupt_run` | `TaskService.resume` and the loop's `resume_run`, in outline |
| `stop_task`, `stop_read`, `stop_run` | `pause`, `cancel`, `fail` with `_terminal` and `_transition_run` |
| `find`, `compare`, `reconcile` | `reconcile_run`, after an approval and, in `recover`, at start |
| `read_status`, `set_status`, `trigger_failed` | `SchedulerService._execute` after the task service returns |

`rest` in a frame is the list of triggers that `SchedulerService.recover` has
read and goes through one by one, with the statuses of the time it read them.
`finished` is a history variable: the tasks ever completed.

**`ModelClient`**: each worker is a thread at a label of `generate` and
`_generate_with_retry`; the breaker (`failures`, `opened`, `elapsed`) is shared.
`chain` and `saved` are `previous_response_id` in the loop's memory and in the
latest checkpoint. A response id is abstracted to who issued it and whether it is
of the latest answer. `sent`, `refused` and `load` are history variables: the
requests made for an answer, whether the breaker was seen open, and the requests
since it opened. Delays between attempts are not timed; `elapsed` counts ticks up
to `recovery_timeout_seconds`.

**`ContextWindow`**: `fit` as a function `Fit` of a conversation, built from the
operators named after its methods. An item has a kind, what it stands for, its
size and the size of its stub in tokens, and whether it is whole. The count of a
request is the sum of its items plus a fixed part (in the code it is the count of
one JSON text, which rounds slightly differently).

**`SessionHistory`**: one session, several runs. `messages` are rows by id, given
at the insertion, `visible` the committed ones: the two differ in Postgres. The
labels are the transactions of `build` and `compact` (`started` to `read_rest`)
and the turns of the loop (`turn` before `prepare`, `sent` after it). A summary is
the set of messages its text tells of, which is what `_extractive_summary`
computes; the field `left` (history) holds those it covers and leaves out.
A run fails (`Fail`), which a purge counts as over, and administrators recover failed
runs and cancel runs (`Recover`, `Cancel`). A purge is one step in SQLite; in
Postgres it is a step for each of its three statements and one for the commit
(`PurgeSummaries`, `PurgeMessages`, `PurgeCheckpoints`, `CommitPurge`). `lost` are the
runs whose checkpoints it has deleted; `reopened` (history) the runs recovered since
it began. A run fails only between two transactions of its turns, never inside a
build, and a paused or waiting run is not told from an interrupted one. `UseTools`
appends the calls of an answer without the text and thinking blocks that
`loop.py:291` appends beside them: they are dropped or kept like any other message.
`scene` picks the store and the bounds, so that one run of TLC covers both stores.

**`MCStores`** puts the four Postgres stores side by side: they share no table and
no transaction, so a behaviour chooses one of them (`table`) and the others rest.
**`MCAgentRuntime`, `MCTaskService`, `MCModelClient`, `MCSessionHistory`,
`MCMemoryStore`** give the constants of one module shapes for TLC. The proofs are
in `RunStoreProofs`, `ApprovalStoreProofs`, `PostgresProofs` (the four Postgres
modules), `ModelClientProofs`, `AgentRuntimeProofs`, `ConversationProofs` (on top of
it), `SessionHistoryProofs` (with `ContextWindow`) and `TaskServiceProofs`.

### Abstractions

Texts, prompts, skills, metadata and audit rows are left out; in `RunStore` the
history of a session is the number of answers of each run (`SessionHistory` has
the rows). `append_message`, which nothing calls, and the retrieval of memories,
which adds to the system prompt, are left out of `SessionHistory`; what a memory
says, its source and its confidence, and the ranking of retrieval, are left out of
`MemoryStore`; a crash inside
a transaction is the crash before it. A tool with its
canonical arguments is one value. Policy is a constant function of the call,
because it depends on configuration only; the second evaluation at resume may
differ (`Validity`), since skills and configuration can change while a run is
parked. Heartbeats during long calls are `RenewRun` before the call: what
matters is that a lease may expire before the worker writes again. A `live`
lease can expire at any moment, so slow and fast workers are both included.

## Runs

| Run | Question | Bounds and why they suffice |
|---|---|---|
| `store` | On several connections whose transactions interleave: does what a transaction has read hold when it writes, so that the store implements `RunStore` and `Inbox`; is every late write rejected in Postgres, can a ledger row be lost, is a repeated command applied twice; are requests decided once and spent once; is a statement shown once, does it stay deleted; is a lease exclusive? | Two connections: a read and a write crossed by one other transaction. Two runs that may both serve one message, one call, two texts, `MaxToken` 3: two changes of owner, so that there is an old, a current and a next one; two administrator operations. Two requests, people and card events: a repeated, a foreign and a crossed click. Three ids of memories: a statement and two corrections of it at once; two users, one of a tenant. Two queued runs and consumers, `MaxAttempts` 2. Symmetry over unordered sets. |
| `turn_crash` | What survives crashes at every step, and administrators? | One process started twice, a handler and a resume thread, batches of a plain, a protected and a denied call in either order, all faults, all four administrator operations, `MaxToken` 3. |
| `takeover` | What survives leases that expire under a live worker, also between the two transactions that record an outcome in SQLite? | Two processes, two starts each, a handler and an operator's `resume_run`, one message delivered repeatedly, all administrator operations, `MaxToken` 4. |
| `park_live` | Is every message answered, does every decision take effect? | One process, one handler, one resume task at a time, two protected calls. |
| `tasks_slots` | Do the slots of a recurring task follow each other through crashes? | One task, two cron slots, a process started twice, all faults and operations. One thread (`OneCaller`): with two, TLC finds the three properties of runs violated (known gaps). |
| `tasks_deps` | Is a task only run after its dependencies? | Two tasks, one depending on the other, two processes with a thread each, one slot and one manual trigger. |
| `model_calls` | Which ids cross when both providers issue them, as both adapters do; does an open breaker bound the load and close again? | Two workers on one breaker, two attempts, threshold 2, recovery after 2 ticks: a breaker that opens under a request in flight, and one that closes under another. |
| `context` | Do summaries and contexts keep every message, requests their budget, and purges the runs that are not over? | Six scenes: three runs and a crash on either store; two runs with messages of 2 or 7 tokens, two turns of one or two tools whose call or result is small or large, and a crash; three runs in SQLite with a cancellation and a purge; two runs on either store that may fail and be recovered, with a cancellation and a purge. Two messages (`Trigger` 4) are compacted to the last one (`Keep` 1); a request has 8 tokens, of which 1 is fixed; results are cut at 3: every branch of `fit` is taken. |
| `gap_*` | The four findings below | The smallest instance that shows each. |

What TLAPS proves and a reader can take from the proofs alone (the types of the
stores, `RunningIsOwned`, `WritersAreIssued`, `OneRunPerMessage`,
`CompletionIsAtomic`, `OwnershipNeedsNewToken`, `EndedRunsStayEnded`,
`CorrectionsKeepAudience`, `OnlyOutcomesComeLate`,
`OnlyRefusalsAreConsumed`, `LocksAreExclusive`, `BreakerIsConsistent`,
`FallbackIsLastResort`, `AttemptsAreReported`) is not a property of these runs;
`RuntimeTypeOK` and `TaskTypeOK` include `StoreTypeOK`. The SQLite stores have no
run of their own: their behaviours are those of `store` in which transactions do
not overlap, but for `complete_tool` and `fail_tool`, whose two transactions are steps
of `turn_crash` and `takeover`.

`CHECK_DEADLOCK FALSE` is set except in the runs of `ModelClient`: a system
whose messages are all answered rests, and bounds on tokens, starts, turns and
purges stop the rest.

`MaxToken` is a guard of `ClaimRun` and `AdminControlRun`, `MaxAttempts` of the
claim of a queued run, `Incarnation` a bound
on process starts, `MaxTurns` the code's own limit on model calls, and the fields
of a scene bound the messages, tool turns, crashes, cancellations and purges.

### Fairness (`FairSpec`)

Weak fairness of the work of each thread (threads are scheduled; model and tool
calls have timeouts), of the recovery tick of each process (the ping loop of
the gateway), of the passing of deadlines, and strong fairness of the start of
an offered resume task (the event loop starts every task it was given, whatever
else it starts in between). No fairness is assumed of users, crashes, restarts,
administrators or leases: a user may never click, and then the request expires.

In `ModelClient`, `Fairness` is weak fairness of the clock and of the work of
each worker: threads are scheduled and a request ends by its timeout. Nobody has
to ask; `BreakerRecovers` is therefore about breakers that some thread keeps
asking. The other modules have safety properties only.

## Findings

Each is a run that TLC must find violated; `PROJECT.json` quotes the lines.

1. `gap_uncertain`: a run with a call of unknown outcome is completed, where the
   architecture document says it is failed and reconciled by a person.
2. `gap_resume`: a late second resume task leaves the run `running` under a
   thread that has returned, and the next decision is never acted upon.
3. `gap_response_id`: when the answers of the fallback carry an id, as those of both
   adapters do, the next request to the primary carries it (`IdsStayWithProvider`).
4. `gap_forget`: in Postgres a correction that commits while its statement is being
   forgotten stays stored and visible, because the `DELETE` has its snapshot from
   before the commit; the service promises that no value of the chain is left.

### Known gaps

What the models show of the code beyond these, without a run of its own. The
passing runs leave the case out by the bounds named above, or the property names
the exception.

- SQLite: `complete_tool` and `fail_tool` (`sessions/store.py:602-634`) check the
  owner in autocommit and write in a later transaction that tests no token. A worker
  that is interrupted, taken over or cancelled in between still records its outcome,
  where `docs/session-runtime-architecture.md:16-18` says that recording a tool result
  must match owner and token and that the writes of an old worker are rejected: asked
  for `StaleWritersAreRejected` of the instance of `takeover`, TLC finds it violated.
  What is recorded late is the truth about the one execution there was
  (`OutcomesAreOfTheClaim`), and nothing else can come late (`OnlyOutcomesComeLate`).
- Postgres: the disposition of a tool locks the ledger row and then the run, a
  worker that records a result the run and then the row, so the two can deadlock;
  one is rolled back, and if it is the worker its call stays `running`. `decide`
  reads the clock before it waits for the row, so a click that came in time is
  accepted after the deadline.
- Queue: rows are fenced by `owner_id` alone, so a consumer cannot tell its claim
  from a later one of its own; an expired lease can still be acknowledged while
  nobody has claimed the row again.
- Loop: `resume_run` parks a run without presenting a token, so a thread that
  never owned it takes it out of `running`; claiming a run and reading the token
  of the claim are two transactions, so two threads of one process can write
  under the same token; the checkpoint is read before the claim and may be older
  than an executed call (the ledger keeps the call from being repeated). A late
  second resume task of an approval already completed claims the run again and
  saves the conversation of its continuation over newer checkpoints, so that a
  checkpoint need not have the results of all executed calls; what it has is true
  (`ResultsAreTrue`). An exception leaves the run `running` if it comes before the
  `try` of `_run_turn`, or in `resume`, which has none.
- Tasks: a failed run completes its task; `cancel` misses a run that is bound after it
  looked; a crash between its steps lets the task go on; a slot whose task is
  interrupted while it is dispatched is recorded as completed; a task whose turn
  failed before its run existed is interrupted without a run, and no operation takes
  it on; with two threads on one task the run it is bound to may be the one of another
  slot, two of its runs can be live at once and a live run can be dropped; the latter
  too, with one thread, when the run is taken from it by a process that starts while
  it carries out an approval, or when a failed run is recovered.
- Summaries: `compact` leaves the current run's messages out of the text but not
  out of the coverage, so its own question is lost from its context when
  `recent_message_limit` messages of other runs follow it (`left`); in Postgres a
  row committed after a higher id has been read is passed over for ever (`late`);
  `save_summary` of the slower of two builds raises outside the block that
  interrupts the run, which stays `running` until a process starts.
- Contexts: messages of other runs that arrive before the build follow the run's
  own, so that the message the budget protects can be theirs; with
  `recent_message_limit` 0 a run interrupted before its context is built resumes
  with an empty conversation.
- Retention: in Postgres a run that begins while a purge is between its statements
  reads messages that are being deleted, where `README.md:229` of the repository
  promises that the session of a live run is protected (its own messages are,
  `PurgeSparesLiveRuns`, unless it was recovered meanwhile: a failed run is over for
  the purge, an administrator who recovers it between the `DELETE` of the messages and
  the commit makes it live again, and its messages are deleted); a failed run whose
  latest checkpoint was purged can be recovered but not resumed; a summary that covers
  newer messages too keeps the text of purged ones.

## Proofs

TLAPS checks the following for every value of the constants. The assumptions are
named, and stated where the constants are declared: NULL is not a value, bounds are
numbers, identities are made of the sets they name (`RunStoreAssumption`,
`PostgresStoreAssumption`, `ApprovalStoreAssumption`, `MemoryStoreAssumption`,
`RunQueueAssumption`, `RuntimeAssumption`, where a batch is a sequence of different
calls, `TaskServiceAssumption`; `StoresAssumption` and `SessionsAssumption` say of the
constants of the loop and of the services what the stores assume); at least one
attempt, a positive threshold, finitely many threads (`ModelClientAssumption`); sizes
and limits are positive and the fixed part of a request is within the budget
(`WindowAssumption`, `HistoryAssumption`).

- `StoreSpec` keeps `StoreTypeOK`, `RunningIsOwned`, `WritersAreIssued`,
  `OneRunPerMessage` and `CompletionIsAtomic`, satisfies the action properties
  `OwnershipNeedsNewToken`, `OnlyOutcomesComeLate`, `LedgerNeverForgets` and
  `EndedRunsStayEnded`, and implements `Inbox`. `OnlyOutcomesComeLate` is what SQLite
  keeps of `StaleWritersAreRejected`: all that a worker without its run can still write
  is the outcome of a call that has none.
- `ApprovalSpec` keeps `ApprovalTypeOK`, `ExecutionNeedsDecision`,
  `DecidedByOneEvent` and `OnlyRefusalsAreConsumed`, and implements `Consent`.
- `PgSpec` keeps `LocksAreExclusive`, `ReadsStayTrue` and `DispositionsAreAudited`,
  satisfies `StaleWritersAreRejected`, because `AssertOwner` locks the run to the end,
  and implements `StoreSpec`, so that the results of the first item hold of it too.
- `PgApprovalSpec` keeps `ExecutionNeedsDecision` and `DecidedByOneEvent` and
  implements `Consent`. It does not implement `ApprovalSpec`: see `decide` above.
- `MemorySpec` keeps `CorrectionsKeepAudience`, `OneVersionIsShown` and
  `ForgottenVersionsAreGone`.
- `QueueSpec` keeps `ClaimsAreExclusive`.
- `Spec` of `AgentRuntime` keeps `RuntimeTypeOK`, `AtMostOneEffect`,
  `EffectNeedsConsent` and `CompletedConsentIsInLedger`, satisfies
  `OutcomesAreOfTheClaim`, and implements `StoreSpec` and `ApprovalSpec`. The first
  two items therefore hold of the stores under the loop: it implements `Inbox` and
  `Consent`, lets late workers write nothing but outcomes and keeps ended runs ended.
  `FairSpec` implies `Spec`.
- It also keeps `CheckpointIsCoherent`, `RequestIsCoherent` and `ResultsAreTrue`
  (`ConversationProofs`), and `RunningRunsAreServed` if no tool needs approval and
  contexts can be built (`RunsUnattended`). Without the first condition a late
  resume leaves its run running (`gap_resume`), without the second a new run whose
  context raises stays running; TLC shows both.
- `Safe` of `ModelClient` keeps `ModelTypeOK`, `BreakerIsConsistent`,
  `AttemptsAreReported`, `FallbackIsLastResort`, `OpenBreakerBoundsLoad` and
  `OnlyFallbackIdsCross`, whoever issues ids.
- `Spec` of `SessionHistory` keeps `HistoryTypeOK`, `SummariesAdvance`,
  `SummaryIsFaithful`, `PairsStayTogether` and `OverflowIsLastResort` and satisfies
  `ContextIsComplete`, `PurgeSparesLiveRuns` and `TrimmingIsMaximal`: all that the run
  `context` checks, for any number of runs and messages, any budget and any sizes.
- `Spec` of `TaskService` keeps `TaskTypeOK` and `DependenciesComeFirst` and
  implements `StoreSpec`, hence `Inbox`, and lets late workers write nothing but
  outcomes and keeps ended runs ended. For any number of threads, processes, tasks,
  triggers, crashes and faults, with expired leases and administrators who pause and
  cancel runs (`NoRecovery`), it keeps `BoundRunAnswersTrigger` and `OneRunAtATime`
  and satisfies `NoLiveRunIsDropped` in the behaviours that are always `Undisturbed`:
  no two threads work on one task at a time (`TasksApart`), and a thread that carries
  out an approval owns the run meanwhile (`OwnsParked`). The conditions are of the
  environment and are needed: the services lock nothing between their steps and ignore
  transitions that fail. With two threads on one task TLC finds all three violated.
  With threads apart it finds `NoLiveRunIsDropped` violated without `OwnsParked`: the
  lease of a thread runs out while it carries out an approval whose outcome is
  uncertain, a process that starts interrupts the run, `failed` is not recorded for
  want of the token, and `resume` completes the task all the same, so that the next
  slot drops a run that is only interrupted. And it finds it violated without
  `NoRecovery`: a failed run has completed its task, and an administrator sets it
  going again. A thread that is alone, without administrators (`OneCaller`), is
  undisturbed in every behaviour; that is the instance of `tasks_slots`.

### Inductive invariants

**Stores.** The inductive invariant of the store is `StoreInv`: the checked invariants
and `NothingBeforeBegin` (a run without a row has no token, answers or recorded
writers), without which a `BeginInbound` could restart the tokens of a run below those
of its checkpoints, or a message could be answered before it was accepted. The one of
the approval store adds `NothingDecidedBeforeCreate` for the same reason: `Ask` must
not find events that decided a request not yet made. `PgInv` adds to `StoreInv` the
types of open transactions, that no two of them hold the same lock, and
`ReadsStayTrue`: what a transaction relies on is still so. That is kept because every
write that could make a read of another transaction false needs a lock that this
transaction holds; with it each commit satisfies the guard of an action of `RunStore`,
which is the refinement. `PgApprovalInv` is built in the same way from `ApprovalInv`.
`MemoryInv` says that ids are fresh, that the versions of a chain agree on subject and
audience and an open correction with the version it has read, that a chain has at most
one live version, and that a deletion knows what it has found. For the queue the
property itself is inductive.

**Model client.** `CallsOK`: at each label of a call, the attempts
counted so far, the requests sent and the provider they go to agree, from which
the report of an answer and the order of providers follow. `IdsOK` says the same
of the ids held by requests, memory and checkpoints. `LoadInv` is about an open
breaker: what it has let through and the requests its admitted threads may still
make are together within the bound. Those requests are a set of pairs of thread and
attempt (`Outstanding`), so that they can be counted with the theorems about
cardinality; a request takes its pair out of the set, and no step puts one in while
the breaker is open, because a thread that finds it open is refused.

**Loop.** The inductive invariant is `RuntimeInv`. Its first half, `BaseInv`, is
the invariant of both stores and what ties threads to them: a run that exists has a
token and a checkpoint, a checkpoint that waits for an approval names a request that
exists, a request that exists is for a protected call and holds a continuation, and
`FramesFit`, which says at each label what the locals of a thread have to do with
the rows it has read. The point of `FrameFits` is that no other thread can make it
false: it speaks only of what the stores never take back (a row that exists, a
request that is spent, an outcome that is known), so a step of one thread has to
be examined for that thread alone. The second half, `EffectInv`, is what the
properties need. A thread at the effect is alone with its call and nobody was there
before (`ExecutorsAreAlone`): `ClaimTool` inserted the row, and a row is inserted
once. A call in the ledger was allowed or its request is spent
(`LedgerNeedsConsent`), and a request is spent by one executor, so that a thread
which will execute a confirmed call finds no row. Each lemma about an action proves
that the step keeps `RuntimeInv` and is a step of each store or leaves it alone
(`SoundStep`); the second part lets the lemmas about the stores be used in the first,
and is the refinement.

**Conversations.** `TalkInv` says the same of the message lists in frames, checkpoints
and continuations: exactly the calls still to be run lack a result (`Coherent`), every
call in them was asked for, and every result rests on something that only grows
(`World`): the outcome in the ledger, or the certainty that the call will not be run
(`WillNotRun`). So an old continuation or checkpoint stays true whatever has happened
since. A refusal is certain although its request was confirmed: the executor that took
it and turned away is the only one who could. Of the answers "failed" and "uncertain"
nothing is claimed: when an administrator has resolved the call meanwhile, the
worker's own failure is what the model is told. "uncertain" stands for every answer
that is neither an output, a failure nor a refusal, also the `executed: false` of
`loop.py:881-884` for a failed request whose outcome could not be recorded.

**Serving.** `ServedInv` names the labels at which a thread has a run under the
present token, or is about to learn it, and at which its exceptions interrupt the
run. A run loses its thread only by a step of that thread, which then ends or
interrupts it, or with the process.

**History.** `HistoryInv` ties the tables to what builds and purges have read. What a
build holds stays true while others write because ids only grow, a row that comes late
is marked, and nothing is deleted that a run which is not over still needs; a batch of
old rows leaves nothing out before its last row, and what a purge has found is of runs
that are over or were recovered since it began. `ConversationInv` is about what builds
have made of the rows. Its part `TalksArePaired` says that in every conversation and
checkpoint items are well formed, their stubs too, calls and results come in pairs and
there is at most one summary. That is kept because the sets from which `fit` chooses
are closed under `Related`, so the chosen items are, and a cut changes neither kind
nor id nor stub. For the sizes of the items it needs `RowsAreSingle` (a run has at
most one row of each role), `SummariesSpeak` (no summary tells of nothing, so its text
is not empty) and the ranges of the counters.

`OverflowIsLastResort` and `TrimmingIsMaximal` follow from this shape alone.
`FitSelects` says what `fit` did with a conversation: the items within the limit, the
summary halved or not, and a set `S` which either fits or is the latest interaction,
while nothing outside it fitted beside some part of it. So `S` together with a dropped
pair exceeds the budget; and if `S` does not fit, its stubs do whenever they can,
because `_shrink_mandatory` leaves every item at the size of its stub or stops when
the request fits. The sums of sizes (`Tokens`) are a recursion of the library over
sets. `SumPicks` unfolds it once, and from that it is shown that a sum is the same in
any order, adds over disjoint sets, grows with the set and with the sizes, and moves
along a bijection. These, the halvings and `Select`, which is a recursive function
too, are treated by a least counterexample (`WFMin`), as the library's induction
theorems cannot be applied.

**Tasks.** `ServiceInv` is the store's invariant and, in the manner of `FrameFits`,
what the locals of a thread have to do with `finished`, the tasks ever completed,
which only grows: whoever begins a run has seen the dependencies of the task completed
(`Prepared`), and so had whoever bound the task to the run that is resumed.
`CallerInv` adds, for threads apart, that a live run is the one its task is bound to
or the task is not bound, that a task has at most one live run, and, label by label,
how the rows of the frame's task, trigger and run fit together (`CallerFits`). A step
keeps this for its own thread action by action; it keeps it for every other thread
because it writes only the row of its task, its run or a new run for its trigger
(`WritesOwn`), and `CallerFits` of another thread speaks only of its own
(`FrameKept`). Clocks, restarts and administrators move runs in ways that every frame
stands (`Tame`).

The proof that steps keep an invariant has one lemma per action and one step
per conjunct that the action disturbs; the action properties and the refinements
follow from the invariant by the same split of the next-state relation.

### Only model-checked

- All liveness (`EveryMessageIsAnswered`, `DecisionsTakeEffect`, `EveryAskEnds`,
  `BreakerRecovers`): TLAPS proves neither liveness under fairness nor ENABLED.
- The properties of `gap_*`, which are false.

Every other property of a run is a theorem of the specification that the run checks,
under the conditions named above, and of the specifications it is composed of.

## Plan

Done: the stores in SQLite (`RunStore`, `ApprovalStore`) and Postgres
(`PostgresStore`, `PostgresApprovals`, `MemoryStore`, `RunQueue`) with their
abstractions and proofs; `AgentRuntime` with the refinement of the stores, its
effects, its conversations and its service of runs proved; `TaskGraph` and
`TaskService` with their use of the store, the order of dependencies and the
bindings of threads apart proved; `ModelClient` with proofs; `ContextWindow` and
`SessionHistory` with the proofs about summaries, contexts, purges and trimming.
Next, in this order:

1. The gateway's own bookkeeping: cards, acknowledgements and reconnects, of
   which `AgentRuntime` has what reaches the loop.
2. The queries of the administration and the export of the audit.

## Left out

MCP clients, hooks, provider adapters, websocket and media handling are I/O;
settings, logging and tracing hold no state the rest depends on; retrieval of
memories ranks texts; skills select
prompts and tools, which the model takes as `Policy`; migrations run once under
a lock. The reasons are per component in `PROJECT.json`.
