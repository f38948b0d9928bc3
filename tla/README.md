# Lilith: specifications, model checks and proofs

Lilith is a Python monorepo (`src/`, six packages) around a language-model
agent for the terminal. Most of it renders, parses and calls other services.
Its own hard logic is the machinery that lets several processes work off
missions without a person watching: a task store in SQLite with leases, daemons
that claim and execute missions, delegation of work to external collaborators
with durable references, a circuit breaker the processes share, conversations
that outlive their process, and the queue, the guarded run and the goal files
around them. This project models that machinery in TLA+, checks it with TLC on small instances
and proves its central invariants with TLAPS for every value of the constants.

Contents: [inventory](#1-inventory) · [plan](#2-plan) ·
[modules](#3-the-modules-and-the-code) · [runs](#4-the-runs) ·
[bounds](#5-bounds-and-why-they-are-enough) · [fairness](#6-fairness) ·
[proofs](#7-proofs) · [where code and words differ](#8-where-the-code-and-its-words-differ) ·
[not modelled](#9-what-is-not-modelled)

To run: `tlc -config X.cfg M` for the module `M` that section 4 names next to
`X.cfg`, `tlapm M.tla` for the modules whose name ends in `Proofs`.
`PROJECT.json` lists components, runs, mutants, the map from definitions to
source lines, hazards and theorems.

## 1. Inventory

### 1.1 Parts that keep state others depend on

| Part (source) | State | Operations | Who interacts | Hard behaviours | What makes it correct |
|---|---|---|---|---|---|
| **Task store**, `lilith_tools/orchestration_sqlite.py` | SQLite tables of tasks, leases, checkpoints, post-mortems, events, idempotency keys | add, update, claim, renew, release, checkpoint, cancel, resume_expired, clear, import of a legacy snapshot | every Lilith process; each operation is one `BEGIN IMMEDIATE` transaction | expiry judged with a clock read before the wait for the lock; the lease kept twice (row and payload); operations that ask for no owner | a live lease never changes hands; both copies agree; finished tasks hold no lease; a key names one task; statuses move along the table |
| **Campaign runtime**, `lilith_cli/mission/runtime.py`, `kernel.py`, `campaign.py` | per daemon: current mission, heartbeat, calls in flight, budgets; in the store: missions and their lineage | recover, choose, claim, count, execute, heartbeat, complete, chain, repair, reconcile, release | the store; the session (an agent) in the same event loop; the operator; other daemons | heartbeat against completion, late daemons, calls that outlive their session, crashes that lose what is in flight, retry and repair limits, descendants | one executor; the holder keeps its lease; effects nobody saw stop the retries; attempts and repairs bounded; every mission settles |
| **Provider circuit breaker**, `lilith_cli/provider_health.py` | one row per provider: state, failures, until | allow, record_success, record_failure, reset | every call of every process | reports of calls admitted before the state changed; probes that never report | one probe at a time; cooldown respected; no outage longer than a cooldown |
| **Provider clients**, `lilith_cli/providers.py` | the requests of a call: how many were sent, whether output was handed on | complete, stream, the Fabric's request; retry, report | the breaker, once before and once after; the session | a stream that breaks in its middle; retries to a provider whose circuit has opened | output of one request only; requests bounded |
| **CLI collaborator delegation**, `lilith_tools/cli_delegate.py`, `cli_job_journal.py` | tables of attempts and request ids | reserve, begin, finish, lookup, recent | agents' tool calls, the operator's wrapper, Court dispatch | a job that outlives its observer; retries with the same id; death between reservation and observation | one job per id; intent saved before launch; success only if the job succeeded |
| **Court dispatch**, `lilith_cli/mission/dispatch.py`, with **aggregate budgets**, `budget_guard.py` | none of its own: the store's tasks, post-mortems and cost events, the CLI journal | check, dispatch, _execute_route, _finalize | broker, store, CLI delegation, Fabric (a provider) | look-up and insertion in two transactions; several dispatches finalize one task; a budget that is read and not reserved | work once per key; intent first; success true and lasting; the budget's overrun bounded; every dispatch settles |
| **Agent session**, `lilith_cli/agent.py`, `work_session.py` | history, pending tools, receipts of writes and a delegation namespace in memory; the saved conversation | ask, declare, execute, collect, interrupt, checkpoint, pause, resume | the model, tools in threads, the file, CLI delegation | effects without a result, threads that outlive their timeout, histories cut and resumed, failed saves | every request is well formed; no effect forgotten; one identity per delegation; foreign edits kept; every turn ends |
| **Long-run supervisor**, `lilith_cli/longrun/` | contract, consumed, state and control files, a journal (JSONL) | supervise (a loop over legs), append, compact | a subprocess per leg, the operator's control file | crash between leg and accounting; torn journal lines; parking on quota; same failure twice; orphaned legs | budgets bound the legs over restarts; the files agree; a verdict is final; the supervisor returns |
| **Bus and work queue**, `lilith_core/bus.py`, `lilith_cli/ops_queue.py` | table of messages with claimer and delivery | publish, poll, claim, ack, release; workers, cancellation | several workers and the operator | claims without a lease, by name; failed work is claimed again first; the workers' own announcements on the same bus | done once or cancelled, never both; every task settles if failures end |
| **Goal state**, `lilith_core/goal_state.py`, `persistence_lock.py`, `lilith_skills/cross_context.py` | a JSON file with a revision per goal; a copy per process | create, update, record, gates, todos, delete, export, import | several processes, two libraries | optimistic revisions under a file lock; memory changed before the lock | no saved change is lost to a stale copy; a refused one does not come back |

### 1.2 How they interact

```
 operator ----------------------------------------------------+
    | register, cancel, unblock, recover                      |
    v                                                         v
 MissionKernel --> task store (SQLite)     bus/queue --> workers --> agents
                    ^   ^   ^              supervisor --> legs (sessions)
       claim/renew  |   |   +--- CourtDispatcher --> CLI journal --> wrapper --> job
       release      |   |             |
 campaign daemon ---+   |             +--> Fabric --> provider calls --> circuit breaker
    |  session (agent) -+ mission_complete, tools
    +--> heartbeat (same process, between the session's steps)
```

Shared state is always a database or file: there are no messages between the
parts other than the bus. Within a process the concurrency is an event loop
with tool calls in threads (`agent.py:1575` gathers the calls of a turn).

### 1.3 Parts without a protocol of their own

Listed with the reason in `PROJECT.json`: the task router (called for an
evaluation only), the mission inbox (read-modify-write of data the models leave
out), mission compilation, court,
compute and authority (stateless choices, left open in the models), learning,
presentation and desktop, terminal, IDE and web interfaces, task workspace,
background processes, the JSON backend, the tool library and tool router,
governance, core utilities, memory, the workflow engine, skills and cards.

## 2. Plan

The order followed what everything else relies on:

1. `OrchestrationStore`, with proofs.
2. `CampaignRuntime` over it: races, limits, liveness.
3. `ProviderHealth`, with proofs, and `ProviderCalls`, which is proved to
   implement it.
4. `CliDelegate`, with the abstract specification `AtMostOnce` and a proof that
   it is implemented.
5. `CourtDispatch`, which composes 1 and 4, with proofs that carry over theirs.
6. `WorkSession`: the conversation over its processes.
7. `LilithBus`, and `OpsQueue` on it.
8. `LongrunSupervisor`: legs, budgets, parking, deaths between any two writes.
9. `GoalState`: two processes, one file, revisions and a lock.

These are modelled and checked, and every invariant and action property that a
passing run checks is proved (section 7). What TLC alone shows is that things
eventually happen. What could be modelled next is in section 9.

## 3. The modules and the code

`PROJECT.json` "map" names the lines of every definition. Names are the code's
where TLA+ allows it; statuses and labels keep the code's Spanish.

### 3.1 `OrchestrationStore` (+ `MCOrchestrationStore`, `OrchestrationStoreProofs`)

| TLA+ | Code |
|---|---|
| `tasks[t]` | row of `tasks`: status, idempotency key, attempts, and the lease fields inside the payload |
| `leases[t]` | row of `task_leases` |
| `checkpoints[t]` | labels in `task_checkpoints` |
| `clock`, `Stamps` | `time.time()`, and the readings of it a transaction may run with |
| `AddTask`, `UpdateTask`, `SetAttempts`, `CancelTask` | `add_task`, `update_task` with and without status, `cancel_task` |
| `ClaimTask`, `RenewLease`, `ReleaseTask`, `CheckpointTask`, `ResumeExpired`, `ClearStore` | the methods of the same names |
| `StoreInit` | an empty store, or the one-time import of the JSON snapshot |

One operation is one transaction and one action. What is outside the
transaction is the clock: `claim_task`, `renew_lease` and `resume_expired` read
it, then wait up to `busy_timeout` for the lock. `LockWait` is how old the
reading may be. An operation that the code refuses has a guard; refusals
change nothing. Left out: plan, costs, events and the revision counter, which
the same transactions write and no operation reads to decide, and the metadata
with which `update_task` could write a lease into a payload without a row
(`orchestration_sqlite.py:428`): its callers are the JSON backend's own lease
operations (`orchestration_state.py:328-360`), which has no rows.

### 3.2 `CampaignRuntime` (+ `MCCampaignRuntime`, `CampaignRuntimeProofs`)

EXTENDS the store: daemons are its owners, missions its tasks. `run[w]` is the
volatile state of a daemon with a program counter; each store call of
`run_async`, `_execute` and `_reconcile` is an action, so calls of other
daemons, of the operator, and time pass between them.

| TLA+ | Code |
|---|---|
| `Start`, `Choose`, `Claim`, `ClaimRefused`, `Finish`, `NextMission` | the loop of `run_async`: `resume_expired`, `next_eligible`, `claim_task`, the end of a run |
| `CountAttempt`, `Begin` | attempts counted at the claim; the claim checkpoint; the budget that may end the execution before it begins |
| `Heartbeat`, `JudgeRefusal` | `_heartbeat`: renewal every third of the lease; a refusal is looked into before the session is cancelled |
| `StartMutation`, `FinishMutation` | events of the stream that begin and settle a mutating tool call |
| `Complete`, `Chain` | `MissionKernel.complete`, `CampaignEngine.chain` and `repair_failed`, each registration a step |
| `AddDescendant`, `AddChild` | one registration: the repair, or a follow-up under any name; what is named like a repair gets one more `repair_depth` |
| `EndSession`, `CloseHeartbeat` | every way the stream ends; the `finally` clause |
| `LeftBehind`, `CompleteLate`, `ChainLate` | a `mission_complete` whose thread goes on after its session (`agent.py:1113` waits for a thread with a timeout, and a timeout or cancellation leaves it running) |
| `Verdict`, `Reconcile`, `ReconcileNothing`, `Release`, `ReleaseRefused` | `_reconcile`: effects unknown, budget, retries, in this order; checkpoint, then release |
| `Crash` | the process dies, or an exception leaves `run_async` with the lease held |
| `Register`, `OperatorCancel`, `OperatorUnblock`, `Recover` | registration without open questions and the operator's commands |

`lineage` is the metadata of the mission. `late` is the call that outlived its
session, at most one at a time. `dirty`, `begun` and `slow` are history
variables: effects whose result nobody saw, sessions begun since the
operator last let the mission run, and whether a daemon has let the lease of a
mission it holds expire. `Mutating` and `Leaving` say whose sessions call
mutating tools or leave calls behind, `Earlier` in which order the opaque ids
are used: they bound the runs, and the proofs hold for any. Two remarks on identity. A daemon that
restarts has the same owner in the model and a new uuid in the code; this gives
the model's daemon more (it could renew a lease of its former life), and the
properties hold with that. Missions have no idempotency key in the model,
because the code derives it from the id.

`Prompt` is the set of daemons that renew, or get to the release, before their
lease expires. The code tries to see to this with a heartbeat every third of
the lease; a blocked event loop, or a store that stays locked (the heartbeat
does not catch `sqlite3.OperationalError`), makes a daemon not prompt. In
`campaign_race` only one of the two is: what is checked is that the other one's
lateness does not harm it.

### 3.3 `ProviderHealth`, `ProviderCalls` (+ `MCProviderCalls`, `ProviderProofs`)

`circuit` is the provider's row, `calls[c]` what a caller has in flight.
`AllowNormal`, `AllowProbe`, `Bypass`, `Succeed`, `Fail`, `Abandon` and
`ResetProvider` are `allow` (admitted by a closed circuit, as the probe, or with
`bypass_circuit`), `record_success`, `record_failure`, a call that reports
nothing, and `reset`. A report acts on the row as it is when the report
arrives, which may be long after the admission: that is where the properties
could break. `opened` is a history variable, the time the failure that opened
the circuit was recorded.

`ProviderCalls` adds the requests of each call: `sent` is the attempt's number,
`shown` the attempts whose chunks the caller has (`first_chunk_emitted`).
`Begin` asks the circuit and sends the first request; `Chunk` is a `yield` of
`stream`; `Resend` a transient failure with a retry left, after its delay;
`Answer`, `GiveUp`, `Refused` and `Drop` are the ends of a call, of which the
first three report. `complete` hands everything over at its end, `stream` in
chunks (the Anthropic fallback is a `complete`), and the Fabric gets one request,
whose failure is never permanent. `ProviderHealth` is its abstract
specification: a chunk or a retry changes nothing there.

### 3.4 `AtMostOnce`, `CliDelegate` (+ `MCCliDelegate`, `DispatchProofs`)

`AtMostOnce` says what a request id promises: its work is taken, started and
settled, each at most once, and a verdict is never revised. `CliDelegate` is
`_run_tracked`: `Reserve`, `Repeat`, `Reject`, `Unavailable` are the outcomes of
`_journal_reserve`; `Launch`, `LaunchFails`, `Observe` the wrapper and its
timeout; `Finish`, `FinishFails` the observation saved. `CallerDies` may happen
anywhere. `workers` are the jobs, which end when they like; `launches` counts
them. `begin`, the call without a request id, is `Reserve` with `NoRequest`.
The refinement mapping (`Phase`, `Verdict`) reads the two tables and the count
of launches. The condition `observation IS NULL` of `finish` is a second line
of defence: `OneWriter` shows that it never decides anything.

### 3.5 `CourtDispatch` (+ `MCCourtDispatch`, `DispatchProofs`)

EXTENDS the store and `CliDelegate`; the dispatch key is a key of the one and a
request id of the other.

| TLA+ | Code |
|---|---|
| `spent`, `Reached`, `Check` | the day's `cost.recorded` events and `AggregateBudgetGuard.check` over them |
| `Look`, `Intend` | the snapshot and `add_task`, two transactions |
| `ExecuteCli`, `RunCli`, `CollectCli` | `_execute_route` through a call of `CliDelegate` |
| `ExecuteFabric`, `FabricReturns` | `_fabric_delegate`; a response may come with its usage |
| `RecordCost`, `PostMortem`, `Settle` | `_finalize`, three transactions |
| `DispatchDies` | death in the middle, or a store that cannot be written, for callers in `Mortal` |

`Routes` gives each key the adapters the broker may choose for its agent.
`postmortems` keeps only which tasks have one of success. `told` records the
successes that were reported, `fabric` and `fabricDone` the executions of
Fabric. One limit, `DailyMaxCalls`, stands for those on calls, tokens and money,
of the day, the campaign and the provider: each compares a sum over the same
events with a number. The day does not end in the model.

### 3.6 `WorkSession` (+ `WorkSessionProofs`)

One conversation and the processes that carry it on, one at a time.

| TLA+ | Code |
|---|---|
| `history`, `Request`, `Repaired` | `session.history`; what `_build_messages` cuts and repairs before each request |
| `Ask`, `Answer`, `AskTools`, `TellNote`, `Declare`, `Collect` | the streaming turn loop and its events, each of which `track_stream` may save |
| `Execute`, `Write`, `Delegate`, `Refuse`, `Return`, `Timeout`, `ThreadEnds` | `execute_tool`: receipts, namespace, threads, retries |
| `Tell`, `Done`, `EndTurn`, `SaveOrFail`, `Snapshot` | the checkpoints, before and after a tool and at the end, and the saves that may fail |
| `Start`, `Resume`, `Leave`, `Interrupt`, `Crash` | `lilith task`, the console and the plain REPL; `restore_session`; pause, cancellation, kill |

`mode` tells the saga, the console and the plain REPL apart, which save at
different points. The repair drops messages and keeps the others in their order:
`Nth` numbers the positions that stay. `succeeded`, `owed`, `restored` and `launched` are history
variables. Modelled is the streaming path; the path without streaming makes the
same calls without checkpoints.

### 3.7 `LilithBus`, `OpsQueue` (+ `MCOpsQueue`, `OpsQueueProofs`)

`messages` is the table; `Publish`, `ClaimAny`, `ClaimById`, `Ack` and `Release`
are single SQL statements and single actions. `OpsQueue` EXTENDS the bus: `Add`
and the two steps of `queue cancel`; `Claim`, `Reject`, `Begin`, `End`, `Finish`
of a watching worker, between which it may die; the announcements of
`run_spawn`, which enter the same table when the agent's card has the role the
workers ask for. Ownership is by name, and names are what the operator typed:
in the run all of them are equal.

### 3.8 `LongrunSupervisor` (+ `LongrunSupervisorProofs`)

`state`, `consumed` and their files, the journal, and `pc` in `supervise`, one
action between two writes. `Top`, `Sleep`, `Unpark`, `Check`, `Inspect`, `Drop`
are the guards before a leg, `Launch` and `LegEnds` are `run_leg` with
`classify`, `SaveConsumed`, `Log`, `Decide`, `Announce` what follows it. `Crash`
may leave a torn line (`Appended` joins the next one to it) and a leg without a
supervisor (`Orphan`), which may share its session with the next leg. Time is
counted in parking chunks; the budgets of tokens and money are one flag. One
supervisor at a time: the code takes no lock.

### 3.9 `GoalState` (+ `MCGoalState`, `GoalStateProofs`)

`memory[p]` is what one process has of the goal, `file` the JSON document. A
change is made to the copy (`Begin`), then `Lock` or `LockTimeout`, `Look`,
`Compare`, `Write` or `WriteFails`; `found[p]` is the file as `_save_locked`
read it. `Delete` takes no file lock and may fall between any two of these.
`family` is the library: `goal_state.py` replaces a refused copy by the file,
`GoalsStore` of `cross_context.py` leaves it to its caller (`KeptCopy`), and deletes
by id whether or not anybody has a copy (`DeleteById`).

## 4. The runs

Every property of a passing run has a mutant, a plausible slip in one of the
mapped definitions, that TLC finds to violate it (definitions marked "Mutant"
in the modules). States are distinct states.

| Run | Module, configuration | What it asks | Result |
|---|---|---|---|
| `store` | `MCOrchestrationStore`, same | any interleaving of the operations by two owners on two tasks with old clock readings and imported snapshots | 75 thousand states; all hold |
| `campaign_race` | `MCCampaignRuntime`, `MCCampaignRace` | two daemons, one of them arbitrarily slow and leaving calls behind, old clock readings, one crash, one mission retried once, the operator | 1.1 million states; the prompt daemon keeps its lease, late calls end no lease of a successor, one session per mission until a daemon is slow, no mission is blocked without a reason |
| `campaign_solo` | `…`, `MCCampaignSolo` | one daemon, a mission with a follow-up or repair, mutations, calls left behind, retries, an operator who unblocks | 411 thousand states (up to symmetry); effects unknown stop the retries, attempts are bounded |
| `campaign_live` | `…`, `MCCampaignLive` | one prompt daemon, three missions of a lineage under any names, one retry each, a crash, the operator, with fairness | 411 thousand states; repairs bounded, every mission settles that is not stranded |
| `campaign_crash` | `…`, `MCCampaignCrash` | does "effects unknown" survive a crash? | violated, see 8 |
| `health` | `MCProviderCalls`, same | three callers, of the Fabric or of a provider with one retry; streams, late reports, old clock readings, threshold 2 | 770 thousand states; all hold |
| `cli_delegate` | `MCCliDelegate`, same | two callers, one id, two intents, three references; deaths and retries | 241 thousand states; all hold, `AtMostOnce` is implemented |
| `dispatch` | `MCCourtDispatch`, same | two callers, two keys (one on either route, one on Fabric only), one call left in the budget; one caller may die, the operator may cancel | 820 thousand states; intent first, success true and lasting, the overrun bounded, every surviving dispatch settles |
| `session` | `WorkSession`, `MCWorkSession` | a conversation over several processes: parallel and serial tools, timeouts, failed saves, pauses, interruptions, a kill | 608 thousand states; requests valid, effects accounted for, one identity per delegation, foreign edits kept, every turn ends |
| `ops_queue` | `MCOpsQueue`, same | two workers and a panel of one name, three tasks, failures, a death | 46 thousand states; one outcome per task, every task settles |
| `longrun` | `LongrunSupervisor`, `MCLongrunSupervisor` | two legs, two causes of failure, parking, an open circuit, a request to stop and a death at any step | 591 thousand states; legs bounded, files agree, verdict final, the supervisor returns |
| `goals` | `MCGoalState`, same | two processes, three changes, either library; timeouts, failed writes, deletion, handoffs, a death | 436 thousand states; no lost update, nothing refused comes back |

Deadlock is checked except where the system comes to an end: dispatches settle,
a conversation, a run and a queue are over at their bounds. In the others time
or the operator can always move.

What the properties mean, beyond their comments in the modules:

* `LiveLeaseKeepsOwner` and `LiveLeaseEnds`. The store never moves a live lease
  by itself, and on top of it the daemons end a live lease only by their own
  release or with the mission's end. With `HolderKeepsLease`,
  which says it for a prompt daemon from its claim to the end of its mission,
  this is mutual exclusion as the daemons experience it; `OneExecutor` is what
  the reader expects, and holds until a daemon has been slower than its
  lease. After that it does not: the slow one's late release may let a mission
  run again that was finished under another session.
* `RepairsBounded` is about what is worked on, not about what is registered.
  `chain()` adds one to the depth of whatever is named "Repair failed mission:"
  (`campaign.py:131`), the follow-ups of a completed mission included, and asks
  no limit: missions beyond it exist. They do not run because `_eligible` takes a mission
  with a depth for a repair, whose parent has to be failed, and the parent of a
  follow-up is completed for good. The mutant `EligibleByKind`, which would let
  follow-ups of repairs run, breaks the property.
* `EveryMissionSettles` covers roots, follow-ups and repairs, with one retry each and
  a crash. It excepts what the code strands (`Stranded`): a follow-up with a
  depth, whose parent is completed, and a repair whose parent did not stay
  failed, since the operator let it run again or cancelled it.
* `BlockedHasReason` holds because the reason is checkpointed before the
  release. Its mutant leaves the checkpoint out.
* `SuccessSound` is not obvious: a dispatch that lost the race to launch
  settles the shared task as `fallida` while the winner works. The winner's own
  success is then refused by the transition table and reported as a failure,
  so no reported success is taken back, but work may have been done for a task
  that stays `fallida`.
* `OverrunBounded` is what remains of a limit that is checked and not reserved: it
  counts the dispatches between their check and their event with the events. Two
  keys are needed to break it, since a key that has a task is not executed again.
* `EveryDispatchSettles` fails for a dispatch whose process dies: its task is
  `delegada` without a lease, which `resume_expired` never touches.
* `OneDelegationIdentity` is what `CliDelegate` takes for granted: it runs a
  request id once, and the session sees to it that what is asked for again has
  the same id in the next process.
* `OneOutcome` holds whatever the names are, because a claim is never taken
  back: a worker that dies keeps its message for ever. `EveryTaskSettles` says
  so with its exceptions.
* `LegsBounded` and `RecordKept` count what each death of the supervisor may
  cost. They are tight: the code loses a leg's cost when it dies between the
  leg and `consumed.json`, and an entry to a torn line.

## 5. Bounds, and why they are enough

* **Clock** (`MaxTime` 2 to 8, lease 2, `LockWait` 0 or 1). Expiry compares two
  instants, so a lease of two ticks has the cases live, last moment, expired;
  with `LockWait` 1 an operation may run just after the lease it judged live
  has expired. Three ticks fit a lease, its expiry and a successor's lease.
  Seven ticks of `health` fit two openings with cooldown 3 and a probe.
  `LockWait < LeaseSeconds` is an assumption of the campaign wherever a daemon is
  taken to be prompt. It holds in the code's defaults (15 s or less against
  180 s); with the shortest lease the code accepts they may be equal, which is
  outside what is checked and proved.
* **Actors**: two daemons, owners or dispatchers. Every race here is between one
  that holds something and one that wants it, with a third state kept by the
  store. Three callers for the breaker: a probe, a competitor, a late report.
* **Items**: two tasks and one key in the store (two adds compete for a key);
  one mission where leases are at stake, two where retries are counted, three
  for a lineage. `RepairLimit` is 1 there, so that a repair of a repair is what
  must not be registered, and a follow-up of a repair that is named like one is
  what must not run; the code's limit is 2. The ids of that run are used in
  their order (`Earlier`): which id a descendant gets decides nothing.
* **Calls left behind**: one at a time, of the slow daemon in `campaign_race`, of
  the only one in `campaign_solo`. `campaign_live` has none: that a late
  call makes no second repair and nothing deeper run is shown by the theorem
  `RepairsStop`, whose steps have any number of them, one after the other.
* **Attempts, failures, crashes, unblocks** are bounded by guards named
  `MaxAttempts`, `MaxFailures`, `MaxCrashes`, `MaxUnblocks`. A crash is only
  taken while the lease can still expire before the clock's end, so that the
  clock's bound is no reason for a mission not to settle.
* **Session**: two rounds, two calls, two attempts, two messages, one kill: a
  round of two parallel calls with one result missing, a round after it, a
  retry that overlaps its thread, and the history cut at every length.
* **Queue**: four rows for three tasks and an announcement, or one task and its
  announcements; two failures make the oldest task hold up the others.
* **Long run**: two legs and one death meet each write with the budget almost
  spent; two causes tell a repeated one from a different one.
* **Goals**: the third change saves over what the other two left behind; one
  deletion and two imports make revisions start again while a copy is old.
* **References** bound the calls that launch (three: one per caller and one more
  for a retry). Dispatches need one: a single key goes through a wrapper there,
  with one intent, and is bound after its first call; the refusal of another
  intent ends like the journal's being unavailable, which is checked.
* Symmetry is used for interchangeable values in runs without liveness.

## 6. Fairness

* `campaign_live`: weak fairness of each daemon's sequential steps (`MainStep`:
  runs are started again and again by the operator or a scheduler, and a
  coroutine that can go on does), of the heartbeat, and of time. Strong
  fairness of `EndSession`: `asyncio.timeout` ends the stream
  (`runtime.py:334`), however often the session makes a call in between.
  No fairness for the session's other steps, the operator, or crashes. The run has one
  daemon, whom a crash may stop at any step and who starts again.
* `dispatch`: weak fairness of `Proceed` of each caller that does not die. The wrapper is waited for
  with a timeout (`cli_delegate.py:211`), and a provider's requests have one.
  No fairness for jobs. Nothing is claimed for callers that die.
* `session`: weak fairness of what the process does by itself (`TurnStep`): the
  provider's stream and every tool have timeouts. That a tool returns is not
  assumed.
* `ops_queue`: weak fairness of each worker that lives (`--watch` polls; an agent
  is killed at its timeout) and of a cancellation's second step.
* `longrun`: weak fairness of the loop (`Supervise`): legs have their own limits.
  That anybody restarts the supervisor is not assumed.

## 7. Proofs

Proved by TLAPS 1.4.5 from the assumptions named in the modules
(`StoreConstants`, `RuntimeConstants`, `HealthConstants`, `CallsConstants`,
`CliConstants`, `DispatchConstants`, `SessionConstants`, `BusConstants`,
`QueueConstants`, `LongrunConstants`, `GoalConstants`), for any sets and numbers.
They say what kind of thing a constant is, that the sentinels are no values, and,
where a daemon is taken to be prompt, that the wait for the lock is shorter than
a lease. What a theorem assumes beyond that is part of its statement.

In each module one inductive invariant carries the theorems. Its steps are
stated as lemmas, one per action or per group of actions that leave the same
state alone.

**`OrchestrationStoreProofs`**
* `StoreTypeCorrect` (`StoreTypeOK`);
* `StoreLeaseSafety` (`LeaseConsistent`: `LeaseMirrored` with `TerminalUnleased`). Neither is
  inductive alone: that a release or expiry keeps the payload right needs the
  row to mirror it, and that a claim keeps finished tasks free of leases needs
  the status;
* `StoreKeySafety` (`KeyIdentifiesTask`);
* `StoreLeaseStability` (`LiveLeaseKeepsOwner`): a reading of the clock is never
  later than the clock, so a lease live now was live for the reader;
* `StoreStatusSafety` (`StatusMovesAllowed`): `claim_task` and `resume_expired` do
  not consult the transition table, and need the lease invariant to be right
  about it;
* `StoreNoNewOrphan` (`NoNewOrphan`): what gives a payload an owner writes the row
  of the lease, and what deletes the row clears the owner, so that a payload
  without its row can only have been imported.

**`CampaignRuntimeProofs`**, from `CampaignInv`: the store's invariant, the shape
of the daemons' state, `DaemonsOK` (a daemon works on a mission that exists and is
not deeper than the limit; it has learnt nothing of a session that has not begun; a lease it takes for lost is
not its own any more; a reason is recorded before the mission is released as
blocked), `LateOK` (what a late call is about), `LineageOK`, and `BlockedHasReason`
under its hypothesis.
* `RuntimeTypeCorrect` (`RuntimeTypeOK`);
* `RepairsStop` (`RepairsBounded`). A depth beyond the limit can be registered, so
  the bound is on what daemons work on. `LineageOK` says that a root has no depth,
  that a repair is within the limit, and that a follow-up of any depth has a completed parent;
  that the parent stays completed is `Harmless`, which every step is shown
  to be. `EligibleIsShallow` follows: what may be chosen is a root, a repair, or has no depth;
* `BlockedTellsWhy` (`BlockedHasReason`; assumes `NoBlockedImports`: a snapshot
  has no mission that somebody blocked without saying why);
* `LiveLeaseSafety` (`LiveLeaseEnds`): the calls of a daemon touch another's
  lease only through `resume_expired`, and that one was judged by an old clock;
* `PromptLeaseSafety` (`HolderKeepsLease`) for every daemon in `Prompt`, whatever
  the others do. It needs `LockWait < LeaseSeconds`: a claim that waited for the
  lock would otherwise return with a lease that has expired;
* `OneExecutorSafety` (`OneExecutor`; assumes `LockWait < LeaseSeconds`, no set of
  prompt daemons), from `Exclusive`, which holds while `slow` is false: a daemon that holds a
  mission has its lease or the mission has ended, and no two hold the same one. An
  ended mission is revived by its holder's release only, hence the second
  part is needed for the first;
* `DirtyMissionsWait` (`DirtyNotRetried`) and `RetriesBounded` (`RetryBudget`),
  both for one prompt daemon that does not crash (`Lone`), from `LoneInv`, which follows
  a mission with unknown effects to where it is blocked (`DirtyKept`), ties the
  leases to the missions in work (`LeasesHeld`) and the sessions to the attempts
  (`BudgetKept`). The hypothesis is the code's limit, not the proof's: with a
  second daemon one claims from an old snapshot what the other has blocked, and
  a crash loses the effects that were under way, which `campaign_crash` shows.

**`ProviderProofs`**, first part: the breaker
* `HealthTypeCorrect`, `HealthOutageBounded` and `HealthCooldownRespected`, from
  `HealthInv`, which bounds `until` and the leases of probes by the clock, ties
  `until` to the last opening, and says that a circuit that is not closed has
  counted a failure;
* `HealthOneProbe` (assumes `CooldownCoversProbe`: the cooldown is at least the
  probe's lease plus the wait for the database lock), from `ExclusiveInv`, which
  adds that while a probe's lease lives `until` covers it, unless the circuit
  has closed;
* `HealthFailureKeepsOpen` (assumes `Threshold <= 2`): a circuit that is not
  closed has counted a failure, so the next one reaches the threshold. For a
  larger threshold the property is false, see 8.

**`ProviderProofs`**, second part: the calls
* `CallsImplementHealth`: every step of the calls is one of the breaker or a
  stutter. So what is proved above holds with retries: `CallsOneProbe`,
  `CallsCooldownRespected`, `CallsFailureKeepsOpen`;
* `CallsOneOutput` (`OneOutput`) and `CallsRequestsBounded` (`RequestsBounded`), from
  `RequestsInv`, which adds that a call of the Fabric's row is in the mode
  without retries.

**`DispatchProofs`**, first part: the journal, from `JournalInv`
* `CliTypeCorrect`, `CliRunsOnce` (`RequestRunsOnce`), `CliJournalSound`
  (`JournalSound`);
* `CliWorksAtMostOnce`: the refinement of `AtMostOnce`, initial states and every
  step.
  `RequestRunsOnce` is not inductive: nothing in it says that a caller about to
  launch is the only one for the id. `JournalInv` says where a reference may be
  (with a caller that is reserved, running or observed, or with none), that a
  request id is bound to the reference of its caller, and that a job has been
  launched exactly when that caller has passed `Launch`.

**`DispatchProofs`**, second part: the dispatcher, over the invariants of the store
and of the journal
* `DispatchOverrunBounded`, from `BudgetInv` (any finite set of callers): a check
  can only add a caller below the limit, and every event takes one away;
* `DispatchIntentFirst`, `DispatchRunsOnce` (`RequestRunsOnce`) and
  `DispatchOneTask` (`KeyIdentifiesTask`), from `DispatchInv`. It holds `StoreInv`
  and `JournalInv`: every step of the dispatcher is an operation of the store
  and a step of `CliDelegate`, or changes neither, or ends a call, so what was
  proved of the two components holds of the composition. `HasTask` and
  `CallsForDispatch` tie them together: a dispatch beyond `add_task` has a task,
  and a call of the wrapper belongs to such a dispatch and carries its key;
* `DispatchSuccessSound` (assumes `NoLegacyDispatch`: no task imported from an old
  snapshot has the key of a dispatch). `SuccessInv` follows an answer from the
  job to the journal (`FreshReference`, `AnswerTrue`), to the dispatch
  (`ResultTrue`), to its own task (`OwnTask`) and to whoever is told; that success
  lasts is `SucceededStays` for the work and the transition table for the task.

**`WorkSessionProofs`**, from `SessionInv`, which has four parts. `ShapeInv` says
what is empty where, that the threads of a call are its attempts, and that a call
without a result is in no history. `NamespaceInv`, `EffectsInv` and `ReceiptsInv`
strengthen the three properties that speak of the file to what the process knows,
because a save copies the one into the other.
* `SessionTypeCorrect` (`SessionTypeOK`);
* `SessionEffectsAccounted` (`EffectsAccounted`): besides, what is about to be
  executed is in the file as pending, which is what the checkpoint before a tool
  is for;
* `SessionOneIdentity` (`OneDelegationIdentity`): one namespace is given out, and
  the file has it before the first launch;
* `SessionEditsKept` (`EditsKept`): a history with the result of a write has a
  receipt beside it, in the file as in the process, and a saga that was resumed
  with receipts executes no write;
* `SessionRequestPaired` (`RequestPaired`). The property speaks of histories that were
  cut and repaired; `PairingInv` speaks of whole ones: every result comes after
  what declares its call without a word of the model between them, and of a call under
  way the model has said nothing since it declared it. `RepairedIsPaired` goes from
  one to the other for every suffix. That the repair keeps the order is
  `NthInOrder`, which numbers positions by the cardinality of what precedes them and
  so does without induction on the sequence.

**`OpsQueueProofs`**, from `QueueInv`
* `QueueOneOutcome` (`OneOutcome`). Ownership by name excludes nobody when names are
  equal. The invariant therefore says that no message is at two processes,
  and that a message somebody could claim has no outcome yet. That the oldest free
  message exists, which `claim_any` takes, is a minimum over naturals.

**`LongrunSupervisorProofs`**, from `LongrunInv`, which counts per program counter
what is on its way between two files and what each death may have cost
* `BudgetHolds` (`LegsBounded`), `RecordIsKept` (`RecordKept`);
* `VerdictIsFinal`: no step and no restart changes a verdict, the safety part of
  `RunEnds`.

**`GoalStateProofs`**, from `GoalInv`
* `SavedIsKept` (`NoLostUpdate`, while no goal is deleted): a copy is never newer
  than the file, and as new only with all of the file's content (`CopiesFollow`).
  That survives a write because what was read under the lock is still the file
  (`ReadUnderLock`), and the first write because until then one process at most has
  a copy (`Unwritten`);
* `RefusedIsNowhere` (`RefusedStaysOut`, for the core library): until it is saved, a
  change is in the one copy it was made to (`Private`);
* `OneWriter`: the file is replaced under its lock, after a comparison with what was
  read under the same lock.

What stays with TLC are the liveness properties, `EveryMissionSettles`,
`EveryDispatchSettles`, `EveryTaskSettles`, `TurnsEnd` and `RunEnds`: liveness under
fairness and `ENABLED` are out of the prover's reach. Induction over
recursive definitions is as well, and no module here has one. What the
theorems exclude by hypothesis (old imports, slow or crashing daemons in
`Lone`, deletions) is false without it, as section 8 describes, with the exception of
`NoLegacyDispatch` and `NoBlockedImports`, which describe an input.

## 8. Where the code and its words differ

One disagreement has a run that TLC ends with a counterexample, and an entry in
"findings" that quotes the words.

* **A crash forgets unseen effects** (`campaign_crash`). The rule that a mission
  with unknown effects is not retried lives in the memory of the daemon. When
  it dies, the lease expires, `resume_expired` makes the mission pending and the
  next daemon executes it. The same happens without a crash when a second
  daemon claims, from an old snapshot, a mission that was blocked meanwhile.

Observed while modelling and proving, and allowed by the properties above:

* Campaign: `release_task` asks whether the lease is the caller's and not whether the
  mission is still open (`orchestration_sqlite.py:598`): a mission that the operator
  cancels between the daemon's checkpoint and its release as `pendiente` is pending
  again afterwards. Where no lease row is left it asks nobody's name either, so
  the late release of a slow daemon revives a mission that failed or was cancelled.
* Campaign: a follow-up of a repair inherits its depth, one that is named "Repair
  failed mission: …" gets one more (`campaign.py:131`, without a limit), and
  `_eligible` (`runtime.py:138`) takes any depth above zero for a repair, which
  waits for its parent to be `fallida`: the follow-up is never executed. So is
  a repair whose parent was let run again and completed.
* Campaign: a mutating tool that times out is settled for the daemon:
  `_result_effects_unknown` (`runtime.py:194`) looks for a JSON object, and the
  error of a timeout (`agent.py:1145`) is a sentence. The thread goes on, and the mission may be
  retried beside it. `DirtyNotRetried` speaks of the effects the daemon counts as unknown.
* Campaign: `mission_complete` goes on in its thread when its session ends. It asks
  for no owner, so it may end the mission under the daemon that has it by then.
* Circuit breaker: with a threshold of three or more, a circuit opened by a
  permanent failure (401, 403) has a low count, and the next ordinary failure
  writes `closed` (`provider_health.py:175`). `OneProbe` fails for a cooldown
  shorter than the probe's lease plus the lock wait. Both are the assumptions
  of the theorems.
* Provider calls: the docstring of `_compute_retry_delay` names "a hard ceiling at
  backoff_max" (`providers.py:624`), and the jitter is applied after the ceiling
  (line 653), so a delay may exceed it by `retry_jitter`. A stream's exceptions
  other than statuses, timeouts and network errors (a protocol error, an answer
  that cannot be parsed) reach its caller without a report; `complete` reports
  them.
* Budgets: a result without usage records no cost (`dispatch.py:414`), and no
  wrapper of a collaborator reports any, so a limit on calls counts Fabric
  responses only; the sum reads the newest 50,000 events of any type
  (`budget_guard.py:70`), so a busy day forgets its beginning.
* Dispatch: equal dispatches on the Fabric route both execute (`dispatch.py:177`);
  `add_task` returns an existing task with the same key as if it were new. On
  the CLI route the journal's request id prevents the second launch. Rows that
  `recent` and `lookup` cannot parse make these read-only views raise.
* Session: a tool that times out runs on beside its retry; the plain REPL
  continues after an interruption and erases the pending marker; `/resume`
  makes a second copy of the conversation; the ids `repair_0`, … given to calls
  without one (`agent.py:1805`) repeat, where the model's calls are distinct.
* Queue: `claim_any` ignores the topic (`bus.py:207`), though `ops_queue.py:328`
  says "Process ONE queue.task": with a card of the workers' own role they
  claim `run_spawn`'s announcements, execute `spawn.X` as a task and reject
  `spawn.X.done` for ever, at the head of the queue. An exception or Ctrl+C in
  `run_spawn` leaves the message claimed for ever.
* Long run: a torn line swallows the next entry of the journal; a verdict that
  was saved before a death is never announced; a circuit whose deadline is past
  makes the loop spin without a rest; `supervise` has no caller outside the
  tests.
* Goals: the revisions of a goal that was deleted and imported again start from
  zero, so that an old copy may have the new file's revision and replace it
  (`goal_state.py:374`; line 67 promises that no stale state replaces a newer
  revision); a change whose lock timed out stays in memory and goes out with
  the next save (`goal_state.py:362`); deletion takes no lock.

## 9. What is not modelled

The parts of section 1.3. Within the modelled parts: texts and their formatting,
the recovery context copied from a collaborator's output, events other than the count of costs, the
choice of routes (any configured route may be chosen), the refusals of a
dispatch that read neither budget nor store, the interactive owner of a mission
(`register` with `lease_owner`), learning and compaction inside
`kernel.complete`, the budgets of one run of a mission (exhausted or not is a
choice) and the daemon's own use of the aggregate ones,
the adoption of missions by a session, hooks, and the commands of the REPL that
edit a history, the lengths of retry delays, providers without a profile, two processes on one conversation or one guarded run, and the
compaction of the journal against appends. The larger files that no module
covers (`extra_commands.py`, `commands.py`, `repl.py`, `render.py`, `main.py`,
most of `delegate.py`) parse arguments, print, and call the parts above: a model
of them would restate their text.
