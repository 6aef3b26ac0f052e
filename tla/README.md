# Formal model of the APP automation test platform

This directory keeps TLA+ modules of the execution protocol of this
repository: how a test execution comes to exist under a profile, goes from the
queue to a worker, to an agent that drives a phone, and how its results and its
verdict come back and are settled. The modules are checked with TLC on small
instances, and the results that matter most are proved with TLAPS for every
value of the constants.

## 1. The system

The backend (FastAPI and PostgreSQL, `src/backend`) stores test cases, queues
executions and talks over WebSockets to agents (`src/agent`), which run the
cases with Appium on the devices attached to them. A web front end
(`src/frontend`) shows what the backend stores.

| Part | State it keeps | Operations |
|---|---|---|
| Creation, retry and prepare tokens (`execution_service.py`, `execution_prepare.py`, `asset_service.py`, `profile_service.py`) | `execution_prepares` rows; the revisions of project and profile | `preview_execution`, `create_prepare`, `create_execution`, `clone_snapshot`, the edits that bump a revision |
| Profile resolution (`profile_resolver*.py`, `execution_tree.py`) | none but a cache of rules by revisions | `resolve`, `filter_nodes`, `merge_variables`, `materialize_snapshot`, `_validate_snapshot_tree` |
| Execution queue (`repositories/worker.py`) | `execution_queue` rows: status, `claimed_by`, `retry_count` | `claim_next_queue`, `claim_unavailable_queue` |
| Execution rows (`repositories/executions.py`) | status, `dispatch_state`, `session_token`, `termination_reason`, `finalized_at` | `begin_dispatch`, `mark_dispatched`, `restore_reserved_execution`, `stop_queued`, `stop_running`, `request_timeout_stop`, `claim_stop_command` |
| Worker task (`services/worker_service.py`) | locals of a coroutine: the token it read, the payload, where it is | `run_reserved_execution` and its failure and cancellation paths |
| Worker process (`services/worker_runtime.py`) | the set of running tasks, the wakeup, where `stop` is | `_claim_loop`, `_run_reserved`, `stop`, the scan timers |
| Settlement (`_mark_terminal`) | verdict, `finalized_at`, device lock, queue row, children, report | called by tasks, scans and endpoints |
| Scans | none of their own | `timeout_scan`, `finalize_unfinished_terminal`, `reclaim_stale_claimed`, `agent_heartbeat_scan` |
| Stop, release, delete endpoints (`execution_service.py`, `agent_service.py`) | none of their own | `stop_execution`, `release_device`, `delete_agent` |
| Agent gateway (`ws/routes.py`, `ws/managers.py`) | the handler of each socket, the socket of each agent | `agent_ws`, `connect`, `disconnect`, `send` |
| Ingest (`repositories/ws_handlers.py`) | `agents` and `devices` rows; suite, case, node, step and assertion rows | `handle_register`, `handle_heartbeat`, `handle_device_list`, `handle_*_result`, `handle_*_status` |
| Agent (`agent/main.py`) | running tasks, finished ids, unconfirmed results, the Appium reference count | `on_message`, `_run_execution`, `_sync_reconnected_state`, `stop_all_executions` |
| Agent connection (`agent/ws_client.py`) | the socket, whether it is registered | `run_forever`, `connect`, `send`, `receive` |
| Agent runner (`executor/test_runner.py`) | where it is in the tree, the statuses it saw | `run`, `_run_suite`, `_run_case`, `_run_flow_nodes` |
| Management, reports, access, desktop shell, front end | CRUD rows, pages | see `PROJECT.json` "components" |

How the parts interact. A request resolves what a target means under a
profile, in many reads, and creates an execution with a copy of it if two
revision numbers have not moved. A worker polls the queue and claims an execution and
its device in one transaction, which draws a fresh `session_token`; it then
runs a chain of transactions and one WebSocket send outside every transaction.
The stop endpoints and the four scans change the same rows at any time. The
agent walks through the copy and reports every node, case and suite; its
verdict comes last, is kept until it is confirmed, and is bound to the session it
was started under. Workers, scans, endpoints and gateway share nothing but the
rows: each step acts on what it reads now and on what it remembers from
before.

What is hard. No component holds a lock over two of its steps. A worker may
be shut down, cancelled or killed at every step, and its claim handed to
another worker while a task of the earlier claim still lives. A send may time
out after it was written. Several parties settle the same execution. An agent
may be lost, restarted, or report late, twice, or for an execution that ended
long ago; its connections overtake each other. What is read for a resolution
is edited while it is read. What makes the parts correct:

* creation: a new execution is what the assets and the profile are when it
  commits; a token creates one execution; everything the target names runs or
  is reported as left out; what was created can be retried;
* queue and claim: an execution that waits can be claimed; one execution per
  device;
* worker process: never more tasks than its limit, no wakeup lost, no claim
  without a holder but after a stop, a crash or a failure, no task
  left by a stop, every execution taken in the end;
* dispatch: one task dispatches an execution, `start_test` is delivered at
  most once;
* settlement: exactly one settlement, which is final, gives the device back
  and only if the execution still holds it;
* verdicts: never turned into a milder one, never taken from another session;
* scans: every execution ends and every device is given back whatever dies;
* ingest: a bad result is never replaced by a milder one, in any order of
  arrival, and no execution passes over a row that failed;
* agent: no lock and no reference is lost wherever a cancellation finds a task,
  Appium runs while an execution needs it, what ran is not run again and every
  execution that began gets a verdict;
* connection: no verdict is forgotten before it is stored, an agent on an open
  connection is reachable, and in the end it is online and its verdicts are
  confirmed.

## 2. Modules

| Module | What it is |
|---|---|
| `StatusMerge` | The pure rules that merge statuses: `aggregate_statuses`, `merge_execution_status`, `_merge_terminal_status`, `merge_step_status`, `normalize_stuck_status` |
| `ExecutionLifecycle` | The protocol: rows, tasks, scans, endpoints, messages and agents; the properties |
| `ExecutionSpec` | What the protocol promises of an execution: waiting, active, ended, settled, and who holds a device |
| `MCExecutionLifecycle` | The values of the constants for TLC |
| `ExecutionLifecycle_proofs` | Types, device exclusion, locks, verdicts, finality, and the implementation of `ExecutionSpec` |
| `SessionTokens_proofs` | Sessions, dispatch, delivery, and the overlap of two runs |
| `AgentExecutions` | The tasks of one agent: start and stop, the shared Appium server, verdicts, the exit |
| `MCAgentExecutions` | The symmetry of interchangeable executions, for TLC |
| `AgentExecutions_proofs` | Types, the lock, the reference count and the server under those that use it; what is told and not run again |
| `ResultRows` | The rows under one execution and every handler that writes results into them, down to the settlement |
| `MCResultRows` | A suite with a hook and a case with a node and an asserted step |
| `ResultPath` | `ResultRows` fed by the agent's runner over connections that break |
| `MCResultPath` | Two suites: one with an assertion as its setup and a case of one action, one with only a setup |
| `SequenceLemmas` | What is under a concatenation, a flattening, a prefix, for the proofs about sequences |
| `ResultPath_proofs` | Bad results stand, the verdict covers the rows, a pass is earned; the path only sends what `ResultRows` takes, ends no better than what was seen, and agrees with it when nothing was lost |
| `AgentLink` | The connection of one agent, both ends: loops, sends, handlers, the mapping, the agent's row |
| `MCAgentLink` | For TLC |
| `AgentLink_proofs` | Verdicts are kept, the agent is reachable |
| `WorkerPool` | One worker process: consumer, pool, tasks, stop, crash and restart |
| `MCWorkerPool` | Three executions of two devices |
| `WorkerPool_proofs` | The limit, the stop, the claims, the wakeups |
| `ExecutionIntake` | Preview, prepare tokens, creation and retry against concurrent edits; what a resolution computes is the constant function `Resolution` |
| `ProfileResolution` | Operators only: what a resolution computes, the rows it becomes, and the test a retry puts them through |
| `ProfiledIntake` | The composition of the two: `Resolution` is what `ProfileResolution` computes |
| `MCProfiledIntake` | Two states of assets, rules and five targets, for TLC |
| `ExecutionIntake_proofs` | Types, locks, and that new executions are current; what the resolver computes (accounted, adding up, bound, shown, ready), and that it holds of every new execution |

How they fit. `ExecutionLifecycle` sees an agent from outside: it runs an
execution, and has a verdict or not. `AgentExecutions` looks inside one agent
and sees the server only as the sender of `start_test` and `stop_test` and the
receiver of verdicts. `AgentLink` looks at the connection between them, where a
task is only a sender. `ResultPath` EXTENDS `ResultRows`, which EXTENDS
`StatusMerge`, as `ExecutionLifecycle` does: the two share the rules that merge
an execution's verdict. `WorkerPool` refines one process of the workers that
`ExecutionLifecycle` takes for granted, and keeps of the rows what the pool tells
apart. `ProfiledIntake` EXTENDS `ExecutionIntake` and `ProfileResolution` and
says what is true of the content of an execution the one creates with the
other.

### State and code

`ExecutionLifecycle`. The variables are the columns of the rows (`status`,
`dispatch`, `token`, `reason`, `finalized`; `queue`, `owner`, `retry`; `lock`,
`dev`; `online`), the locals of each worker task (`pc`, `job`, `by`, `tok`,
`pay`; a task is created by a claim and numbered by it), the step of a
cancellation (`cancelling`), a device status about to be written (`snap`), the
messages (`starts`, `stops`), and the memory of the agents (`run`, `fin`,
`result`). A session token is the number of the claim that drew it, so tokens
are never drawn twice, as random UUIDs are not. `sent` is a history variable
with every `start_test` ever delivered.

Every action is one transaction, one message, or one local step. What a
function does between two commits is one action; what it calls inside
(`_mark_terminal`, above all) is part of that action. A task's chain is

    start -> payload -> cas -> send -> record -> observe -> done

with `casfail` (refused dispatch), `fail` (`_finalize_error`), `sendc` and
`recordc` (cancelled while sending, the shielded send goes on) and `undo` (the
cancelled send was refused). `tok` is the token of the first read, which every
conditional update uses; `pay` is the token of the second read, which travels
in the payload.

`AgentExecutions`. The task of an execution (`_run_execution`) is at one of
the awaits of `pc`; `"none"` says it is not in `runtimes`. One action is what
a task does from one await to the next, which nothing in the event loop
interrupts:

    created -> [ensure ->] [starting ->] ready -> setup -> run -> report
            -> [quit ->] [release ->] [stopping ->] none

`ensure` and `release` wait for `_appium_lock`, `starting` and `stopping` are the
`to_thread` calls of `AppiumServer.start` and `stop`, `ready` is `wait_ready`; these
three are under the lock. `handler` is the send inside an except clause,
`converge` the sends of `_converge_stopped_suites`. A cancellation is pending
in `cancelled` until the task is resumed, when it is thrown at the await where it
finds the task; the `Cancel...` actions say what it does there. `lock`, `refs`,
`server`, `finished`, `registered` are `_appium_lock`, `_appium_refs`, the process,
`_finished_executions` and `_registered`; `drivers` are the tasks whose
`driver` is not None; `threads` the calls whose thread outlives its cancelled task.
`held`, `lost`, `disturbed`, `recorded`, `told` are history: who took a
reference, how many will never be given back, what took the server from its
users, which executions have a verdict, and what was written to the socket.

`ResultRows`. `exec`, `reason`, `final` are columns of the execution; `row` is
the status of every suite, case, node and step, `asrt` of every assertion row.
Each handler is one transaction under the lock of the execution's row, hence one
action. `handle_suite_status` alone reads its suite before it waits for the
lock: it is two actions, and `read` keeps what it saw. A message is just a
call: resent, overtaken and late messages are more calls.

`ResultPath` adds the runner and the wire. `outcome` fixes what each node would
come to; `todo` is the sequence of messages the walk (`_run_suite`, `_run_case`,
`_run_flow_nodes`) sends for it, cut by a stop anywhere; `conn`, `wire` and
`lost` are the connection in use, what is under way and whether something
written never came; `verdict` is the unconfirmed result, sent again on a new
connection. `whole` is history: the verdict was handled last with nothing
missing.

`AgentLink`. `loop`, `link`, `registered` are `run_forever`, `client.ws` and
`_registered`; `running`, `pending`, `senders`, `sync`, `replay` the tasks and
tables of `main.py` that send; `socket`, `up`, `down` the sockets and what is
under way in both directions; `handler`, `mapped`, `status`, `stored` the
server: where `agent_ws` is per socket, `manager._sockets[agent]`, the agent's
row, and the verdicts that are committed. `sending` says on which socket
`manager.send` waits for each execution: it looks the socket up (`Dispatch`), and
when its await ends badly it removes what is mapped by then (`SendEnds`).
`unanswered`, `interrupted` and `evicted` are history: verdicts the server read last
without confirming them, a registration that found a replay at work, sockets
that were unmapped by a send on an earlier one.

`WorkerPool`. `loop` and `item` are `_claim_loop`, `wake` and `slots` the event
and `_execution_tasks`, `task` where each `_run_reserved` awaits, `stop`,
`active`, `started` the coroutine `stop()`; the rows of an execution are one
value (`queued`, `reserved`, `sent`, `settled`) with `retry` beside it. `missed`
and `stranded` are history: a slot became free since the consumer looked, and a
claim has lost its holder.

`ExecutionIntake`. `assets`, `config` and their revisions are what is committed,
`editing` what an editor of the profile has written and not committed;
`req[r]` is a request handler: where it is, what it asked for, the revisions it
was given and what each of its reads saw (`layout`, `vars`, `config`).
`tokens` and `executions` are the rows. A resolution is three reads in that
order, each of what is committed by then.

`ProfileResolution` has no state: a layout, the variable definitions, the
rules and a target go in, suites with the nodes that run, the scope of every
name, the exclusions and the summary come out.

### Abstractions of ExecutionLifecycle and StatusMerge

* Time. Deadlines may pass at any moment: a timeout, a stop grace, a stale
  claim, a heartbeat timeout are enabled whenever the rows allow them. This
  allows more than the code does, never less.
* The children of an execution are the set of blocking child statuses a merge
  may meet (`ChildSets`); which set it is is chosen anew at every merge.
* Tasks and transactions that raise, processes that die, connections that
  break, hands that release a device are switched on by `Faults`, so that each
  run can afford the ones it is about. The proofs are for every set of faults.
* `agent_heartbeat_scan` is one atomic step. The scan updates the agent row
  first and the claim locks the agent, device and execution rows it joins, so
  no claim on a device of that agent comes in between; each execution it ends
  claims `finalized_at` as everybody else does.
* `reclaim_stale_claimed` selects its rows without a lock, reads each execution
  later and writes the row when the session flushes. These are three steps per
  row (`ReclaimSelect`, `ReclaimRunning` or `ReclaimRow`, `ReclaimWrite`), with
  anything in between; `scan` keeps where the scan is and the `claimed_by` it
  saw. One scan handles a row at a time.
* The other scans and the observing task also act on an execution they read a
  moment ago. Nothing is lost by making each of them one step: the settlement
  itself is conditional on `finalized_at`; a verdict that is settled as it is
  stored cannot change but by a settlement; and a forced end of a stopping
  execution writes what the verdict of its agent would have been turned into.
* The claim skips rows that another transaction has locked, so the order of the
  queue is kept among the executions of one device only.
* `stop_queued` is one step when it wins. When it loses, the close of the queue
  row is a step of its own, since each of its two statements sees the rows as
  committed then.
* `handle_device_list` is one step (`DeviceList`), and, for the case that
  another transaction commits in between, a read and a write (`ReadSnapshot`,
  `WriteSnapshot`). The statuses offline, unauthorized and error are one: no
  claim takes such a device.
* `release_device` has a branch for a holder that is queued. It is left out:
  `LockIsOwned` shows that no queued execution holds a device.
* `delete_agent` is allowed only when nothing of that agent is queued or active
  and every execution exists from the start, so the `deleted` flag itself is
  not kept. (`release_device` would leave a device of a deleted agent offline
  where `ForceRelease` makes it idle; every execution of that device has ended.)
* The task's observation loop ends at a verdict (`Observe`); the `stop_test` it
  sends and the forced end it applies are the same conditional steps the
  timeout scan performs (`SendStop`, `ForceEnd`).

### Abstractions of AgentExecutions

* Only the driver mode `appium` is modelled; the mock driver has no server.
* The suites of an execution are one await (`run`) with any verdict of
  `Outcomes`, their messages while it runs are left out. `_converge_stopped_suites`
  is one await; it is skipped when there is no runner yet.
* The `StopRequested` path is left out: `stop_test` sets the event and cancels the task
  in one go, and the cancellation comes first. `_interrupt_driver` only makes a
  driver call return earlier. An exception raised by a convergence message
  itself is left out too.
* The done callback of a task runs with its end; it only repeats what the
  finally clause did, or does it for a task that never began.
* Those who wait for the lock are served in any order (asyncio's is FIFO), and a
  newcomer waits when the lock is taken or somebody waits. A lock released
  to a waiter that is cancelled goes to another one.
* The effect of a start or stop thread is atomic at its end. Two abandoned
  threads of the same kind are one.
* Every send needs the registration and may, when cancelled, have written or
  not. Resends, confirmations and heartbeats are left to `AgentLink`.
* The exit is that of `serve_agent` after the connection loop has ended. The desktop
  shell may also end executions while it is still connected; that is easier.
* The memory of finished executions forgets its oldest entry at `Memory` (500 in
  the code). `NeverRunAgain` is checked with a memory as large as the number
  of executions: an agent that finishes more between a verdict and the
  repeated `start_test` may run it again.

### Abstractions of ResultRows and ResultPath

* `case_status` carries the `execution_id` in every message the agent of this
  repository sends; the branch that looks the execution up from the case is
  left out. A step has at most one assertion row. `cancelled` is a status of an
  execution, never of a row.
* The device and session checks of `_bound_execution` are those of
  `ExecutionLifecycle`; here an execution accepts results while it is running or
  stopping. Log lines, screenshots and counters are left out.
* A scan may settle with the status it read a moment earlier; the settlement is
  conditional on `finalized_at` and takes the worse of that and what the rows
  say.
* `ResultPath` walks over suites, cases and flow nodes, the third version of the
  payload; the step list of the second (`_run_steps`) is in `ResultRows` only. A
  message that was written counts as sent, as in `ws_client.send`: a break
  loses what is under way and tells nobody. Of the messages under way at most
  `MaxWire` are kept per connection, and the runner waits for room, which a
  socket's buffer makes it do as well.

### Abstractions of AgentLink

* The effects of one transaction and the answer after it are one step of the
  handler. A handler that waits for the end of the socket it replaces (`Bind`,
  `Reply`) is two.
* The order of the pending results is not kept: they are replayed in any order.
* A heartbeat that would find the agent's row online is left out, and so is the
  scan that sets the row offline for want of heartbeats
  (`agent_heartbeat_scan`, in `ExecutionLifecycle`).
* A socket that both sides have left is used again for the next connection.
* A break delivers any beginning of what is under way, in each direction.
* Whether the agent has a desktop (`retry_on_auth`) is chosen anew at each
  refusal, so that one run covers both kinds of agents. This allows more than
  either does.
* A send on a socket that is gone may also end without removing the mapping
  (`_is_socket_gone` does not know every exception), and one that was started
  may wait for as long as it likes.
* Which results the server refuses (another session or device), and when one of
  its transactions fails, is left open: any may, at most `MaxFails` times in a
  run and for any bound in the proofs. A transaction fails before its commit.
* The exceptions of the properties are named in the module. `Blocked`: the receive
  loop is caught in its own send. `Evicted`: a late send unmapped the connection.
  `GaveUp`: an agent without a desktop took something else for the reply to its
  registration. `interrupted`: a registration found the replay of an earlier
  connection still at work. `unanswered`: the server failed on the verdict or
  refused it.

### Abstractions of WorkerPool

* One process; a restart is a new runtime over the same rows. `skip_locked` is
  not modelled since nobody else claims. One task per execution.
* What happens to an execution between its claim and its verdict is
  `ExecutionLifecycle`; here a task sends, observes and settles.
* Done callbacks run before the `wait` or `gather` that the end of their tasks
  completes, as asyncio schedules them.
* A claim that commits while `stop()` cancels the consumer, or whose task is
  cancelled before it read its token, or whose restore or `_finalize_error` fails
  itself, stays `reserved` until `reclaim_stale_claimed` finds it ten minutes later
  (`stranded`); the architecture document says in 10.5.1 that a stop gives such
  claims back. A transaction that fails may have been committed.
* The stale scan looks at the age of a claim only. Here it takes claims that are
  stranded: a task that holds one for ten minutes before it dispatches, and meets
  the scan, is part of `ExecutionLifecycle`.
* A cancelled send of unknown outcome goes on to observe, and `stop()` waits
  for it.

### Abstractions of ExecutionIntake and ProfileResolution

* A statement reads what is committed by then (READ COMMITTED). All that a
  resolution reads in one group of statements is one read: profile and rules;
  layout and cases; variables.
* The project's assets and the profile's rules take one of a few values, and an
  edit is a pair of them; the edit of assets is one transaction, the edit of a
  profile holds the profile's lock before it asks for the project's, as
  `bump_and_audit` does by its foreign key.
* A creation locks the project and then the profile; together with the editor
  this may deadlock, which PostgreSQL ends by aborting either (`AbortEditor`,
  `AbortCreation`).
* A token expires at any time. `peek` keeps the row in the session, so what a
  request later locks is what it peeked (see the disagreement below); a request
  that did not peek reads the row.
* The comparison a preview makes of the revisions before and after is of rows
  its session already holds, hence always true; it is modelled as no check,
  which is harmless as the creation compares again under locks.
* Values are not kept, only the scope a value comes from. Of an element only the
  names its locator mentions are kept (`finds`); a smart locator, which only the
  agent renders, has none. Variables a user overrides for himself, random values
  and warnings are left out; a runtime name that is also defined is substituted at creation, as in
  `render_text`.
* Left out: the creation without a profile that the feature modes off and
  compat allow, the re-enabling of a release, and the deletion of a profile,
  which checks for users before it deletes.

## 3. Runs

| Run | Module | Instance | Checks |
|---|---|---|---|
| `Sessions` | `MCExecutionLifecycle` | 1 execution, 3 claims, a cancellation, dying workers, shutdown, stale claims, lost messages | `TypeOK`, `OneDispatcher`, `DeliveredOnce`, `QueuedIsClaimable` |
| `Devices` | `MCExecutionLifecycle` | 2 executions on 1 device, 2 claims, a stop, failing transactions, lost messages, a lost agent, overtaken device reports, releases by hand | `ActiveHoldsDevice`, `LockIsOwned`, `OverlapOnlyAfterVerdict`, `ImplementsPromise` |
| `Verdicts` | `MCExecutionLifecycle` | 1 execution, 3 claims by 2 workers, cancellation, stop, all faults but snapshots and stale claims, every verdict of an agent, children that stopped, failed or are in error | `AgentIsCurrent`, `VerdictOnlyWorsens`, `SettledIsFinal` |
| `Settles` | `MCExecutionLifecycle` | 2 executions on 1 device, 3 claims, shutdown, lost agent, under `FairSpec` | `EveryExecutionSettles`, `EveryLockIsReleased` |
| `AppiumShared` | `MCAgentExecutions` | 4 executions, one malformed, one of another protocol version, a server that fails to start, is late or dies, one stop each, the exit | `TypeOK`, `RefsAreBacked`, `ServerServesRuns` |
| `AgentTasks` | `MCAgentExecutions` | 2 executions, each started and stopped twice, Appium that is late, drivers that raise, one broken connection, under `FairSpec` | `OneOutcome`, `NeverRunAgain`, `EveryTaskEnds`, `BegunIsRecorded` |
| `Ingest` | `MCResultRows` | 1 suite, 1 case, 2 nodes, 1 step with an assertion, every report, 2 connections, 1 half-done suite status | `VerdictCoversRows`, `ResultsStand`, `NoFalsePass` |
| `Path` | `MCResultPath` | 2 suites, an assertion as the setup of one, which has a case of one action, an action as the setup of the other, every outcome, 2 connections, 2 half-done suite statuses, 1 message under way | `Agreement`, `NeverBetter` |
| `Link` | `MCAgentLink` | 1 execution dispatched twice, 2 sockets, 2 breaks, 1 message the server fails on or refuses, an agent that may be without a desktop, under `FairSpec` | `NoVerdictForgotten`, `Reachable`, `ComesBack`, `Confirmed` |
| `Pool` | `MCWorkerPool` | 3 executions of 2 devices, a limit of 2, one stop or crash, one failure, one device that goes away, under `FairSpec` | `PoolIsBounded`, `StopLeavesNoTask`, `ClaimsAreHeld`, `NoLostWakeup`, `EveryExecutionIsTaken` |
| `Intake` | `MCProfiledIntake` | 2 request handlers, 2 requests, one edit, one token, one retry, one of five targets | `SnapshotIsCurrent`, `EveryNodeAccounted`, `SummaryAddsUp`, `NothingUndefined`, `PageShowsWhatRuns`, `RetryIsPossible` |
| `TokenReuse` | `MCProfiledIntake` | 3 requests by 2 handlers, one token, no edit | `OneExecutionPerToken` is violated |

Bounds. In `ExecutionLifecycle`, two executions that want one
device are the smallest instance of a conflict, two claims of one execution
the smallest of a stale session, three claims the smallest in which a task of
an earlier session meets a second claim while the execution is given back
again, and what it takes to raise `retry_count` to its limit by giving an
execution back twice. One worker id is mostly used since it is the harder case:
the condition on `claimed_by` then never tells two claims apart.
The stale scan multiplies the states most, so it is part of `Sessions` only; the
theorems cover it together with everything else. `MaxSessions` bounds the claims
made in all; `RoomToRequeue` lets an
execution go back to the queue only while enough claims are left for what is
queued, so that the bound never makes a queued execution wait for ever (the
liveness run depends on this). `CancelExecs` and `StopExecs` say whom somebody
cancels or stops: each execution is cancelled at most once.

In `AgentExecutions`, `MaxStarts`, `MaxStops` and
`MaxDrops` bound what comes from outside; the server repeats `stop_test`, so the runs
about verdicts and ends allow two. Two executions are what it takes to
share the server, the malformed one in `AppiumShared` fails before it asks for a
reference while the others share it; it gives one back all the same.

In `ResultRows` one row of each kind is enough for every handler, and one
half-done `suite_status` meets every other step; `MaxReads` bounds nothing but
that. In `ResultPath` the second suite is what a blocked one must not mask, and
the second connection what a verdict is sent again on. There two half-done
`suite_status` handlers are needed: one of the old connection that has read the
suite as open and still has to write `running`, and one of the new connection that ends
the suite in between. With one alone a suite is never opened again, and
`Agreement` would hold without its exception. In `AgentLink` one break
makes a second connection overtake the first, the second break finds the replay
at work; one send that is still waiting then meets the second connection, and
one failing message (`MaxFails`) is what a verdict is left unconfirmed by. In `WorkerPool` three executions are one more than the limit, two of
them share a device. In `ExecutionIntake` one edit falls between any two reads of
two requests; a stale token needs one edit, a retry one execution.

Deadlock is checked in the runs of `ExecutionLifecycle`: after everything is
settled the device reports go on. Elsewhere the system may stop: an agent whose
messages are used up or that has exited, an execution that is settled, a
connection on which nobody has anything to say, a pool whose executions have
all ended, requests that are used up.

Fairness. `FairSpec` of `ExecutionLifecycle` assumes that the claim loop goes on claiming or settling
(`WF` of `ClaimOrSettle`: `_claim_loop` polls) and that the scans keep reaching
each row (`WF` of `RequestTimeoutStop`, `ForceEnd`, `FinalizeScan`:
`_start_scans` runs them every minute, and a row past its deadline is
selected by every later scan). Nothing is assumed of tasks, messages, agents
or of anybody at an endpoint: a task may never take another step and an agent
may never answer. `FairSpec` of `AgentExecutions` assumes the event loop: a task
that can go on does (`WF` of `Continue \/ Cancel`; the driver calls and the
readiness poll have time limits), a thread ends (`AppiumServer.start` and `stop` do),
`serve_agent` goes on, and a broken connection is made anew while the agent
serves (`run_forever`). Nobody need send anything, and the lock is given to
anyone who waits: weak fairness of each task is enough since only finitely many
messages arrive, so others cannot take it for ever. `FairSpec` of `AgentLink`
assumes that the two event loops do not rest while they have something to run,
taken together; nobody has to dispatch, an execution need not end, a connection
need not break. `FairSpec` of `WorkerPool`
assumes that the event loop runs what can run (`Consume`, `Stopping`,
`Advance` of each task), that the poll interval elapses, that a service manager
starts a stopped process again, that the stale scan reaches each stranded
claim, and that an execution that was sent gets its verdict, which `Settles`
shows; failures, stops and crashes are not assumed, and there are finitely many.

### Disagreement found by a run

`TokenReuse`. `create_execution` peeks the prepare token to learn its project
(`execution_prepare.py:245`) and keeps the row in its session; `get_for_update`
locks the row without `populate_existing`, so SQLAlchemy answers with the object
the session has. Two creations that peek before either consumes both see an
unconsumed token and both create an execution. The architecture document
(line 2077) and `test_execution_profile.py:231` say that a token is consumed
once.

### Disagreements found while modelling

They are part of the models, as the named exceptions of the properties, and have no run of
their own.

* The handler of a `stop_test` awaits `_converge_stopped_suites` before it
  records the verdict (`main.py:334`). A second `stop_test` is thrown at that
  await, and the task ends without a verdict; the comment at line 333 says that
  the suites converge and `stopped` is reported, and `config.py:61` has the
  server repeat `stop_test` and calls that idempotent. `BegunIsRecorded` has
  this as its only exception. (A second stop that meets the send of `stopped`
  comes after the verdict was recorded, and the next registration replays it.)
* `AgentConnectionManager.send` awaits `send_json` on the socket it looked up
  and then removes the agent's mapping without comparing (`managers.py:82`),
  unlike `disconnect` (lines 61-68, and `test_ws.py:1295`). If the agent
  registered on a new connection during the await, that one is unmapped, and
  nothing ends it: the agent is online by its heartbeats and nobody can send to
  it. `Reachable` and `ComesBack` have this as an exception, for the very
  socket it happened to (`evicted`).
* The agent takes the first message after `register` for the reply
  (`ws_client.py:84-87`). A `start_test` that overtakes it, which the mapping
  before the reply allows, is a refusal, and an agent without a desktop gives
  up (`GaveUp`), although line 151 says that it does so when its key is not
  accepted. The error of a registration whose transaction failed is taken for
  a refusal as well.
* A verdict the server fails on (`routes.py:171-182`) or refuses
  (`ws_handlers.py:878-892`) is not confirmed, and the connection goes on: the
  agent keeps it until it next registers (`unanswered`).
* The texts of a case's nodes are rendered one by one with the names set before
  each of them; the locators are rendered at the end with the names that all of
  them set (`profile_resolver.py:731-734`, `profile_resolver_load.py:238-254`).
  A locator whose name only a later node sets passes, and fails on the agent
  (`context.py:105`); the design document says that what is undefined fails the
  check before the execution. `NothingUndefined` says what does hold of
  locators.
* A cancellation that loses to a claim closes the queue row all the same
  (`executions.py:585-588`): `stop_execution` commits before it looks at the row
  count. The caller is told 409 and the execution runs on, but a worker that
  shuts down cannot give the claim back and the stale scan does not see it.
  `QueuedIsClaimable` shows that this is the only way to a waiting execution
  that no worker can claim.
* The finally clause of `_run_execution` (`main.py:365-367`) releases a
  reference in every case, also when the task was stopped, or failed, before it
  counted one. The reference is another execution's, and the
  server stops while that one uses it, although `main.py:236` says that it is
  stopped only after all executions have ended. `ServerServesRuns` shows that
  besides this only an outliving thread or a crash can do the same.
* `serve_agent` (`main.py:567-574`) waits for the cancelled tasks before it
  closes the client, but their sends wait for a registration (`ws_client.py:112`) that
  only the connection loop makes, which has ended. An agent whose key is revoked
  while it executes does not exit.
* The receive loop answers a repeated or incompatible `start_test` itself
  (`main.py:447-468`). When the connection breaks there, its send waits for a
  registration that only the end of the receive loop can bring (`Blocked`).
* `_sync_reconnected_state` is one task for all connections (`main.py:136`, `212`).
  If it is at work when the agent registers again, nothing is replayed on the new
  connection beyond what that task had left (`interrupted`).
* The end of an old connection may set the agent's row offline after the new one
  has registered; it is online again with the next heartbeat.
* `handle_device_list` decides on rows it did not lock, so a claim may come
  between its read and its write, and a locked device becomes idle or offline
  although the comment at `ws_handlers.py:363` says that a locked device stays
  busy. The damage is limited: `Runnable` also asks for an empty lock, and
  `ActiveHoldsDevice` and `OverlapOnlyAfterVerdict` hold with overtaken reports.
* Between the reads and the write of `reclaim_stale_claimed` a worker may give
  the claim back and another may claim the execution anew; the scan then writes
  `pending` over the new claim (`ReclaimWrite`). The execution
  runs on, and the invariants hold, but its claim can no longer be given back.
* A suite that has ended can be opened again. `handle_suite_status` reads the
  suite (`ws_handlers.py:760`) before `_bound_execution` waits for the lock, and
  judges from that read, although the comment at `ws_handlers.py:781` says that a
  late `running` does not take a row back from its end. A `running` of an old
  connection that read the suite while it was pending is written over the verdict a
  new connection brought in between; a node result that comes late as well then
  closes the suite with that node's status. A suite that ended in `error` is in the
  end shown as `failed`. `Agreement` names that as its exception and shows that it
  is the only difference: a suite that merely stays open is rebuilt by the
  settlement, and the verdict of the execution is right in both cases.
* A `stop_test` that arrives while a verdict is being written makes the agent
  write `stopped` after it (`CancelReport`), although `test_main.py:547` expects one
  final status. `OneOutcome` shows that this is the only second verdict.

## 4. Theorems

They are about `Spec` of their modules, with the assumptions on the constants
that these state. They are safety theorems; no fairness is used.

`ExecutionLifecycle_proofs`. For any set
of executions numbered by positive naturals, any devices and agents, any
workers other than `NoWorker`, any bound on claims, any faults. `TypeCorrect`: `TypeOK` is inductive as it
stands. It carries two facts that the rest needs: the tasks that exist are those of
the claims made, and `retry` never passes its limit.

The rows alone have an inductive invariant:
`ActiveHoldsDevice`, `LockIsOwned`, and that a finalized execution has a
verdict. Neither of the first two is inductive without the other: that an
active execution holds its device is kept by a settlement of somebody else
only since a lock names one holder, and that a holder is unsettled is kept
only since a settlement of an active execution finds its own lock to clear.
Every action is classified by what it does to a row (a claim, a restore, a
stop, a verdict, a settlement, or nothing), once, and the theorems
`DevicesAreExclusive`, `LocksAreOwned`, `SettlementIsFinal` and
`RowsImplementPromise` follow from that classification. The refinement maps
the row of an execution to its phase and `lock` to `holder`.
`VerdictsOnlyWorsen` goes over the actions that write a verdict over a verdict:
each takes the merge of the two, and the merges are shown never to return the
milder one, whatever children they meet. `QueuedCanBeClaimed` needs the four
ways a row comes to wait (created, given back, given back by a cancelled task, a
stale claim) to put its queue row back, and that nobody closes the queue row of an
execution that waits but the cancellation that ends it.

`SessionTokens_proofs`. The invariant says where a token may be found. The token of
a row was drawn by a claim of that row's execution and rows that wait have
none; the tokens a task carries were drawn for its execution; a task
that is sending, recording or undoing carries the token of its row and is the
only one of its execution; what was delivered is the row's session and its
row is dispatching or dispatched; what an agent runs or keeps was delivered.
The heart of it is that `begin_dispatch` compares the token of the first read,
and that a restore is possible only from `reserved`, or from `dispatching` by
the one task that knows its send was refused. `StartIsDeliveredOnce`,
`DispatchIsExclusive`, `AgentsAreCurrent` and `NoAnomaly` are its parts.
`OverlapNeedsVerdict` combines it with the device invariant: two runs on one
device belong to executions that were dispatched, neither is queued, so
if neither had a verdict both would hold the one lock.

`AgentExecutions_proofs`, for any finite set of
executions, any memory of at least one entry and any faults. `RefsAreBacked` and
`ServerServesRuns` are not inductive. Their invariant adds, per await, whether a task
there owes a reference (`Holding`; at the awaits of leaving both occur), that the
server is started and stopped at a count of zero (`AtZero`, which needs
`LockIsHeld`: nobody else is inside to change the count), that nobody runs after
the agent has closed, and the heart of it (`Exact`): as long as nothing took the
server from its users, no thread is loose, the count is exactly the references
owed and lost, and the server is up when it is not zero. A task that uses
the server owes a reference, so the count is then not zero. The steps are
proved in two passes, one for the references and one for the types;
`TasksTyped`, `LockIsExclusive`, `ReferencesAreBacked` and `RunsKeepServer` are
the results. `OneOutcomeTold` and `RecordedNeverRuns` have a hypothesis,
`MemorySuffices`: the memory of finished executions has room for all of them
(500 in the code). Without it they are false, since an execution that is
forgotten may be started again. With it the memory is exactly what was recorded,
a task of an execution that is remembered is leaving, and the one verdict beside
`stopped` is that of the task.

`ResultPath_proofs`, for any tree of suites, cases, nodes, steps and assertions,
any number of connections and messages. The rules of `StatusMerge` are
characterised first, one lemma each: what a merge returns, that it never
loses a status that blocks a pass, that an aggregate covers each of its members.
`BadResultsStand` needs no invariant beyond the types: every handler only
worsens the leaves. `VerdictCovers` and `PassesAreEarned` share the invariant
`RowsInv`: a bad leaf makes its case bad, unless the case is still open, and a bad case is seen by
the settlement whatever a half-done `suite_status` writes over the suite. The
settlement therefore judges from the rows, not from what the agent says last.
The path needs to know what may be under way (`PathTyped`): whatever is in the
script, on a wire or was cut off is a message about a row of its kind, hence a
step of `ResultRows` when it is handled. `PathIsRows` says so, and carries the
theorems about rows over. `EndsNoBetter` rests on `PathInv`: as long as nobody has
stopped the execution, the verdict in the script, on any wire and with the agent is
`Overall`, nothing else ends the execution with a verdict of its own, and a
settlement only worsens; `Overall` is then compared with each node the walk
reached, through the verdicts of its case and its suite. That a node is in the
script only if the walk reached it is a lemma about concatenations and flattened
sequences (`SequenceLemmas`); where these need an induction it is the choice
of a least counterexample, a set of naturals that has a smallest element.

`RowsAgree` is about the executions that lost nothing, over any number of
connections and of half-done `suite_status` handlers. It is proved in three layers. The first is about
statuses only: a row `Fits` a verdict if it is open, has it, or fails where
the verdict is an error; a report of the verdict, a `running` however late and whatever a
child that the verdict covers passes upwards keep a row fitting, and a row
that has its verdict keeps it (`FitsReport`, `FitsMerge`, `NodeMerge`). The second
says exactly which messages the script consists of (`ScriptTold`), that each
tells what the runner knows (`ScriptTruth`), that its verdicts cover the outcomes
below them (`SeenCounts`), and that the settlement, which aggregates over all
nodes and cases of a suite, skipped ones included, rebuilds the verdict the
runner formed from those it ran (`SuiteRebuilt`): what it left out was skipped behind
a failure that decides. The third is the invariant `AgreeInv`. While the execution runs
and nobody has asked for a stop, the rows fit, only messages of the script are
under way, its end last, and unless something was lost every outcome and verdict is
recorded or under way. So when the end is handled last the rows are complete, no
stored row makes the verdict worse (`VerdictStays`), and nothing but a settlement can
touch them again. `Agreement` alone is far from inductive: it speaks of settled
executions only, and is decided by all that was handled before.
`WalkAssumption` says that the runner walks over the rows: both are written from
the same snapshot, so each suite, case and node of the rows is in the walk where it is in the
tree, and a suite with legacy steps has nodes as well (`worker.py:930`). TLC
evaluates it on the instance of `Path`.

`AgentLink_proofs`, for any executions, sockets, breaks and protocol
versions. What is under way is described by its direction (`Wire`): results come
from executions with a verdict, confirmations from verdicts that are stored.
`VerdictsAreKept` is inductive with that: what leaves `pending` was confirmed.
`AgentIsReachable` follows from `Handlers`: the newest connection is the one
whose handler still has to bind or is bound, so an older handler that ends
cannot be the mapped one; and a send that removes a mapping either was on the
mapped socket, which is then no longer open, or evicts it.

`WorkerPool_proofs`, for any number of executions, devices, slots, stops and
failures. The invariant has the types and six parts (`Table`, `Capacity`,
`Consumer`, `Stopped`, `Tasks`, `ClaimsAreHeld`): the table of tasks is what
`stop()` waits for; whenever the consumer is about to claim there is room; what
it has in its hands has no task yet; who was cancelled, begun or started when;
a task's execution is not queued and its claim not stranded; a reservation is
in somebody's hands or stranded, never both, and nothing is stranded before the first
stop, crash or failure. `PoolStaysBounded`, `StoppedPoolIsEmpty`,
`ClaimsStayHeld` and `WakeupsArrive` are parts of it.

`ExecutionIntake_proofs`, for any assets, rules, edits, requests, tokens and
retries, and whatever the resolution computes (`Resolution` is an arbitrary
function). The invariant `ReadsStand` says of each request, token and cache
entry: what it read under a revision is what is committed as long as that
revision is the current one, read by read; and a request that holds the locks
has compared its revisions, which the locks keep current. A request that reads
a mixture therefore holds a revision that has moved. `NewExecutionsAreCurrent`
is the step property that follows; it holds whatever the resolver computes.

The rest of `ExecutionIntake_proofs` is about what it does compute. The lemmas
follow the resolver from the inside out: the precedence of variables (`TopLayer`,
`BindingsHaveScopes`), the steps of a case that are kept (`KeptStepsAre`), a case
(`CaseIs`, `CaseExclusions`), the places a target names (`SpecsAreStanding`), a suite
(`SuiteIs`), the whole (`ContentIs`). For every content that resolves they give
`ExecutedAreBound`, `ExecutedAreShown`, `ExecutedAreReady`,
`ExecutedAreAccounted` and `ExecutedAreAddingUp`: a name that a text leaves to the run is in the set of names that the kept nodes before
it set, one that a locator leaves in that of all kept nodes; the page and the resolver stack the same layers; two snapshots in the
same place of a tree would be the same node of the same occurrence; each exclusion
belongs to one occurrence, and each occurrence and node that is left out has its
own; and the live, the left-out and the deleted places of a target partition it,
with one exclusion for each place that is left out, because the suites of a target
differ. The sums of the summary are folds over sets, which the library defines
by a recursive function; `SumCounts` shows, by the least number of summands for
which it would fail, that such a sum of lengths is the number of pairs of a suite
and a place in it, and the rest of the argument counts finite sets.
A last invariant (`ExecutionsResolve`) connects them with the intake:
whatever a request, a token or an execution holds is a complete content that
resolves, so what is true of all those is true of each new execution
(`NodesAreAccounted`, `SummariesAddUp`, `NothingRunsUndefined`, `PageAgrees`,
`EveryExecutionRetries`).

The assumptions of these five. `ResolverIsWired` says that the `Resolution` of the
intake is the resolver. `InputsStand` says of the layouts and targets what
tables and schemas ensure: suites, members, hooks and flows are sequences; a
membership is one row; the suites of a project differ, and a target names a suite
once (`dict.fromkeys`, `profile_resolver.py:431`); the keys of the nodes of a case differ
(`validate_keys`, `case_service.py:80`) and a node is an action or an assertion
(`schemas/case.py`); a suite that a target names belongs to the project. Nothing is
assumed of hooks' keys, of rules, which may name what no longer exists, or of
variables. TLC evaluates both assumptions on the instance of `Intake`.

The invariants `LockIsHeld`, `NoDispatchAnomaly`, `MInv` and the types of
`ResultRows`, `AgentLink`, `WorkerPool` and `ExecutionIntake` are proved and in no run.

Only model-checked: the liveness properties, `EveryExecutionSettles`,
`EveryLockIsReleased`, `EveryTaskEnds`, `BegunIsRecorded`, `ComesBack`, `Confirmed` and
`EveryExecutionIsTaken` (fairness is out of the prover's reach). Every other
property of a passing run, each invariant and each action property, has a theorem.

## 5. Not modelled

* Management of projects, cases, suites and elements; reports, dashboards and
  cleanup; authentication and access checks; the desktop shell of the agent,
  packaging and credentials; the front end: CRUD, formatting or I/O without a
  protocol of their own. What their edits do to a resolution is in
  `ExecutionIntake`.
* The actions of the agent (`executor/actions.py`, the drivers, the locator) and
  the discovery of devices: they drive a real device, and a node comes to any of
  its outcomes in `ResultPath`.
* The step list of the second payload version (`_run_steps`) on the agent's
  side; the server's side is in `ResultRows`.
* The creation of executions without a profile, the re-enabling of a release, the
  deletion of a profile (see the abstractions of `ExecutionIntake`).
* The reports a settlement writes and the log lines an agent sends.
* The internal endpoint that writes an execution's state without a condition
  (`agent_service.py:387`): nothing in the repository calls it.
