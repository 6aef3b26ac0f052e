----------------------------- MODULE WorkerPool -----------------------------
(***************************************************************************)
(* The worker runtime of one process (services/worker_runtime.py): the     *)
(* consumer that claims queued executions, the pool of tasks that run      *)
(* them, the stop of the process and its restart.  One action is what a    *)
(* coroutine does from one await to the next, or what a transaction        *)
(* commits.                                                                *)
(*                                                                         *)
(* The rows of an execution are one value here, as far as the pool tells   *)
(* them apart: "queued" can be claimed, "reserved" is claimed and not      *)
(* dispatched, "sent" is dispatching or dispatched, "settled" has its      *)
(* verdict.  What may happen to them in between is ExecutionLifecycle.     *)
(***************************************************************************)
EXTENDS Naturals, FiniteSets

CONSTANTS
  Execs, NoExec,   \* executions in the order of their queue rows, and none
  Devices,
  DeviceOf,        \* [Execs -> Devices]
  Concurrency,     \* settings.worker_concurrency
  MaxRetries,      \* the two times a stale claim is queued again
  MaxStops,        \* bound: stops and crashes of the process
  MaxFails,        \* bound: transactions and sends that fail
  MaxFlaps         \* bound: a device that goes offline or comes back

ASSUME PoolAssumption ==
  /\ Execs \subseteq Nat /\ NoExec \notin Execs /\ IsFiniteSet(Execs)
  /\ DeviceOf \in [Execs -> Devices]
  /\ Concurrency \in Nat \ {0} /\ MaxRetries \in Nat
  /\ MaxStops \in Nat /\ MaxFails \in Nat /\ MaxFlaps \in Nat

VARIABLES
  row, retry, online,        \* the database: executions, retry_count, devices
  loop, item,                \* _claim_loop: where it awaits, what it has claimed
  wake, slots, begun,        \* _wake_event, _execution_tasks, _execution_started
  task, cancelled,           \* the tasks: where each awaits, task.cancel() called
  stop, active, started,     \* stop(): where it is, active_tasks, started_ids
  missed, stranded,          \* history: a slot freed since the last look at the
                             \* capacity; claims whose holder is gone
  nstop, nfail, nflap        \* counters for the bounds

dbVars     == <<row, retry, online>>
loopVars   == <<loop, item>>
poolVars   == <<wake, slots, begun, missed>>
taskVars   == <<task, cancelled>>
stopVars   == <<stop, active, started>>
boundVars  == <<nstop, nfail, nflap>>
vars == <<dbVars, loopVars, poolVars, taskVars, stopVars, stranded, boundVars>>

\* "claim" and "settle" are transactions not yet committed, "close" the end of
\* the session that claimed, "wait" is _wait_for_wakeup.
LoopStates == {"off", "claim", "close", "settle", "wait"}
\* "created" has not run; "start" has not read the token; "send" is shielded;
\* "ended" waits for its done callback.
TaskStates == {"none", "created", "start", "ready", "send", "observe", "ended"}
StopStates == {"up", "consumer", "grace", "cancelling", "restoring", "down"}

Live(e) == task[e] \notin {"none", "ended"}

Waiting(e) == row[e] = "queued"
Holds(e)   == row[e] \in {"reserved", "sent"}

\* claim_next_queue: the oldest execution whose device is idle, unlocked and
\* online; claim_unavailable_queue: the oldest whose device is not online.
Claimable(e) == /\ Waiting(e) /\ DeviceOf[e] \in online
                /\ \A o \in Execs : Holds(o) => DeviceOf[o] # DeviceOf[e]
Hopeless(e)  == Waiting(e) /\ DeviceOf[e] \notin online
Oldest(e, S) == e \in S /\ \A o \in S : e <= o

Init ==
  /\ row = [e \in Execs |-> "queued"] /\ retry = [e \in Execs |-> 0]
  /\ online = Devices
  /\ loop = "off" /\ item = NoExec
  /\ wake = FALSE /\ slots = {} /\ begun = {} /\ missed = FALSE
  /\ task = [e \in Execs |-> "none"] /\ cancelled = {}
  /\ stop = "down" /\ active = {} /\ started = {}
  /\ stranded = {} /\ nstop = 0 /\ nfail = 0 /\ nflap = 0

-----------------------------------------------------------------------------
(* The consumer.                                                           *)

\* Mutant of Check: one task too many.
CheckOneMore(s) == /\ loop' = IF Cardinality(s) <= Concurrency THEN "claim" ELSE "wait"
                   /\ missed' = FALSE

\* The capacity check with the tasks in `s`: claim again, or wait.
Check(s) == /\ loop' = IF Cardinality(s) < Concurrency THEN "claim" ELSE "wait"
            /\ missed' = FALSE

\* The head of the outer loop: clear the event, then look at the capacity.
Look == /\ wake' = FALSE /\ Check(slots)
        /\ item' = NoExec /\ UNCHANGED <<slots, begun>>

LoopOnly == UNCHANGED <<taskVars, stopVars, nstop, nflap>>

\* start(): a new runtime.
Start ==
  /\ stop = "down"
  /\ stop' = "up" /\ active' = {} /\ started' = {}
  /\ wake' = FALSE /\ slots' = {} /\ begun' = {} /\ missed' = FALSE
  /\ loop' = "claim" /\ item' = NoExec
  /\ UNCHANGED <<dbVars, taskVars, stranded, boundVars>>

\* claim_next_queue commits: the execution and its device are taken.
CommitClaim ==
  /\ stop = "up" /\ loop = "claim"
  /\ \E e \in Execs : /\ Oldest(e, {o \in Execs : Claimable(o)})
                      /\ row' = [row EXCEPT ![e] = "reserved"]
                      /\ loop' = "close" /\ item' = e
  /\ UNCHANGED <<retry, online, poolVars, stranded, nfail>> /\ LoopOnly

\* ... or finds nothing, and the unavailable executions are looked at.
NothingToClaim ==
  /\ stop = "up" /\ loop = "claim" /\ ~ \E e \in Execs : Claimable(e)
  /\ loop' = "settle"
  /\ UNCHANGED <<dbVars, item, poolVars, stranded, nfail>> /\ LoopOnly

\* settle_next_unavailable_queue: one execution is settled and the loop goes on.
SettleUnavailable ==
  /\ stop = "up" /\ loop = "settle"
  /\ \E e \in Execs : /\ Oldest(e, {o \in Execs : Hopeless(o)})
                      /\ row' = [row EXCEPT ![e] = "settled"]
  /\ Check(slots)
  /\ UNCHANGED <<retry, online, item, wake, slots, begun, stranded, nfail>> /\ LoopOnly

\* Mutant of NothingToSettle: the event is cleared on the way into the wait.
NothingToSettleClears ==
  /\ stop = "up" /\ loop = "settle" /\ ~ \E e \in Execs : Hopeless(e)
  /\ loop' = "wait" /\ wake' = FALSE
  /\ UNCHANGED <<dbVars, item, slots, begun, missed, stranded, nfail>> /\ LoopOnly

\* ... or none is there to settle, and the round ends.
NothingToSettle ==
  /\ stop = "up" /\ loop = "settle" /\ ~ \E e \in Execs : Hopeless(e)
  /\ loop' = "wait"
  /\ UNCHANGED <<dbVars, item, poolVars, stranded, nfail>> /\ LoopOnly

\* Mutant of LoopFails: an exception ends the consumer.
LoopDies ==
  /\ stop = "up" /\ loop \in {"claim", "settle", "close"} /\ nfail < MaxFails
  /\ nfail' = nfail + 1 /\ loop' = "off" /\ item' = NoExec
  /\ stranded' = stranded \cup ({item} \ {NoExec})
  /\ UNCHANGED <<dbVars, poolVars>> /\ LoopOnly

\* A transaction raises, before its commit or after it; the round ends.
LoopFails ==
  /\ stop = "up" /\ loop \in {"claim", "settle", "close"} /\ nfail < MaxFails
  /\ nfail' = nfail + 1 /\ loop' = "wait" /\ item' = NoExec
  /\ stranded' = stranded \cup ({item} \ {NoExec})
  /\ UNCHANGED <<dbVars, poolVars>> /\ LoopOnly

\* The session is closed, the task created, the capacity looked at again.
Spawn ==
  /\ stop = "up" /\ loop = "close"
  /\ task' = [task EXCEPT ![item] = "created"] /\ slots' = slots \cup {item}
  /\ Check(slots') /\ item' = NoExec
  /\ UNCHANGED <<dbVars, wake, begun, cancelled, stopVars, stranded, boundVars>>

\* _wait_for_wakeup ends with the event, or with the poll interval.
Woken    == stop = "up" /\ loop = "wait" /\ wake /\ Look
            /\ UNCHANGED <<dbVars, stranded, nfail>> /\ LoopOnly
PollTick == stop = "up" /\ loop = "wait" /\ Look
            /\ UNCHANGED <<dbVars, stranded, nfail>> /\ LoopOnly

-----------------------------------------------------------------------------
(* The tasks: run_reserved_execution as far as the pool is concerned.      *)

TaskOnly == UNCHANGED <<retry, online, loopVars, stopVars, nstop, nflap>>
Step(e, from, to) == task[e] = from /\ task' = [task EXCEPT ![e] = to]

\* The coroutine begins; the runtime notes that it did.
Begin(e) ==
  /\ e \notin cancelled /\ Step(e, "created", "start")
  /\ begun' = begun \cup {e}
  /\ UNCHANGED <<row, cancelled, wake, slots, missed, stranded, nfail>> /\ TaskOnly

\* The session token is read; an execution that is settled is left alone.
ReadToken(e) ==
  /\ e \notin cancelled
  /\ Step(e, "start", IF row[e] = "settled" THEN "ended" ELSE "ready")
  /\ UNCHANGED <<row, cancelled, poolVars, stranded, nfail>> /\ TaskOnly

\* begin_dispatch takes the right to send, or finds the execution settled.
Dispatch(e) ==
  /\ e \notin cancelled
  /\ \/ row[e] = "reserved" /\ Step(e, "ready", "send")
        /\ row' = [row EXCEPT ![e] = "sent"]
     \/ row[e] = "settled" /\ Step(e, "ready", "ended") /\ UNCHANGED row
  /\ UNCHANGED <<cancelled, poolVars, stranded, nfail>> /\ TaskOnly

Fails == nfail < MaxFails /\ nfail' = nfail + 1

\* The claim of an execution is left to reclaim_stale_claimed.
Strand(e) == stranded' = IF row[e] = "reserved" THEN stranded \cup {e} ELSE stranded

\* A transaction before the dispatch raises: _finalize_error, which may fail in
\* the same outage; a dispatch that was committed all the same stays recorded.
TaskFails(e) ==
  /\ e \notin cancelled /\ task[e] \in {"start", "ready"} /\ Fails
  /\ task' = [task EXCEPT ![e] = "ended"]
  /\ \/ row' = [row EXCEPT ![e] = "settled"] /\ UNCHANGED stranded
     \/ UNCHANGED row /\ Strand(e)
     \/ /\ task[e] = "ready" /\ row[e] = "reserved"
        /\ row' = [row EXCEPT ![e] = "sent"] /\ UNCHANGED stranded
  /\ UNCHANGED <<cancelled, poolVars>> /\ TaskOnly

\* The shielded send ends: delivered, refused, or nobody knows.  After a
\* cancellation a refusal is undone, a delivery ends the task, and where
\* nobody knows the task goes on to observe as if it had not been cancelled.
\* What a refusal writes may fail too.
SendEnds(e) ==
  /\ \/ Step(e, "send", IF e \in cancelled THEN "ended" ELSE "observe") /\ UNCHANGED <<row, nfail>>
     \/ Step(e, "send", "observe") /\ UNCHANGED row /\ Fails
     \/ /\ Step(e, "send", "ended") /\ Fails
        /\ \/ row' = [row EXCEPT ![e] = IF @ = "settled" \/ e \notin cancelled THEN "settled"
                                        ELSE "queued"]
           \/ UNCHANGED row
  /\ cancelled' = cancelled \ {e}
  /\ UNCHANGED <<poolVars, stranded>> /\ TaskOnly

\* _observe_execution sees the verdict.
ObserveEnds(e) ==
  /\ e \notin cancelled /\ row[e] = "settled" /\ Step(e, "observe", "ended")
  /\ UNCHANGED <<row, cancelled, poolVars, stranded, nfail>> /\ TaskOnly

\* A transaction of _observe_execution raises; nobody catches it.
ObserveFails(e) ==
  /\ e \notin cancelled /\ Step(e, "observe", "ended") /\ Fails
  /\ UNCHANGED <<row, cancelled, poolVars, stranded>> /\ TaskOnly

\* Mutant of Cancelled: nothing is restored before the dispatch.
CancelledForgets(e) ==
  /\ e \in cancelled /\ task[e] \in {"created", "start", "ready", "observe"}
  /\ task' = [task EXCEPT ![e] = "ended"] /\ cancelled' = cancelled \ {e}
  /\ stranded' = IF task[e] = "start" /\ row[e] = "reserved" THEN stranded \cup {e} ELSE stranded
  /\ UNCHANGED <<row, poolVars, nfail>> /\ TaskOnly

\* task.cancel(): restore_before_dispatch queues the execution again when the
\* task has read its token; before that it restores nothing.  It may fail, or find
\* the dispatch that was under way committed.
Cancelled(e) ==
  /\ e \in cancelled /\ task[e] \in {"created", "start", "ready", "observe"}
  /\ task' = [task EXCEPT ![e] = "ended"] /\ cancelled' = cancelled \ {e}
  /\ \/ task[e] \in {"created", "observe"} /\ UNCHANGED <<row, stranded, nfail>>
     \/ task[e] = "start" /\ UNCHANGED <<row, nfail>> /\ Strand(e)
     \/ task[e] = "ready" /\ UNCHANGED row /\ Fails /\ Strand(e)
     \/ /\ task[e] = "ready"
        /\ row' \in IF row[e] = "reserved"
                   THEN {[row EXCEPT ![e] = to] : to \in {"queued", "sent"}} ELSE {row}
        /\ UNCHANGED <<stranded, nfail>>
  /\ UNCHANGED poolVars /\ TaskOnly

\* _execution_done, the callback of a task that ended.
Collect(e) ==
  /\ Step(e, "ended", "none") /\ slots' = slots \ {e}
  /\ begun' = IF stop = "up" THEN begun \ {e} ELSE begun
  /\ wake' = TRUE /\ missed' = TRUE
  /\ UNCHANGED <<row, cancelled, stranded, nfail>> /\ TaskOnly

-----------------------------------------------------------------------------
(* stop(), the crash of the process, and what runs beside it.              *)

StopOnly == UNCHANGED <<retry, online, nfail, nflap>>
RestoreOnly == UNCHANGED <<loopVars, poolVars, taskVars, stop, started, retry, online, nstop, nflap>>

\* The stop event is set and the consumer cancelled.
StopCalled ==
  /\ stop = "up" /\ nstop < MaxStops /\ nstop' = nstop + 1
  /\ stop' = "consumer" /\ wake' = TRUE
  /\ UNCHANGED <<row, loopVars, slots, begun, missed, taskVars, active, started, stranded>>
  /\ StopOnly

\* The cancelled consumer: a claim under way is committed or not, and what it
\* has claimed is dropped.
ConsumerEnds ==
  /\ stop = "consumer" /\ loop # "off" /\ loop' = "off" /\ item' = NoExec
  /\ \/ loop = "claim" /\ \E e \in Execs :
          /\ Oldest(e, {o \in Execs : Claimable(o)})
          /\ row' = [row EXCEPT ![e] = "reserved"] /\ stranded' = stranded \cup {e}
     \/ row' = row /\ stranded' = stranded \cup ({item} \ {NoExec})
  /\ UNCHANGED <<poolVars, taskVars, stopVars, nstop>> /\ StopOnly

\* Then the tasks are given the grace period.
Grace ==
  /\ stop = "consumer" /\ loop = "off"
  /\ active' = slots /\ started' = slots \cap begun
  /\ IF slots = {} THEN stop' = "down" /\ begun' = {} ELSE stop' = "grace" /\ UNCHANGED begun
  /\ UNCHANGED <<row, loopVars, wake, slots, missed, taskVars, stranded, nstop>> /\ StopOnly

\* All ended in time, and their callbacks have run.
GraceSuffices ==
  /\ stop = "grace" /\ \A e \in active : task[e] = "none"
  /\ stop' = "down" /\ begun' = {}
  /\ UNCHANGED <<row, loopVars, wake, slots, missed, taskVars, active, started, stranded, nstop>>
  /\ StopOnly

\* Some did not: they are cancelled ...
GraceExpires ==
  /\ stop = "grace" /\ \E e \in active : Live(e)
  /\ stop' = "cancelling" /\ cancelled' = {e \in active : Live(e)}
  /\ UNCHANGED <<row, loopVars, poolVars, task, active, started, stranded, nstop>> /\ StopOnly

\* Mutant of AllCancelled: the cancelled tasks are not waited for.
CancelledLeft ==
  /\ stop = "cancelling" /\ stop' = "restoring"
  /\ UNCHANGED <<row, loopVars, poolVars, taskVars, active, started, stranded, nstop>> /\ StopOnly

\* ... and waited for, however long the one that observes takes.
AllCancelled ==
  /\ stop = "cancelling" /\ \A e \in active : task[e] = "none"
  /\ stop' = "restoring"
  /\ UNCHANGED <<row, loopVars, poolVars, taskVars, active, started, stranded, nstop>> /\ StopOnly

Unstarted == {e \in active : e \notin started /\ e \notin begun}

\* restore_reserved_execution for a task that never ran; a failure is logged.
RestoreUnstarted(e) ==
  /\ stop = "restoring" /\ e \in Unstarted /\ active' = active \ {e}
  /\ \/ /\ row' = IF row[e] = "reserved" THEN [row EXCEPT ![e] = "queued"] ELSE row
        /\ UNCHANGED <<stranded, nfail>>
     \/ UNCHANGED row /\ Fails /\ Strand(e)
  /\ RestoreOnly

StopEnds ==
  /\ stop = "restoring" /\ Unstarted = {} /\ stop' = "down" /\ begun' = {}
  /\ UNCHANGED <<row, loopVars, wake, slots, missed, taskVars, active, started, stranded, nstop>>
  /\ StopOnly

\* The process dies, its tasks with it.
Crash ==
  /\ stop # "down" /\ nstop < MaxStops /\ nstop' = nstop + 1
  /\ stop' = "down" /\ loop' = "off" /\ item' = NoExec
  /\ task' = [e \in Execs |-> "none"] /\ cancelled' = {} /\ slots' = {} /\ begun' = {}
  /\ stranded' = stranded \cup {e \in Execs : row[e] = "reserved"}
  /\ UNCHANGED <<row, wake, missed, active, started>> /\ StopOnly

EnvOnly == UNCHANGED <<loopVars, poolVars, taskVars, stopVars, nstop, nfail>>

\* reclaim_stale_claimed, run by a process that is up: a claim ten minutes old
\* is queued again, or settled when that has been done too often.  A claim
\* somebody still holds, or whose task has just ended, does not get that old.
Reclaim(e) ==
  /\ stop = "up" /\ e \in stranded /\ row[e] = "reserved" /\ task[e] = "none"
  /\ \/ retry[e] < MaxRetries /\ retry' = [retry EXCEPT ![e] = @ + 1]
        /\ row' = [row EXCEPT ![e] = "queued"]
     \/ retry[e] = MaxRetries /\ retry' = retry /\ row' = [row EXCEPT ![e] = "settled"]
  /\ stranded' = stranded \ {e} /\ UNCHANGED <<online, nflap>> /\ EnvOnly

\* The verdict of an execution: the agent's, a stop's, a scan's.
Settles(e) ==
  /\ row[e] \in {"reserved", "sent"} /\ row' = [row EXCEPT ![e] = "settled"]
  /\ stranded' = stranded \ {e} /\ UNCHANGED <<retry, online, nflap>> /\ EnvOnly

Flap(d) ==
  /\ nflap < MaxFlaps /\ nflap' = nflap + 1
  /\ online' = IF d \in online THEN online \ {d} ELSE online \cup {d}
  /\ UNCHANGED <<row, retry, stranded>> /\ EnvOnly

-----------------------------------------------------------------------------
Consume == CommitClaim \/ NothingToClaim \/ SettleUnavailable \/ NothingToSettle \/ Spawn \/ Woken

Advance(e) ==
  \/ Begin(e) \/ ReadToken(e) \/ Dispatch(e) \/ SendEnds(e) \/ ObserveEnds(e)
  \/ Cancelled(e) \/ Collect(e)

Stopping ==
  \/ ConsumerEnds \/ Grace \/ GraceSuffices \/ GraceExpires \/ AllCancelled
  \/ (\E e \in Execs : RestoreUnstarted(e)) \/ StopEnds

Next ==
  \/ Start \/ Consume \/ PollTick \/ LoopFails
  \/ \E e \in Execs : Advance(e) \/ TaskFails(e) \/ ObserveFails(e) \/ Reclaim(e) \/ Settles(e)
  \/ StopCalled \/ Stopping \/ Crash
  \/ \E d \in Devices : Flap(d)

Spec == Init /\ [][Next]_vars

\* The event loop runs what can run, the poll interval and the grace period
\* elapse, a service manager restarts the process, the scan runs every minute,
\* and an execution that was sent gets its verdict (ExecutionLifecycle).
FairSpec ==
  /\ Spec
  /\ WF_vars(Start) /\ WF_vars(Consume) /\ WF_vars(PollTick) /\ WF_vars(Stopping)
  /\ \A e \in Execs : /\ WF_vars(Advance(e)) /\ WF_vars(Reclaim(e))
                      /\ WF_vars(row[e] = "sent" /\ Settles(e))

-----------------------------------------------------------------------------
(* Properties                                                              *)

\* Types; a claim is queued again at most MaxRetries times (worker.py:1490).
TypeOK ==
  /\ row \in [Execs -> {"queued", "reserved", "sent", "settled"}]
  /\ retry \in [Execs -> 0 .. MaxRetries] /\ online \in SUBSET Devices
  /\ loop \in LoopStates /\ item \in Execs \cup {NoExec}
  /\ wake \in BOOLEAN /\ missed \in BOOLEAN
  /\ slots \in SUBSET Execs /\ begun \in SUBSET Execs
  /\ task \in [Execs -> TaskStates] /\ cancelled \in SUBSET Execs
  /\ stop \in StopStates /\ active \in SUBSET Execs /\ started \in SUBSET Execs
  /\ stranded \in SUBSET Execs
  /\ nstop \in Nat /\ nfail \in Nat /\ nflap \in Nat

\* The pool never runs more than worker_concurrency executions, and no task is
\* outside the table that stop() waits for (worker_runtime.py:108, 148).
PoolIsBounded ==
  /\ Cardinality({e \in Execs : task[e] # "none"}) <= Concurrency
  /\ {e \in Execs : task[e] # "none"} \subseteq slots

\* A process that has stopped leaves no task behind (worker_runtime.py:107-120).
StopLeavesNoTask == stop = "down" => \A e \in Execs : task[e] = "none"

\* Who will dispatch the claim or give it back: the consumer, a task before its
\* dispatch, or a stop that restores what never ran.
Held(e) ==
  \/ item = e \/ task[e] \in {"created", "start", "ready"}
  \/ stop \in {"cancelling", "restoring"} /\ e \in Unstarted

\* A claim is lost only by a stop that finds the consumer or a task before its
\* token, a crash, or a transaction that fails (the claim's own, the restore's or
\* that of _finalize_error): without them every claim is held, and what the scan
\* takes back is held by nobody (worker_runtime.py:107-137).
ClaimsAreHeld ==
  /\ \A e \in Execs : row[e] = "reserved" => (Held(e) <=> e \notin stranded)
  /\ stranded # {} => nstop + nfail > 0

\* The consumer does not wait over a slot that has become free since it looked
\* (worker_runtime.py:143).
NoLostWakeup == loop = "wait" /\ ~wake => ~missed

\* Every queued execution is sent or settled in the end, whatever fails.
EveryExecutionIsTaken == \A e \in Execs : Waiting(e) ~> row[e] \in {"sent", "settled"}

=============================================================================
