-------------------------- MODULE ExecutionLifecycle --------------------------
(***************************************************************************)
(* The life of an execution from its place in the queue to its report:     *)
(* the rows of PostgreSQL (executions, execution_queue, devices, agents),  *)
(* the worker tasks that claim and dispatch it, the stop and release       *)
(* endpoints, the periodic scans, and the agent that runs it.  One action  *)
(* is one database transaction, one message, or one local step of a task;  *)
(* everything between two transactions of a task may interleave with       *)
(* everything else.                                                        *)
(*                                                                         *)
(* Time is not modelled: a deadline (execution timeout, stop grace, stale  *)
(* claim, heartbeat timeout, send timeout) may pass at any moment.         *)
(***************************************************************************)
EXTENDS Integers, FiniteSets, StatusMerge

CONSTANTS
  Execs,          \* executions, numbered in the order they were queued
  Devices, DeviceOf,  \* devices and the one each execution names
  Agents, AgentOf,    \* agents and the one each device is attached to
  Workers, NoWorker,  \* worker ids, and the empty claimed_by
  MaxSessions,    \* bound: how many claims may be made in all
  CancelExecs,    \* bound: executions somebody cancels while they are queued
  StopExecs,      \* bound: executions somebody stops while they run
  Faults,         \* bound: what may go wrong in an instance, out of FaultKinds
  AgentStatuses,  \* the verdicts an agent may report
  ChildSets       \* the sets of stored child statuses a merge may meet

NoExec   == 0     \* locked_by_execution IS NULL
NoToken  == 0     \* session_token IS NULL
Sessions == 1 .. MaxSessions

ASSUME ExecsAssumption   == Execs \subseteq Nat \ {NoExec}
ASSUME DevicesAssumption == DeviceOf \in [Execs -> Devices] /\ AgentOf \in [Devices -> Agents]
ASSUME WorkersAssumption == NoWorker \notin Workers
ASSUME BoundAssumption   == MaxSessions \in Nat
\* A transaction raises, a task or an agent process dies, a worker shuts down,
\* a claim goes stale, a message is lost or its fate unknown, an agent or a
\* device goes away, somebody releases a device or deletes an agent by hand, a
\* device row is written from a snapshot that another transaction overtook.
FaultKinds == {"raise", "die", "shutdown", "stale", "lost", "offline", "crash",
               "release", "delete", "snapshot"}
ASSUME FaultAssumption   == Faults \subseteq FaultKinds
ASSUME StatusAssumption  == /\ AgentStatuses \subseteq TerminalStates \ {"cancelled"}
                            /\ ChildSets \subseteq SUBSET Blocking

VARIABLES
  \* executions: status, dispatch_state, session_token (the number of the
  \* claim that drew it), termination_reason, finalized_at IS NOT NULL
  status, dispatch, token, reason, finalized,
  \* execution_queue: status, claimed_by, retry_count
  queue, owner, retry,
  \* devices: locked_by_execution, status; agents: status = online
  lock, dev, online,
  \* the status a device_list transaction is about to write to a device; the
  \* queue row reclaim_stale_claimed has selected: how far it is with it, and
  \* the claimed_by it saw
  snap, scan,
  \* worker tasks: one per claim; the step it is at, its execution, its
  \* worker, the token it read first and the one in its payload
  nclaim, pc, job, by, tok, pay,
  \* the stop endpoint's cancellation of a queued execution
  cancelling,
  \* start_test messages in flight and all ever delivered, stop_test in flight
  starts, sent, stops,
  \* agents: the session each execution runs under, the finished ones it
  \* remembers, the verdict it keeps until the server confirms it
  run, fin, result

rowVars   == <<status, dispatch, token, reason, finalized>>
queueVars == <<queue, owner, retry>>
devVars   == <<lock, dev>>
dbVars    == <<rowVars, queueVars, devVars, online>>
taskVars  == <<nclaim, pc, job, by, tok, pay>>
netVars   == <<starts, sent, stops, snap, scan>>
agentVars == <<run, fin, result>>
vars      == <<dbVars, taskVars, cancelling, netVars, agentVars>>

-----------------------------------------------------------------------------
Active(e)   == status[e] \in {"running", "stopping"}
Terminal(e) == status[e] \in TerminalStates
Dev(e)      == DeviceOf[e]
NoResult    == [token |-> NoToken, status |-> "none"]
NotScanned  == [at |-> "no", by |-> NoWorker]

RowsTypeOK ==
  /\ status    \in [Execs -> TerminalStates \cup {"queued", "running", "stopping"}]
  /\ dispatch  \in [Execs -> {"pending", "reserved", "dispatching", "dispatched"}]
  /\ token     \in [Execs -> Sessions \cup {NoToken}]
  /\ reason    \in [Execs -> {"none", "user_stop", "timeout"}]
  /\ finalized \in [Execs -> BOOLEAN]
  /\ queue     \in [Execs -> {"pending", "claimed", "done", "failed"}]
  /\ owner     \in [Execs -> Workers \cup {NoWorker}]
  /\ retry     \in [Execs -> 0 .. 2]
  /\ lock      \in [Devices -> Execs \cup {NoExec}]
  /\ dev       \in [Devices -> {"idle", "busy", "offline"}]
  /\ online    \in [Agents -> BOOLEAN]

\* A task that exists has an execution; the claims made so far have a task.
TasksTypeOK ==
  /\ nclaim \in 0 .. MaxSessions
  /\ pc  \in [Sessions -> {"idle", "start", "payload", "cas", "casfail", "send", "sendc",
                           "record", "recordc", "undo", "fail", "observe", "done"}]
  /\ job \in [Sessions -> Execs \cup {NoExec}]
  /\ by  \in [Sessions -> Workers \cup {NoWorker}]
  /\ tok \in [Sessions -> Sessions \cup {NoToken}]
  /\ pay \in [Sessions -> Sessions \cup {NoToken}]
  /\ \A k \in Sessions : /\ k <= nclaim <=> pc[k] # "idle"
                         /\ k <= nclaim <=> job[k] # NoExec
  /\ cancelling \in [Execs -> {"no", "read", "lost", "done"}]

AgentsTypeOK ==
  /\ snap   \in [Devices -> {"none", "idle", "offline"}]
  /\ scan   \in [Execs -> [at : {"no", "row", "write"}, by : Workers \cup {NoWorker}]]
  /\ starts \subseteq Execs \X (Sessions \cup {NoToken})
  /\ sent   \subseteq Execs \X (Sessions \cup {NoToken})
  /\ stops  \subseteq Execs
  /\ run    \in [Execs -> Sessions \cup {NoToken}]
  /\ fin    \subseteq Execs
  /\ result \in [Execs -> [token : Sessions \cup {NoToken},
                           status : AgentStatuses \cup {"stopped", "none"}]]

TypeOK == RowsTypeOK /\ TasksTypeOK /\ AgentsTypeOK

Init ==
  /\ status    = [e \in Execs |-> "queued"]
  /\ dispatch  = [e \in Execs |-> "pending"]
  /\ token     = [e \in Execs |-> NoToken]
  /\ reason    = [e \in Execs |-> "none"]
  /\ finalized = [e \in Execs |-> FALSE]
  /\ queue     = [e \in Execs |-> "pending"]
  /\ owner     = [e \in Execs |-> NoWorker]
  /\ retry     = [e \in Execs |-> 0]
  /\ lock      = [d \in Devices |-> NoExec]
  /\ dev       = [d \in Devices |-> "idle"]
  /\ online    = [a \in Agents |-> TRUE]
  /\ nclaim    = 0
  /\ pc  = [k \in Sessions |-> "idle"]
  /\ job = [k \in Sessions |-> NoExec]
  /\ by  = [k \in Sessions |-> NoWorker]
  /\ tok = [k \in Sessions |-> NoToken]
  /\ pay = [k \in Sessions |-> NoToken]
  /\ cancelling = [e \in Execs |-> "no"]
  /\ snap      = [d \in Devices |-> "none"]
  /\ scan      = [e \in Execs |-> NotScanned]
  /\ starts = {} /\ sent = {} /\ stops = {}
  /\ run    = [e \in Execs |-> NoToken]
  /\ fin    = {}
  /\ result = [e \in Execs |-> NoResult]

-----------------------------------------------------------------------------
(* Transactions shared by several callers.                                 *)

\* Mutants of MarkTerminal: the claim of finalized_at forgotten; the device
\* kept.
MarkTerminalAgain(e, verdict) ==
  /\ \E c \in ChildSets :
       status' = [status EXCEPT ![e] = MergeExecutionStatus(verdict, c)]
  /\ finalized' = [finalized EXCEPT ![e] = TRUE]
  /\ queue' = [queue EXCEPT ![e] = "done"]
  /\ IF lock[Dev(e)] = e
       THEN /\ lock' = [lock EXCEPT ![Dev(e)] = NoExec]
            /\ dev'  = [dev EXCEPT ![Dev(e)] = "idle"]
       ELSE UNCHANGED devVars
  /\ UNCHANGED <<dispatch, token, reason, owner, retry, online>>

MarkTerminalKeepsDevice(e, verdict) ==
  IF finalized[e] THEN UNCHANGED dbVars
  ELSE /\ \E c \in ChildSets :
            status' = [status EXCEPT ![e] = MergeExecutionStatus(verdict, c)]
       /\ finalized' = [finalized EXCEPT ![e] = TRUE]
       /\ queue' = [queue EXCEPT ![e] = "done"]
       /\ UNCHANGED <<dispatch, token, reason, owner, retry, devVars, online>>

\* _mark_terminal: whoever finds finalized_at NULL settles the execution.
\* The verdict is merged with the stored children, the device is given back
\* if this execution still holds it, the queue row is closed.
MarkTerminal(e, verdict) ==
  IF finalized[e] THEN UNCHANGED dbVars
  ELSE /\ \E c \in ChildSets :
            status' = [status EXCEPT ![e] = MergeExecutionStatus(verdict, c)]
       /\ finalized' = [finalized EXCEPT ![e] = TRUE]
       /\ queue' = [queue EXCEPT ![e] = "done"]
       /\ IF lock[Dev(e)] = e
            THEN /\ lock' = [lock EXCEPT ![Dev(e)] = NoExec]
                 /\ dev'  = [dev EXCEPT ![Dev(e)] = "idle"]
            ELSE UNCHANGED devVars
       /\ UNCHANGED <<dispatch, token, reason, owner, retry, online>>

\* Bound: an execution goes back to the queue only while enough claims are
\* left for everything queued, so that the bound never starves a queued one.
RoomToRequeue ==
  nclaim + Cardinality({e \in Execs : status[e] = "queued"}) < MaxSessions

\* Mutant of CanRestore: the dispatch state is not part of the condition.
CanRestoreAnyState(e, t, w, d) ==
  /\ status[e] = "running" /\ ~finalized[e]
  /\ token[e] = t /\ queue[e] = "claimed" /\ owner[e] = w

\* restore_reserved_execution: the conditional UPDATE of the execution and
\* the queue row that has to be this worker's claim; otherwise the whole
\* transaction is rolled back.
CanRestore(e, t, w, d) ==
  /\ status[e] = "running" /\ ~finalized[e]
  /\ token[e] = t /\ dispatch[e] = d
  /\ queue[e] = "claimed" /\ owner[e] = w

\* Mutant of Restore: the queue row stays claimed.
RestoreForgetsQueue(e) ==
  /\ RoomToRequeue
  /\ status'   = [status EXCEPT ![e] = "queued"]
  /\ dispatch' = [dispatch EXCEPT ![e] = "pending"]
  /\ token'    = [token EXCEPT ![e] = NoToken]
  /\ lock' = [d \in Devices |-> IF lock[d] = e THEN NoExec ELSE lock[d]]
  /\ dev'  = [d \in Devices |-> IF lock[d] # e THEN dev[d]
                                ELSE IF online[AgentOf[d]] THEN "idle" ELSE "offline"]
  /\ UNCHANGED <<reason, finalized, queue, owner, online>>

Restore(e) ==
  /\ RoomToRequeue
  /\ status'   = [status EXCEPT ![e] = "queued"]
  /\ dispatch' = [dispatch EXCEPT ![e] = "pending"]
  /\ token'    = [token EXCEPT ![e] = NoToken]
  /\ lock' = [d \in Devices |-> IF lock[d] = e THEN NoExec ELSE lock[d]]
  /\ dev'  = [d \in Devices |-> IF lock[d] # e THEN dev[d]
                                ELSE IF online[AgentOf[d]] THEN "idle" ELSE "offline"]
  /\ queue' = [queue EXCEPT ![e] = "pending"]
  /\ owner' = [owner EXCEPT ![e] = NoWorker]
  /\ UNCHANGED <<reason, finalized, online>>

-----------------------------------------------------------------------------
(* The queue: claim_next_queue and claim_unavailable_queue.                *)

Waiting(e)  == queue[e] = "pending" /\ status[e] = "queued" /\ dispatch[e] = "pending"
Runnable(e) == /\ Waiting(e)
               /\ dev[Dev(e)] = "idle" /\ lock[Dev(e)] = NoExec
               /\ online[AgentOf[Dev(e)]]
Hopeless(e) == Waiting(e) /\ (dev[Dev(e)] = "offline" \/ ~online[AgentOf[Dev(e)]])

\* One transaction takes the device, closes the queue row to others, draws a
\* session token and makes the execution running; a task is created for it.
\* Rows that another transaction has locked are skipped, so the order of the
\* queue is kept among the executions of one device.
Claim(w, e) ==
  LET k == nclaim + 1 IN
  /\ nclaim < MaxSessions
  /\ Runnable(e) /\ \A f \in Execs : Runnable(f) /\ Dev(f) = Dev(e) => e <= f
  /\ lock' = [lock EXCEPT ![Dev(e)] = e]
  /\ dev'  = [dev EXCEPT ![Dev(e)] = "busy"]
  /\ queue' = [queue EXCEPT ![e] = "claimed"]
  /\ owner' = [owner EXCEPT ![e] = w]
  /\ status'   = [status EXCEPT ![e] = "running"]
  /\ dispatch' = [dispatch EXCEPT ![e] = "reserved"]
  /\ token'    = [token EXCEPT ![e] = k]
  /\ nclaim' = k
  /\ pc'  = [pc EXCEPT ![k] = "start"]
  /\ job' = [job EXCEPT ![k] = e]
  /\ by'  = [by EXCEPT ![k] = w]
  /\ UNCHANGED <<reason, finalized, retry, online, tok, pay, cancelling, netVars, agentVars>>

\* An execution whose device or agent is gone ends at once as an error.  The
\* claim loop calls this after a claim found nothing, in a transaction of its
\* own, so nothing of that claim's view still holds.
SettleUnavailable(e) ==
  /\ Hopeless(e) /\ \A f \in Execs : Hopeless(f) /\ Dev(f) = Dev(e) => e <= f
  /\ MarkTerminal(e, "error")
  /\ UNCHANGED <<taskVars, cancelling, netVars, agentVars>>

-----------------------------------------------------------------------------
(* A worker task: run_reserved_execution, one transaction after another.   *)

\* A task that is over keeps nothing of what it read.
Go(k, step) ==
  /\ pc' = [pc EXCEPT ![k] = step]
  /\ IF step = "done" THEN /\ tok' = [tok EXCEPT ![k] = NoToken]
                           /\ pay' = [pay EXCEPT ![k] = NoToken]
                           /\ by'  = [by EXCEPT ![k] = NoWorker]
                      ELSE UNCHANGED <<tok, pay, by>>

\* A step of a task that touches no more than its own record and the rows.
TaskOnly == UNCHANGED <<nclaim, job, cancelling, netVars, agentVars>>

\* The first transaction reads the session token; an execution that already
\* has its verdict is settled, one that is not active is left alone.
StartPhase(k) ==
  LET e == job[k] IN
  /\ pc[k] = "start"
  /\ IF Terminal(e)
       THEN MarkTerminal(e, status[e]) /\ Go(k, "done")
     ELSE /\ UNCHANGED dbVars
          /\ IF Active(e) THEN /\ pc'  = [pc EXCEPT ![k] = "payload"]
                               /\ tok' = [tok EXCEPT ![k] = token[e]]
                               /\ UNCHANGED <<pay, by>>
                          ELSE Go(k, "done")
  /\ TaskOnly

\* The payload is built from a second read of the execution.
BuildPayload(k) ==
  /\ pc[k] = "payload"
  /\ pay' = [pay EXCEPT ![k] = token[job[k]]]
  /\ pc'  = [pc EXCEPT ![k] = "cas"]
  /\ UNCHANGED <<dbVars, by, tok>> /\ TaskOnly

\* Any of the transactions before or after the send may raise.
TransactionFails(k) ==
  /\ "raise" \in Faults
  /\ pc[k] \in {"start", "payload", "cas", "record"}
  /\ Go(k, "fail")
  /\ UNCHANGED dbVars /\ TaskOnly

\* Mutant of CanDispatch: the token is not part of the condition.
CanDispatchAnySession(e, t) ==
  status[e] = "running" /\ dispatch[e] = "reserved" /\ ~finalized[e]

\* begin_dispatch: the condition of reserved -> dispatching.
CanDispatch(e, t) ==
  /\ status[e] = "running" /\ dispatch[e] = "reserved"
  /\ token[e] = t /\ ~finalized[e]

\* The task dispatches for the session it read first, or learns it may not.
BeginDispatch(k) ==
  LET e == job[k] IN
  /\ pc[k] = "cas"
  /\ IF CanDispatch(e, tok[k])
       THEN dispatch' = [dispatch EXCEPT ![e] = "dispatching"] /\ Go(k, "send")
       ELSE UNCHANGED dispatch /\ Go(k, "casfail")
  /\ UNCHANGED <<status, token, reason, finalized, queueVars, devVars, online>>
  /\ TaskOnly

\* _handle_dispatch_cas_failure: the stop, or the verdict, that came first.
HandleCasFailure(k) ==
  LET e == job[k] IN
  /\ pc[k] = "casfail"
  /\ IF token[e] # tok[k] THEN UNCHANGED dbVars
     ELSE IF status[e] = "stopping" THEN MarkTerminal(e, "stopped")
     ELSE IF Terminal(e) THEN MarkTerminal(e, status[e])
     ELSE IF dispatch[e] # "reserved" THEN UNCHANGED dbVars
     ELSE MarkTerminal(e, "error")
  /\ Go(k, "done") /\ TaskOnly

\* The send of start_test, outside every transaction: written to the agent's
\* socket, refused, or cut off by the timeout with the outcome unknown.
Deliver(k) == /\ starts' = starts \cup {<<job[k], pay[k]>>}
              /\ sent'   = sent \cup {<<job[k], pay[k]>>}
              /\ UNCHANGED <<stops, snap, scan>>

SendOk(k) ==
  /\ pc[k] \in {"send", "sendc"}
  /\ Deliver(k)
  /\ Go(k, IF pc[k] = "send" THEN "record" ELSE "recordc")
  /\ UNCHANGED <<dbVars, nclaim, job, cancelling, agentVars>>

SendRejected(k) ==
  /\ pc[k] \in {"send", "sendc"}
  /\ Go(k, IF pc[k] = "send" THEN "fail" ELSE "undo")
  /\ UNCHANGED dbVars /\ TaskOnly

\* Mutant of SendUncertain: a timeout is taken for a refusal.
SendTimeoutIsRefusal(k) ==
  /\ "lost" \in Faults
  /\ pc[k] \in {"send", "sendc"}
  /\ Deliver(k) \/ UNCHANGED netVars
  /\ Go(k, IF pc[k] = "send" THEN "fail" ELSE "undo")
  /\ UNCHANGED <<dbVars, nclaim, job, cancelling, agentVars>>

SendUncertain(k) ==
  /\ "lost" \in Faults
  /\ pc[k] \in {"send", "sendc"}
  /\ Deliver(k) \/ UNCHANGED netVars
  /\ Go(k, "observe")
  /\ UNCHANGED <<dbVars, nclaim, job, cancelling, agentVars>>

\* The shutdown cancels the task while it sends; the send itself is shielded.
CancelSend(k) ==
  /\ "shutdown" \in Faults
  /\ pc[k] = "send"
  /\ Go(k, "sendc")
  /\ UNCHANGED dbVars /\ TaskOnly

\* mark_dispatched: the condition of dispatching -> dispatched.
CanMarkDispatched(e, t) ==
  dispatch[e] = "dispatching" /\ token[e] = t /\ Active(e) /\ ~finalized[e]

\* _record_dispatch_success: the dispatch is recorded, or the verdict that
\* overtook it settled.  A cancelled task then leaves, another one observes.
RecordDispatch(k) ==
  LET e == job[k]
      marked == CanMarkDispatched(e, tok[k])
  IN
  /\ pc[k] \in {"record", "recordc"}
  /\ IF marked
       THEN /\ dispatch' = [dispatch EXCEPT ![e] = "dispatched"]
            /\ UNCHANGED <<status, token, reason, finalized, queueVars, devVars, online>>
       ELSE IF token[e] = tok[k] /\ Terminal(e) THEN MarkTerminal(e, status[e])
       ELSE UNCHANGED dbVars
  /\ Go(k, IF marked /\ pc[k] = "record" THEN "observe" ELSE "done")
  /\ TaskOnly

\* _observe_execution: its polls end at a verdict, which it settles; its
\* stop_test and its forced end are SendStop and ForceEnd below.
Observe(k) ==
  LET e == job[k] IN
  /\ pc[k] = "observe" /\ Terminal(e)
  /\ MarkTerminal(e, status[e])
  /\ Go(k, "done") /\ TaskOnly

\* _finalize_error: whatever session the execution is in by now.
FinalizeError(k) ==
  /\ pc[k] = "fail"
  /\ MarkTerminal(job[k], "error")
  /\ Go(k, "done") /\ TaskOnly

-----------------------------------------------------------------------------
(* Shutdown and crash of a worker.                                         *)

\* restore_reserved_execution of the runtime: a task cancelled before its
\* first step, undone under whatever token the execution has now.
CancelUnstarted(k) ==
  LET e == job[k] IN
  /\ "shutdown" \in Faults
  /\ pc[k] = "start" /\ token[e] # NoToken
  /\ CanRestore(e, token[e], by[k], "reserved")
  /\ Restore(e) /\ UNCHANGED retry
  /\ Go(k, "done") /\ TaskOnly

\* _restore_reserved_if_safe: cancelled between the token and the dispatch.
CancelBeforeDispatch(k) ==
  LET e == job[k] IN
  /\ "shutdown" \in Faults
  /\ pc[k] \in {"payload", "cas"}
  /\ \/ /\ token[e] = tok[k] /\ status[e] = "stopping"
        /\ dispatch[e] = "reserved" /\ ~finalized[e]
        /\ MarkTerminal(e, "stopped")
     \/ /\ CanRestore(e, tok[k], by[k], "reserved")
        /\ Restore(e) /\ UNCHANGED retry
  /\ Go(k, "done") /\ TaskOnly

\* _restore_dispatching_after_cancel: refused while shutting down.
UndoDispatch(k) ==
  LET e == job[k] IN
  /\ pc[k] = "undo"
  /\ IF token[e] = tok[k] /\ status[e] = "stopping" THEN MarkTerminal(e, "stopped")
     ELSE IF CanRestore(e, tok[k], by[k], "dispatching") THEN Restore(e) /\ UNCHANGED retry
     ELSE UNCHANGED dbVars
  /\ Go(k, "done") /\ TaskOnly

\* A crash, or a cancellation that undoes nothing: between the claim and the
\* task, at the commit of the dispatch, while recording or observing.
Die(k) ==
  /\ "die" \in Faults
  /\ pc[k] \notin {"idle", "done"}
  /\ Go(k, "done")
  /\ UNCHANGED dbVars /\ TaskOnly

-----------------------------------------------------------------------------
(* The stop and release endpoints.                                         *)

\* stop_execution of an execution it read as queued: a conditional UPDATE,
\* then the queue row, which is closed whether the first one took or not.
ReadQueued(e) ==
  /\ e \in CancelExecs /\ cancelling[e] = "no" /\ status[e] = "queued"
  /\ cancelling' = [cancelling EXCEPT ![e] = "read"]
  /\ UNCHANGED <<dbVars, taskVars, netVars, agentVars>>

StopQueued(e) ==
  /\ cancelling[e] = "read"
  /\ IF status[e] = "queued"
       THEN /\ status'     = [status EXCEPT ![e] = "cancelled"]
            /\ reason'     = [reason EXCEPT ![e] = "user_stop"]
            /\ finalized'  = [finalized EXCEPT ![e] = TRUE]
            /\ queue'      = [queue EXCEPT ![e] = "done"]
            /\ cancelling' = [cancelling EXCEPT ![e] = "done"]
       ELSE /\ cancelling' = [cancelling EXCEPT ![e] = "lost"]
            /\ UNCHANGED <<status, reason, finalized, queue>>
  /\ UNCHANGED <<dispatch, token, owner, retry, devVars, online, taskVars, netVars, agentVars>>

CloseQueueRow(e) ==
  /\ cancelling[e] = "lost"
  /\ queue'      = [queue EXCEPT ![e] = "done"]
  /\ cancelling' = [cancelling EXCEPT ![e] = "done"]
  /\ UNCHANGED <<rowVars, owner, retry, devVars, online, taskVars, netVars, agentVars>>

\* stop_running; the device is not touched, the agent has yet to be told.
StopRow(e) ==
  /\ e \in StopExecs /\ status[e] = "running"
  /\ status' = [status EXCEPT ![e] = "stopping"]
  /\ reason' = [reason EXCEPT ![e] = "user_stop"]
  /\ UNCHANGED <<dispatch, token, finalized, queueVars, devVars, online>>

StopRunning(e) ==
  /\ StopRow(e)
  /\ UNCHANGED <<taskVars, cancelling, netVars, agentVars>>

\* Mutant of ForceRelease: the device is taken whoever holds it.
ForceReleaseAtOnce(d) ==
  /\ "release" \in Faults
  /\ dev'  = [dev EXCEPT ![d] = "idle"]
  /\ lock' = [lock EXCEPT ![d] = NoExec]
  /\ UNCHANGED <<rowVars, queueVars, online, taskVars, cancelling, netVars, agentVars>>

\* release_device: a device that nobody holds, or only an execution that is
\* settled, becomes available whatever it was; one that is held asks its
\* running execution to stop.  (Its branch for a queued holder is left out:
\* LockIsOwned says there is none.)
ForceRelease(d) ==
  /\ "release" \in Faults
  /\ IF lock[d] = NoExec \/ finalized[lock[d]]
       THEN /\ dev'  = [dev EXCEPT ![d] = "idle"]
            /\ lock' = [lock EXCEPT ![d] = NoExec]
            /\ UNCHANGED <<rowVars, queueVars, online>>
       ELSE StopRow(lock[d])
  /\ UNCHANGED <<taskVars, cancelling, netVars, agentVars>>

\* delete_agent: refused while an execution of its devices is queued or
\* active; a lock left behind is cleared.  (A deleted agent takes no claim;
\* nothing that it could take is left when this is allowed.)
DeleteAgent(a) ==
  LET gone == {d \in Devices : AgentOf[d] = a} IN
  /\ "delete" \in Faults
  /\ \A e \in Execs : Dev(e) \in gone => Terminal(e)
  /\ online' = [online EXCEPT ![a] = FALSE]
  /\ lock' = [d \in Devices |-> IF d \in gone THEN NoExec ELSE lock[d]]
  /\ dev'  = [d \in Devices |-> IF d \in gone THEN "offline" ELSE dev[d]]
  /\ UNCHANGED <<rowVars, queueVars, taskVars, cancelling, netVars, agentVars>>

-----------------------------------------------------------------------------
(* The periodic scans.                                                     *)

ScanOnly == UNCHANGED <<taskVars, cancelling, netVars, agentVars>>

\* timeout_scan, first part: a running execution past its timeout.
RequestTimeoutStop(e) ==
  /\ status[e] = "running" /\ ~finalized[e]
  /\ status' = [status EXCEPT ![e] = "stopping"]
  /\ reason' = [reason EXCEPT ![e] = "timeout"]
  /\ UNCHANGED <<dispatch, token, finalized, queueVars, devVars, online>>
  /\ ScanOnly

\* claim_stop_command and the send of stop_test, by a task or the scan.
SendStop(e) ==
  /\ status[e] = "stopping" /\ ~finalized[e]
  /\ stops' = stops \cup {e}
  /\ UNCHANGED <<dbVars, taskVars, cancelling, starts, sent, snap, scan, agentVars>>

\* Mutant of ForceEnd: the grace of a timeout never ends.
ForceEndOfStops(e) ==
  /\ status[e] = "stopping" /\ reason[e] = "user_stop"
  /\ MarkTerminal(e, IF reason[e] = "timeout" THEN "error" ELSE "stopped")
  /\ ScanOnly

\* The stop grace has passed without a word from the agent.
ForceEnd(e) ==
  /\ status[e] = "stopping"
  /\ MarkTerminal(e, IF reason[e] = "timeout" THEN "error" ELSE "stopped")
  /\ ScanOnly

\* finalize_unfinished_terminal
FinalizeScan(e) ==
  /\ Terminal(e) /\ ~finalized[e]
  /\ MarkTerminal(e, status[e])
  /\ ScanOnly

\* reclaim_stale_claimed selects the rows claimed ten minutes ago, without a
\* lock, then reads the execution of each; much may happen in between.
ReclaimSelect(e) ==
  /\ "stale" \in Faults
  /\ scan[e] = NotScanned /\ queue[e] = "claimed"
  /\ scan' = [scan EXCEPT ![e] = [at |-> "row", by |-> owner[e]]]
  /\ UNCHANGED <<dbVars, taskVars, cancelling, starts, sent, stops, snap, agentVars>>

\* The rest of the scan for a row: it goes on, or is done with it.
ReclaimTo(e, to) ==
  /\ scan' = [scan EXCEPT ![e] = to]
  /\ UNCHANGED <<taskVars, cancelling, starts, sent, stops, snap, agentVars>>

\* The execution is running: one that is only reserved is given back, under
\* the token it has now, or given up after two retries.
ReclaimRunning(e) ==
  /\ scan[e].at = "row" /\ status[e] = "running"
  /\ IF dispatch[e] = "reserved" /\ retry[e] >= 2 THEN MarkTerminal(e, "error")
     ELSE IF scan[e].by # NoWorker /\ CanRestore(e, token[e], scan[e].by, "reserved")
       THEN Restore(e) /\ retry' = [retry EXCEPT ![e] = @ + 1]
     ELSE UNCHANGED dbVars
  /\ ReclaimTo(e, NotScanned)

\* The execution is not running: a queued one is given up after two retries,
\* otherwise the row is what remains to be written.
ReclaimRow(e) ==
  /\ scan[e].at = "row" /\ status[e] # "running"
  /\ IF retry[e] >= 2 /\ status[e] = "queued"
       THEN MarkTerminal(e, "error") /\ ReclaimTo(e, NotScanned)
       ELSE UNCHANGED dbVars /\ ReclaimTo(e, [scan[e] EXCEPT !.at = "write"])

\* Mutant of ReclaimWrite: the retries are not limited.
ReclaimForEver(e) ==
  /\ scan[e].at = "write"
  /\ retry' = [retry EXCEPT ![e] = @ + 1]
  /\ queue' = [queue EXCEPT ![e] = "pending"]
  /\ owner' = [owner EXCEPT ![e] = NoWorker]
  /\ UNCHANGED <<rowVars, devVars, online>>
  /\ ReclaimTo(e, NotScanned)

\* The flush of the row, whatever has become of it since it was selected.
ReclaimWrite(e) ==
  /\ scan[e].at = "write"
  /\ IF retry[e] < 2
       THEN /\ retry' = [retry EXCEPT ![e] = @ + 1]
            /\ queue' = [queue EXCEPT ![e] = "pending"]
            /\ owner' = [owner EXCEPT ![e] = NoWorker]
       ELSE /\ queue' = [queue EXCEPT ![e] = "failed"]
            /\ UNCHANGED <<owner, retry>>
  /\ UNCHANGED <<rowVars, devVars, online>>
  /\ ReclaimTo(e, NotScanned)

\* Mutants of Lost and Freed: a stopping execution is overlooked; the device
\* of a timeout in its grace is given away.
LostRunning(a) == {e \in Execs : /\ AgentOf[Dev(e)] = a /\ lock[Dev(e)] = e
                                 /\ status[e] = "running"}
FreedAll(a)    == {d \in Devices : AgentOf[d] = a}

\* What agent_heartbeat_scan does with the execution that holds a device of
\* a silent agent: it ends it, unless it is in its timeout grace.
Lost(a)    == {e \in Execs : /\ AgentOf[Dev(e)] = a /\ lock[Dev(e)] = e /\ Active(e)
                             /\ status[e] = "stopping" => reason[e] # "timeout"}
InGrace(e) == status[e] = "stopping" /\ reason[e] = "timeout" /\ ~finalized[e]
Freed(a)   == {d \in Devices : AgentOf[d] = a /\ (lock[d] = NoExec \/ ~InGrace(lock[d]))}

HeartbeatScan(a) ==
  LET ends == {e \in Lost(a) : ~finalized[e]} IN
  /\ "offline" \in Faults /\ online[a]
  /\ online' = [online EXCEPT ![a] = FALSE]
  /\ \E c \in [ends -> ChildSets] :
        status' = [e \in Execs |->
                     IF e \notin ends THEN status[e]
                     ELSE MergeExecutionStatus(
                            IF status[e] = "running" THEN "error" ELSE "stopped", c[e])]
  /\ finalized' = [e \in Execs |-> finalized[e] \/ e \in ends]
  /\ queue' = [e \in Execs |-> IF e \in ends THEN "done" ELSE queue[e]]
  /\ lock'  = [d \in Devices |-> IF d \in Freed(a) THEN NoExec ELSE lock[d]]
  /\ dev'   = [d \in Devices |-> IF d \in Freed(a) THEN "idle" ELSE dev[d]]
  /\ UNCHANGED <<dispatch, token, reason, owner, retry>>
  /\ ScanOnly

-----------------------------------------------------------------------------
(* The agent and its connection.                                           *)

\* handle_register and handle_heartbeat; the end of the connection.
AgentOnline(a) ==
  /\ ~online[a] /\ online' = [online EXCEPT ![a] = TRUE]
  /\ UNCHANGED <<rowVars, queueVars, devVars, taskVars, cancelling, netVars, agentVars>>

AgentOffline(a) ==
  /\ "offline" \in Faults
  /\ online[a] /\ online' = [online EXCEPT ![a] = FALSE]
  /\ UNCHANGED <<rowVars, queueVars, devVars, taskVars, cancelling, netVars, agentVars>>

\* handle_device_list: the agent reports a device idle, or unusable (offline,
\* unauthorized and error are one here: none of them can be claimed); a
\* device it does not report is offline.  A locked busy device is skipped.
\* This is the report that nothing overtakes.
DeviceList(d, s) ==
  /\ s = "offline" => "offline" \in Faults
  /\ ~(dev[d] = "busy" /\ lock[d] # NoExec)
  /\ dev' = [dev EXCEPT ![d] = s]
  /\ UNCHANGED <<rowVars, queueVars, lock, online, taskVars, cancelling, netVars, agentVars>>

\* handle_device_list takes no row lock: it decides on the rows it selected
\* and writes the statuses that differ from them when it flushes.
ReadSnapshot(d, s) ==
  /\ "snapshot" \in Faults /\ snap[d] = "none"
  /\ s # dev[d] /\ ~(dev[d] = "busy" /\ lock[d] # NoExec)
  /\ snap' = [snap EXCEPT ![d] = s]
  /\ UNCHANGED <<dbVars, taskVars, cancelling, starts, sent, stops, scan, agentVars>>

WriteSnapshot(d) ==
  /\ snap[d] # "none"
  /\ dev'  = [dev EXCEPT ![d] = snap[d]]
  /\ snap' = [snap EXCEPT ![d] = "none"]
  /\ UNCHANGED <<rowVars, queueVars, lock, online, taskVars, cancelling>>
  /\ UNCHANGED <<starts, sent, stops, scan, agentVars>>

\* on_message start_test: a running or finished execution is never started
\* again.
ReceiveStart(m) ==
  LET e == m[1] IN
  /\ m \in starts
  /\ starts' = starts \ {m}
  /\ run' = IF run[e] = NoToken /\ e \notin fin THEN [run EXCEPT ![e] = m[2]] ELSE run
  /\ UNCHANGED <<dbVars, taskVars, cancelling, sent, stops, snap, scan, fin, result>>

\* A message written to a connection that breaks is gone.
LoseStart(m) ==
  /\ "lost" \in Faults
  /\ m \in starts
  /\ starts' = starts \ {m}
  /\ UNCHANGED <<dbVars, taskVars, cancelling, sent, stops, snap, scan, agentVars>>

Finish(e, s) ==
  /\ result' = [result EXCEPT ![e] = [token |-> run[e], status |-> s]]
  /\ run' = [run EXCEPT ![e] = NoToken]
  /\ fin' = fin \cup {e}

\* on_message stop_test cancels the task, which reports stopped; a task that
\* is cancelled before its first step ends without a word.
ReceiveStop(e) ==
  /\ e \in stops
  /\ stops' = stops \ {e}
  /\ IF run[e] = NoToken THEN UNCHANGED agentVars
     ELSE \/ Finish(e, "stopped")
          \/ run' = [run EXCEPT ![e] = NoToken] /\ UNCHANGED <<fin, result>>
  /\ UNCHANGED <<dbVars, taskVars, cancelling, starts, sent, snap, scan>>

\* _run_execution comes to its end.
AgentFinish(e, s) ==
  /\ run[e] # NoToken
  /\ Finish(e, s)
  /\ UNCHANGED <<dbVars, taskVars, cancelling, netVars>>

\* _stored_execution_terminal: the worst blocking child, if there is one.
WorstOf(c) == IF c = {} THEN "none" ELSE AggregateStatuses(c)

\* Mutant of ServerResult: an execution that has its verdict takes another.
ServerResultUnbound(e) ==
  /\ result[e] # NoResult
  /\ (token[e] # NoToken => result[e].token = token[e])
  /\ \E c \in ChildSets :
       status' = [status EXCEPT ![e] =
                    IF status[e] = "stopping" /\ reason[e] = "timeout" THEN "error"
                    ELSE IF status[e] = "stopping" /\ reason[e] = "user_stop" THEN "stopped"
                    ELSE MergeTerminalStatus(result[e].status, WorstOf(c))]
  /\ UNCHANGED <<dispatch, token, reason, finalized, queueVars, devVars, online>>
  /\ UNCHANGED <<taskVars, cancelling, netVars, agentVars>>

\* handle_execution_result of a verdict, first sent or replayed: bound to an
\* active execution and to the session it runs under.
ServerResult(e) ==
  /\ result[e] # NoResult
  /\ Active(e) /\ (token[e] # NoToken => result[e].token = token[e])
  /\ \E c \in ChildSets :
       status' = [status EXCEPT ![e] =
                    IF status[e] = "stopping" /\ reason[e] = "timeout" THEN "error"
                    ELSE IF status[e] = "stopping" /\ reason[e] = "user_stop" THEN "stopped"
                    ELSE MergeTerminalStatus(result[e].status, WorstOf(c))]
  /\ UNCHANGED <<dispatch, token, reason, finalized, queueVars, devVars, online>>
  /\ UNCHANGED <<taskVars, cancelling, netVars, agentVars>>

\* The server confirms a verdict of the same session once the execution has
\* one, and the agent lets it go.
Confirm(e) ==
  /\ result[e] # NoResult
  /\ Terminal(e) /\ (token[e] # NoToken => result[e].token = token[e])
  /\ result' = [result EXCEPT ![e] = NoResult]
  /\ UNCHANGED <<dbVars, taskVars, cancelling, netVars, run, fin>>

\* The agent process dies with all it remembers.
AgentCrash(a) ==
  LET mine == {e \in Execs : AgentOf[Dev(e)] = a} IN
  /\ "crash" \in Faults
  /\ run'    = [e \in Execs |-> IF e \in mine THEN NoToken ELSE run[e]]
  /\ result' = [e \in Execs |-> IF e \in mine THEN NoResult ELSE result[e]]
  /\ fin'    = fin \ mine
  /\ UNCHANGED <<dbVars, taskVars, cancelling, netVars>>

-----------------------------------------------------------------------------
TaskStep(k) ==
  \/ StartPhase(k) \/ BuildPayload(k) \/ TransactionFails(k)
  \/ BeginDispatch(k) \/ HandleCasFailure(k)
  \/ SendOk(k) \/ SendRejected(k) \/ SendUncertain(k) \/ CancelSend(k)
  \/ RecordDispatch(k) \/ Observe(k) \/ FinalizeError(k)
  \/ CancelUnstarted(k) \/ CancelBeforeDispatch(k) \/ UndoDispatch(k) \/ Die(k)

RowStep(e) ==
  \/ SettleUnavailable(e)
  \/ ReadQueued(e) \/ StopQueued(e) \/ CloseQueueRow(e) \/ StopRunning(e)
  \/ RequestTimeoutStop(e) \/ SendStop(e) \/ ForceEnd(e) \/ FinalizeScan(e)
  \/ ReclaimSelect(e) \/ ReclaimRunning(e) \/ ReclaimRow(e) \/ ReclaimWrite(e)

AgentStep(e) ==
  \/ ReceiveStop(e) \/ ServerResult(e) \/ Confirm(e)
  \/ \E s \in AgentStatuses : AgentFinish(e, s)

Next ==
  \/ \E w \in Workers, e \in Execs : Claim(w, e)
  \/ \E k \in Sessions : TaskStep(k)
  \/ \E e \in Execs : RowStep(e) \/ AgentStep(e)
  \/ \E d \in Devices : ForceRelease(d) \/ WriteSnapshot(d)
  \/ \E d \in Devices, s \in {"idle", "offline"} : DeviceList(d, s) \/ ReadSnapshot(d, s)
  \/ \E a \in Agents : \/ HeartbeatScan(a) \/ AgentOnline(a) \/ AgentOffline(a)
                       \/ AgentCrash(a) \/ DeleteAgent(a)
  \/ \E m \in starts : ReceiveStart(m) \/ LoseStart(m)

Spec == Init /\ [][Next]_vars

-----------------------------------------------------------------------------
(* Fairness: the scans run every minute as long as the backend is up, and a *)
(* worker polls the queue.  Nothing is assumed of the agents, and a task    *)
(* may die at any step.                                                     *)
ClaimOrSettle == \E e \in Execs : SettleUnavailable(e) \/ \E w \in Workers : Claim(w, e)

Fairness ==
  /\ WF_vars(ClaimOrSettle)
  /\ \A e \in Execs : /\ WF_vars(RequestTimeoutStop(e))
                      /\ WF_vars(ForceEnd(e))
                      /\ WF_vars(FinalizeScan(e))

FairSpec == Spec /\ Fairness

-----------------------------------------------------------------------------
(* Properties.                                                             *)

\* A device belongs to one execution at a time: every running or stopping
\* execution holds the lock of its device, through every restore, reclaim,
\* forced release and heartbeat scan.
ActiveHoldsDevice == \A e \in Execs : Active(e) => lock[Dev(e)] = e

\* A lock never outlives its purpose: the holder is an execution of that
\* device, started and not yet settled; a device is not left busy unlocked.
LockIsOwned ==
  \A d \in Devices :
    /\ dev[d] = "busy" => lock[d] # NoExec
    /\ lock[d] # NoExec =>
         Dev(lock[d]) = d /\ ~finalized[lock[d]] /\ status[lock[d]] # "queued"

\* A session belongs to one execution, and an execution that is dispatched
\* runs under the session of the task that won the dispatch: a task that is
\* sending or recording is the only one of its execution to do so.
OneDispatcher ==
  \A j, k \in Sessions :
    /\ pc[k] \in {"send", "sendc", "record", "recordc", "undo"} =>
         token[job[k]] = tok[k] /\ dispatch[job[k]] = "dispatching"
    /\ /\ {pc[j], pc[k]} \subseteq {"send", "sendc", "record", "recordc", "undo"}
       /\ job[j] = job[k]
       => j = k

\* start_test of an execution is delivered at most once, whatever is
\* cancelled, reclaimed, restored or claimed again, and what was delivered
\* stays the current session: the execution is never queued again.
DeliveredOnce ==
  \A m \in sent : /\ token[m[1]] = m[2] /\ m[2] # NoToken
                  /\ dispatch[m[1]] \in {"dispatching", "dispatched"}
                  /\ status[m[1]] # "queued"

\* What an agent runs, or still has to confirm, is the current session of an
\* execution the server dispatched, so its verdict is never refused.
AgentIsCurrent ==
  \A e \in Execs : /\ run[e] # NoToken => token[e] = run[e] /\ status[e] # "queued"
                   /\ result[e] # NoResult => token[e] = result[e].token

\* Two runs meet on a device only when the server has a verdict for one of
\* them: a forced end, a lost agent or a failed record gave the device away.
OverlapOnlyAfterVerdict ==
  \A e, f \in Execs :
    run[e] # NoToken /\ run[f] # NoToken /\ Dev(e) = Dev(f) /\ e # f
      => Terminal(e) \/ Terminal(f)

\* _handle_dispatch_cas_failure never meets the anomaly it guards against: a
\* task refused the dispatch does not find its execution still reserved.
NoDispatchAnomaly ==
  \A k \in Sessions :
    pc[k] = "casfail" /\ token[job[k]] = tok[k] /\ ~Terminal(job[k]) /\ status[job[k]] # "stopping"
      => dispatch[job[k]] # "reserved"

\* An execution that waits has a queue row that a worker can claim; it would
\* wait for ever otherwise, no scan looks for such rows.  One way leads there:
\* a cancellation that met the execution running closes the row all the same
\* (stop_queued), and if that execution is given back it waits without a row
\* until it is cancelled again.
QueuedIsClaimable ==
  \A e \in Execs : status[e] = "queued" => queue[e] = "pending" \/ cancelling[e] = "done"

\* The merge only ever makes a verdict worse, and a settled execution never
\* changes again: neither its verdict nor its row nor its session.
Severity(s) == CASE s = "passed" -> 0 [] s \in {"stopped", "cancelled"} -> 1
                 [] s = "failed" -> 2 [] s = "error" -> 3
VerdictOnlyWorsens ==
  [][\A e \in Execs : Terminal(e) => /\ status'[e] \in TerminalStates
                                     /\ Severity(status[e]) <= Severity(status'[e])]_vars
SettledIsFinal ==
  [][\A e \in Execs : finalized[e] =>
        /\ finalized'[e] /\ status'[e] = status[e] /\ token'[e] = token[e]
        /\ lock'[Dev(e)] # e]_vars

\* Whatever dies, every execution gets its verdict and report, and every
\* device is given back.
EveryExecutionSettles == \A e \in Execs : <>[](finalized[e] /\ Terminal(e))
EveryLockIsReleased == \A e \in Execs : (lock[Dev(e)] = e) ~> (lock[Dev(e)] # e)

-----------------------------------------------------------------------------
(* The rows implement the promise of ExecutionSpec.                        *)
Phase(e) == IF finalized[e] THEN "settled"
            ELSE IF status[e] = "queued" THEN "waiting"
            ELSE IF Active(e) THEN "active" ELSE "ended"

Promise == INSTANCE ExecutionSpec WITH phase <- [e \in Execs |-> Phase(e)], holder <- lock

\* Every step of the rows, tasks and scans is a step of the promised life of
\* an execution, or changes nothing it speaks of.
ImplementsPromise == Promise!Spec
=============================================================================
