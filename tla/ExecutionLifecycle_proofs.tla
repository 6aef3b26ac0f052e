----------------------- MODULE ExecutionLifecycle_proofs -----------------------
(* Theorems about ExecutionLifecycle for every number of executions,        *)
(* devices, agents, workers and sessions.                                   *)
EXTENDS ExecutionLifecycle, TLAPS

(***************************************************************************)
(* The merges return statuses an execution may end in.                     *)
(***************************************************************************)

\* Whatever is aggregated, the result is one of the five ranked statuses.
LEMMA AggregateRanked ==
  ASSUME NEW S PROVE AggregateStatuses(S) \in Ranked
BY DEF AggregateStatuses, Ranked

\* Merging a verdict with stored children yields a verdict, never a queued,
\* running or skipped execution (merge_execution_status).
LEMMA MergeIsTerminal ==
  ASSUME NEW v \in TerminalStates, NEW c \in ChildSets
  PROVE  MergeExecutionStatus(v, c) \in TerminalStates
<1> DEFINE S == {AsStopped(v)} \cup (c \cap Blocking)
<1>1. AsStopped(v) \in {AsStopped(x) : x \in S}
  <2>1. AsStopped(AsStopped(v)) = AsStopped(v)
    BY DEF AsStopped
  <2> QED BY <2>1
<1>2. AsStopped(v) \in Ranked \ {"skipped"}
  BY DEF AsStopped, TerminalStates, Ranked
<1>3. "skipped" \notin {AsStopped(x) : x \in S}
  BY <1>2 DEF AsStopped, Blocking, Ranked
<1>4. AggregateStatuses(S) \in TerminalStates
  BY <1>1, <1>2, <1>3 DEF AggregateStatuses, TerminalStates, Ranked
<1> QED BY <1>4 DEF MergeExecutionStatus, TerminalStates

\* The merge of an incoming verdict (handle_execution_result) is a verdict.
LEMMA ServerMergeIsTerminal ==
  ASSUME NEW v, NEW c \in ChildSets
  PROVE  MergeTerminalStatus(v, WorstOf(c)) \in TerminalStates
BY AggregateRanked DEF MergeTerminalStatus, TerminalStates, Ranked, WorstOf, AggregateStatuses, AsStopped, Blocking

(***************************************************************************)
(* Type correctness.                                                       *)
(***************************************************************************)
USE ExecsAssumption, DevicesAssumption, WorkersAssumption, BoundAssumption,
    FaultAssumption, StatusAssumption

\* The transactions several callers share keep the rows in their types.
LEMMA MarkTerminalType ==
  ASSUME RowsTypeOK, NEW e \in Execs, NEW v \in TerminalStates, MarkTerminal(e, v)
  PROVE  RowsTypeOK'
<1>1. CASE finalized[e]
  BY <1>1 DEF MarkTerminal, dbVars, rowVars, queueVars, devVars, RowsTypeOK
<1>2. CASE ~finalized[e]
  <2>1. PICK c \in ChildSets : status' = [status EXCEPT ![e] = MergeExecutionStatus(v, c)]
    BY <1>2 DEF MarkTerminal
  <2>2. MergeExecutionStatus(v, c) \in TerminalStates
    BY MergeIsTerminal
  <2>3. UNCHANGED <<dispatch, token, reason, owner, retry, online>>
    BY <1>2 DEF MarkTerminal
  <2>4. lock' \in [Devices -> Execs \cup {NoExec}] /\ dev' \in [Devices -> {"idle", "busy", "offline"}]
    BY <1>2 DEF MarkTerminal, RowsTypeOK, devVars, Dev
  <2> QED BY <1>2, <2>1, <2>2, <2>3, <2>4 DEF MarkTerminal, RowsTypeOK
<1> QED BY <1>1, <1>2

\* Giving a claim back keeps the rows in their types.
LEMMA RestoreType ==
  ASSUME RowsTypeOK, NEW e \in Execs, Restore(e), retry' \in [Execs -> 0 .. 2]
  PROVE  RowsTypeOK'
BY DEF RowsTypeOK, Restore, NoExec, NoToken

\* Moving the pc of a task that exists keeps the tasks in their types.
LEMMA GoType ==
  ASSUME TasksTypeOK, NEW k \in Sessions, pc[k] # "idle",
         NEW s \in {"payload", "cas", "casfail", "send", "sendc", "record",
                    "recordc", "undo", "fail", "observe", "done"},
         Go(k, s), TaskOnly
  PROVE  TasksTypeOK' /\ (AgentsTypeOK => AgentsTypeOK')
<1>1. AgentsTypeOK => AgentsTypeOK'
  BY DEF TaskOnly, AgentsTypeOK, netVars, agentVars
<1> QED BY <1>1 DEF TasksTypeOK, Go, TaskOnly, NoToken

\* What a step leaves alone stays in its types: the rows, the tasks, the
\* messages and agents.
LEMMA RowsKept == RowsTypeOK /\ UNCHANGED dbVars => RowsTypeOK'
BY DEF RowsTypeOK, dbVars, rowVars, queueVars, devVars

\* The same for the tasks.
LEMMA TasksKept == TasksTypeOK /\ UNCHANGED <<taskVars, cancelling>> => TasksTypeOK'
BY DEF TasksTypeOK, taskVars

\* The same for the messages and the agents.
LEMMA AgentsKept == AgentsTypeOK /\ UNCHANGED <<netVars, agentVars>> => AgentsTypeOK'
BY DEF AgentsTypeOK, netVars, agentVars

\* A task of the system has an execution, and its steps keep the types.
LEMMA TaskStepType ==
  ASSUME TypeOK, NEW k \in Sessions, TaskStep(k)
  PROVE  TypeOK'
<1>0. pc[k] # "idle"
  BY DEF TaskStep, StartPhase, BuildPayload, TransactionFails, BeginDispatch,
         HandleCasFailure, SendOk, SendRejected, SendUncertain, CancelSend, RecordDispatch,
         Observe, FinalizeError, CancelUnstarted, CancelBeforeDispatch, UndoDispatch, Die
<1>e. job[k] \in Execs
  BY <1>0 DEF TypeOK, TasksTypeOK, Sessions
<1>v. \A e \in Execs : Terminal(e) => status[e] \in TerminalStates
  BY DEF Terminal
<1> USE DEF TypeOK
<1>1. CASE StartPhase(k)
  <2>1. CASE Terminal(job[k])
    BY <1>0, <1>e, <1>1, <2>1, MarkTerminalType, GoType DEF StartPhase, Terminal
  <2>2. CASE ~Terminal(job[k]) /\ ~Active(job[k])
    BY <1>0, <1>e, <1>1, <2>2, RowsKept, GoType DEF StartPhase
  <2>3. CASE ~Terminal(job[k]) /\ Active(job[k])
    <3>1. RowsTypeOK'
      BY <1>1, <2>3, RowsKept DEF StartPhase
    <3>2. AgentsTypeOK'
      BY <1>1, AgentsKept DEF StartPhase, TaskOnly
    <3>3. /\ pc' = [pc EXCEPT ![k] = "payload"] /\ tok' = [tok EXCEPT ![k] = token[job[k]]]
          /\ UNCHANGED <<nclaim, job, by, pay, cancelling>>
      BY <1>1, <2>3 DEF StartPhase, TaskOnly
    <3>4. token[job[k]] \in Sessions \cup {NoToken}
      BY <1>0, <1>e DEF RowsTypeOK
    <3>5. TasksTypeOK'
      BY <1>0, <1>e, <3>3, <3>4 DEF TasksTypeOK
    <3> QED BY <3>1, <3>2, <3>5
  <2> QED BY <2>1, <2>2, <2>3
<1>2. CASE BuildPayload(k)
  <2>1. RowsTypeOK' /\ AgentsTypeOK'
    BY <1>2, RowsKept, AgentsKept DEF BuildPayload, TaskOnly
  <2>2. token[job[k]] \in Sessions \cup {NoToken}
    BY <1>0, <1>e DEF RowsTypeOK
  <2>3. TasksTypeOK'
    BY <1>0, <1>e, <1>2, <2>2 DEF BuildPayload, TaskOnly, TasksTypeOK
  <2> QED BY <2>1, <2>3
<1>3. CASE TransactionFails(k)
  BY <1>0, <1>3, RowsKept, GoType DEF TransactionFails
<1>4. CASE BeginDispatch(k)
  <2>1. RowsTypeOK'
    BY <1>e, <1>4 DEF BeginDispatch, RowsTypeOK, queueVars, devVars
  <2> QED BY <1>0, <1>4, <2>1, GoType DEF BeginDispatch
<1>5. CASE HandleCasFailure(k)
  <2>1. RowsTypeOK'
    BY <1>e, <1>5, RowsKept, MarkTerminalType DEF HandleCasFailure, Terminal, TerminalStates
  <2> QED BY <1>0, <1>5, <2>1, GoType DEF HandleCasFailure
<1>6. CASE SendOk(k)
  <2>1. RowsTypeOK'
    BY <1>6, RowsKept DEF SendOk
  <2>2. AgentsTypeOK'
    BY <1>6, <1>e DEF SendOk, Deliver, AgentsTypeOK, TasksTypeOK, agentVars
  <2>3. TasksTypeOK'
    BY <1>0, <1>6 DEF SendOk, Go, TasksTypeOK, NoToken
  <2> QED BY <2>1, <2>2, <2>3
<1>7. CASE SendRejected(k)
  BY <1>0, <1>7, RowsKept, GoType DEF SendRejected
<1>8. CASE SendUncertain(k)
  <2>1. RowsTypeOK'
    BY <1>8, RowsKept DEF SendUncertain
  <2>2. AgentsTypeOK'
    <3>1. CASE Deliver(k)
      BY <1>8, <1>e, <3>1 DEF SendUncertain, Deliver, AgentsTypeOK, TasksTypeOK, agentVars
    <3>2. CASE UNCHANGED netVars
      BY <1>8, <3>2, AgentsKept DEF SendUncertain
    <3> QED BY <1>8, <3>1, <3>2 DEF SendUncertain
  <2>3. TasksTypeOK'
    BY <1>0, <1>8 DEF SendUncertain, Go, TasksTypeOK, NoToken
  <2> QED BY <2>1, <2>2, <2>3
<1>9. CASE CancelSend(k)
  BY <1>0, <1>9, RowsKept, GoType DEF CancelSend
<1>10. CASE RecordDispatch(k)
  <2>1. RowsTypeOK'
    <3>1. CASE UNCHANGED dbVars
      BY <3>1, RowsKept
    <3>2. CASE MarkTerminal(job[k], status[job[k]]) /\ Terminal(job[k])
      BY <1>e, <3>2, MarkTerminalType DEF Terminal
    <3>3. CASE /\ dispatch' = [dispatch EXCEPT ![job[k]] = "dispatched"]
               /\ UNCHANGED <<status, token, reason, finalized, queueVars, devVars, online>>
      BY <1>e, <3>3 DEF RowsTypeOK, queueVars, devVars
    <3> QED BY <1>10, <3>1, <3>2, <3>3 DEF RecordDispatch
  <2> QED BY <1>0, <1>10, <2>1, GoType DEF RecordDispatch
<1>11. CASE Observe(k)
  BY <1>0, <1>e, <1>11, MarkTerminalType, GoType DEF Observe, Terminal
<1>12. CASE FinalizeError(k)
  BY <1>0, <1>e, <1>12, MarkTerminalType, GoType DEF FinalizeError, TerminalStates
<1>13. CASE CancelUnstarted(k)
  BY <1>0, <1>e, <1>13, RestoreType, GoType DEF CancelUnstarted, RowsTypeOK
<1>14. CASE CancelBeforeDispatch(k)
  <2>1. RowsTypeOK'
    BY <1>e, <1>14, RestoreType, MarkTerminalType DEF CancelBeforeDispatch, RowsTypeOK, TerminalStates
  <2> QED BY <1>0, <1>14, <2>1, GoType DEF CancelBeforeDispatch
<1>15. CASE UndoDispatch(k)
  <2>1. RowsTypeOK'
    BY <1>e, <1>15, RowsKept, RestoreType, MarkTerminalType DEF UndoDispatch, RowsTypeOK, TerminalStates
  <2> QED BY <1>0, <1>15, <2>1, GoType DEF UndoDispatch
<1>16. CASE Die(k)
  BY <1>0, <1>16, RowsKept, GoType DEF Die
<1> QED BY <1>1, <1>2, <1>3, <1>4, <1>5, <1>6, <1>7, <1>8, <1>9, <1>10, <1>11, <1>12,
           <1>13, <1>14, <1>15, <1>16 DEF TaskStep

\* Claims, endpoints and scans keep the types.
LEMMA RowStepType ==
  ASSUME TypeOK, NEW e \in Execs, RowStep(e)
  PROVE  TypeOK'
<1> USE DEF TypeOK
<1>1. CASE SettleUnavailable(e)
  BY <1>1, MarkTerminalType, TasksKept, AgentsKept DEF SettleUnavailable, TerminalStates
<1>2. CASE ReadQueued(e)
  <2>1. TasksTypeOK'
    BY <1>2 DEF ReadQueued, TasksTypeOK, taskVars
  <2> QED BY <1>2, <2>1, RowsKept, AgentsKept DEF ReadQueued
<1>3. CASE StopQueued(e)
  <2>1. AgentsTypeOK'
    BY <1>3, AgentsKept DEF StopQueued
  <2>2. TasksTypeOK'
    BY <1>3 DEF StopQueued, TasksTypeOK, taskVars
  <2>3. CASE status[e] = "queued"
    <3>1. /\ status' \in [Execs -> TerminalStates \cup {"queued", "running", "stopping"}]
          /\ reason' \in [Execs -> {"none", "user_stop", "timeout"}]
          /\ finalized' \in [Execs -> BOOLEAN]
          /\ queue' \in [Execs -> {"pending", "claimed", "done", "failed"}]
      <4>1. /\ status' = [status EXCEPT ![e] = "cancelled"]
            /\ reason' = [reason EXCEPT ![e] = "user_stop"]
            /\ finalized' = [finalized EXCEPT ![e] = TRUE]
            /\ queue' = [queue EXCEPT ![e] = "done"]
        BY <1>3, <2>3 DEF StopQueued
      <4> QED BY <4>1 DEF RowsTypeOK, TerminalStates
    <3>2. UNCHANGED <<dispatch, token, owner, retry, lock, dev, online>>
      BY <1>3 DEF StopQueued, devVars
    <3>3. RowsTypeOK'
      BY <3>1, <3>2 DEF RowsTypeOK
    <3> QED BY <2>1, <2>2, <3>3
  <2>4. CASE status[e] # "queued"
    <3>1. RowsTypeOK'
      BY <1>3, <2>4 DEF StopQueued, RowsTypeOK, devVars
    <3> QED BY <2>1, <2>2, <3>1
  <2> QED BY <2>3, <2>4
<1>4. CASE CloseQueueRow(e)
  <2>1. AgentsTypeOK'
    BY <1>4, AgentsKept DEF CloseQueueRow
  <2>2. TasksTypeOK'
    BY <1>4 DEF CloseQueueRow, TasksTypeOK, taskVars
  <2>3. RowsTypeOK'
    BY <1>4 DEF CloseQueueRow, RowsTypeOK, rowVars, devVars
  <2> QED BY <2>1, <2>2, <2>3
<1>5. CASE StopRunning(e)
  <2>1. RowsTypeOK'
    BY <1>5 DEF StopRunning, StopRow, RowsTypeOK, queueVars, devVars
  <2> QED BY <1>5, <2>1, TasksKept, AgentsKept DEF StopRunning
<1>6. CASE RequestTimeoutStop(e)
  <2>1. RowsTypeOK'
    BY <1>6 DEF RequestTimeoutStop, RowsTypeOK, queueVars, devVars
  <2> QED BY <1>6, <2>1, TasksKept, AgentsKept DEF RequestTimeoutStop, ScanOnly
<1>7. CASE SendStop(e)
  <2>1. AgentsTypeOK'
    BY <1>7 DEF SendStop, AgentsTypeOK, agentVars
  <2> QED BY <1>7, <2>1, RowsKept, TasksKept DEF SendStop
<1>8. CASE ForceEnd(e)
  BY <1>8, MarkTerminalType, TasksKept, AgentsKept DEF ForceEnd, ScanOnly, TerminalStates
<1>9. CASE FinalizeScan(e)
  BY <1>9, MarkTerminalType, TasksKept, AgentsKept DEF FinalizeScan, ScanOnly, Terminal
<1>s. ASSUME NEW to \in [at : {"no", "row", "write"}, by : Workers \cup {NoWorker}],
             ReclaimTo(e, to)
      PROVE  TasksTypeOK' /\ AgentsTypeOK'
  <2>1. AgentsTypeOK'
    BY <1>s DEF ReclaimTo, AgentsTypeOK, agentVars
  <2> QED BY <1>s, <2>1, TasksKept DEF ReclaimTo
<1>n. NotScanned \in [at : {"no", "row", "write"}, by : Workers \cup {NoWorker}]
  BY DEF NotScanned
<1>10. CASE ReclaimSelect(e)
  <2>1. [at |-> "row", by |-> owner[e]] \in [at : {"no", "row", "write"}, by : Workers \cup {NoWorker}]
    BY DEF RowsTypeOK
  <2>2. AgentsTypeOK'
    BY <1>10, <2>1 DEF ReclaimSelect, AgentsTypeOK, agentVars
  <2> QED BY <1>10, <2>2, RowsKept, TasksKept DEF ReclaimSelect
<1>11. CASE ReclaimRunning(e)
  <2>1. TasksTypeOK' /\ AgentsTypeOK'
    BY <1>11, <1>s, <1>n DEF ReclaimRunning
  <2>2. CASE MarkTerminal(e, "error")
    BY <2>1, <2>2, MarkTerminalType DEF TerminalStates
  <2>3. CASE /\ Restore(e) /\ retry' = [retry EXCEPT ![e] = @ + 1]
             /\ ~(retry[e] >= 2)
    <3>1. retry' \in [Execs -> 0 .. 2]
      BY <2>3 DEF RowsTypeOK
    <3> QED BY <2>1, <2>3, <3>1, RestoreType
  <2>4. CASE UNCHANGED dbVars
    BY <2>1, <2>4, RowsKept
  <2> QED BY <1>11, <2>2, <2>3, <2>4 DEF ReclaimRunning, CanRestore
<1>12. CASE ReclaimRow(e)
  <2>1. CASE retry[e] >= 2 /\ status[e] = "queued"
    <3>1. TasksTypeOK' /\ AgentsTypeOK'
      BY <1>12, <2>1, <1>s, <1>n DEF ReclaimRow
    <3> QED BY <1>12, <2>1, <3>1, MarkTerminalType DEF ReclaimRow, TerminalStates
  <2>2. CASE ~(retry[e] >= 2 /\ status[e] = "queued")
    <3>1. [scan[e] EXCEPT !.at = "write"]
            \in [at : {"no", "row", "write"}, by : Workers \cup {NoWorker}]
      BY DEF AgentsTypeOK
    <3>2. TasksTypeOK' /\ AgentsTypeOK'
      BY <1>12, <2>2, <3>1, <1>s DEF ReclaimRow
    <3> QED BY <1>12, <2>2, <3>2, RowsKept DEF ReclaimRow
  <2> QED BY <2>1, <2>2
<1>13. CASE ReclaimWrite(e)
  <2>1. TasksTypeOK' /\ AgentsTypeOK'
    BY <1>13, <1>s, <1>n DEF ReclaimWrite
  <2>2. /\ queue' \in [Execs -> {"pending", "claimed", "done", "failed"}]
        /\ owner' \in [Execs -> Workers \cup {NoWorker}]
        /\ retry' \in [Execs -> 0 .. 2]
    BY <1>13 DEF ReclaimWrite, RowsTypeOK
  <2>3. RowsTypeOK'
    BY <1>13, <2>2 DEF ReclaimWrite, RowsTypeOK, rowVars, devVars
  <2> QED BY <2>1, <2>3
<1> QED BY <1>1, <1>2, <1>3, <1>4, <1>5, <1>6, <1>7, <1>8, <1>9, <1>10, <1>11,
           <1>12, <1>13 DEF RowStep

\* What the agents do keeps the types.
LEMMA AgentStepType ==
  ASSUME TypeOK, NEW e \in Execs, AgentStep(e)
  PROVE  TypeOK'
<1> USE DEF TypeOK
<1>f. ASSUME NEW s \in AgentStatuses \cup {"stopped"}, Finish(e, s)
      PROVE  /\ run' \in [Execs -> Sessions \cup {NoToken}] /\ fin' \subseteq Execs
             /\ result' \in [Execs -> [token : Sessions \cup {NoToken},
                                       status : AgentStatuses \cup {"stopped", "none"}]]
  BY <1>f DEF Finish, AgentsTypeOK
<1>1. CASE ReceiveStop(e)
  <2>1. /\ run' \in [Execs -> Sessions \cup {NoToken}] /\ fin' \subseteq Execs
        /\ result' \in [Execs -> [token : Sessions \cup {NoToken},
                                  status : AgentStatuses \cup {"stopped", "none"}]]
    BY <1>1, <1>f DEF ReceiveStop, AgentsTypeOK, agentVars
  <2>2. AgentsTypeOK'
    BY <1>1, <2>1 DEF ReceiveStop, AgentsTypeOK
  <2> QED BY <1>1, <2>2, RowsKept, TasksKept DEF ReceiveStop
<1>2. CASE ServerResult(e)
  <2>1. status' \in [Execs -> TerminalStates \cup {"queued", "running", "stopping"}]
    BY <1>2, ServerMergeIsTerminal DEF ServerResult, RowsTypeOK, TerminalStates
  <2>2. RowsTypeOK'
    BY <1>2, <2>1 DEF ServerResult, RowsTypeOK, queueVars, devVars
  <2> QED BY <1>2, <2>2, TasksKept, AgentsKept DEF ServerResult
<1>3. CASE Confirm(e)
  <2>1. AgentsTypeOK'
    BY <1>3 DEF Confirm, AgentsTypeOK, NoResult, netVars
  <2> QED BY <1>3, <2>1, RowsKept, TasksKept DEF Confirm
<1>4. ASSUME NEW s \in AgentStatuses, AgentFinish(e, s) PROVE TypeOK'
  <2>1. AgentsTypeOK'
    BY <1>4, <1>f DEF AgentFinish, AgentsTypeOK, netVars
  <2> QED BY <1>4, <2>1, RowsKept, TasksKept DEF AgentFinish
<1> QED BY <1>1, <1>2, <1>3, <1>4 DEF AgentStep

\* Drawing a session (claim_next_queue) keeps the types: the new task is the
\* next number, which no task had.
LEMMA ClaimType ==
  ASSUME TypeOK, NEW w \in Workers, NEW e \in Execs, Claim(w, e)
  PROVE  TypeOK'
<1> USE DEF TypeOK
<1> DEFINE k == nclaim + 1
<1>1. k \in Sessions /\ nclaim' = k /\ e # NoExec
  BY DEF Claim, TasksTypeOK, Sessions, NoExec
<1>2. RowsTypeOK'
  BY <1>1 DEF Claim, RowsTypeOK
<1>3. TasksTypeOK'
  <2>1. /\ pc'  = [pc EXCEPT ![k] = "start"] /\ job' = [job EXCEPT ![k] = e]
        /\ by'  = [by EXCEPT ![k] = w] /\ UNCHANGED <<tok, pay, cancelling>>
    BY DEF Claim
  <2>2. \A j \in Sessions : j <= nclaim' <=> (j <= nclaim \/ j = k)
    BY <1>1 DEF TasksTypeOK, Sessions
  <2>3. \A j \in Sessions : /\ j <= nclaim' <=> pc'[j] # "idle"
                            /\ j <= nclaim' <=> job'[j] # NoExec
    BY <1>1, <2>1, <2>2 DEF TasksTypeOK
  <2>4. nclaim' \in 0 .. MaxSessions
    BY <1>1 DEF Sessions, TasksTypeOK
  <2> QED BY <1>1, <2>1, <2>3, <2>4 DEF TasksTypeOK
<1>4. AgentsTypeOK'
  BY AgentsKept DEF Claim
<1> QED BY <1>2, <1>3, <1>4

\* The heartbeat scan keeps the types: each execution it ends gets a verdict.
LEMMA HeartbeatType ==
  ASSUME TypeOK, NEW a \in Agents, HeartbeatScan(a)
  PROVE  TypeOK'
<1> USE DEF TypeOK
<1> DEFINE ends == {e \in Lost(a) : ~finalized[e]}
           verdict(e) == IF status[e] = "running" THEN "error" ELSE "stopped"
<1>1. PICK c \in [ends -> ChildSets] :
        status' = [e \in Execs |-> IF e \notin ends THEN status[e]
                                   ELSE MergeExecutionStatus(verdict(e), c[e])]
  BY DEF HeartbeatScan
<1>2. \A e \in ends : MergeExecutionStatus(verdict(e), c[e]) \in TerminalStates
  <2> TAKE e \in ends
  <2>1. verdict(e) \in TerminalStates /\ c[e] \in ChildSets
    BY <1>1 DEF TerminalStates
  <2> QED BY <2>1, MergeIsTerminal
<1>3. status' \in [Execs -> TerminalStates \cup {"queued", "running", "stopping"}]
  BY <1>1, <1>2 DEF RowsTypeOK
<1>4. RowsTypeOK'
  BY <1>3 DEF HeartbeatScan, RowsTypeOK, NoExec
<1> QED BY <1>4, TasksKept, AgentsKept DEF HeartbeatScan, ScanOnly

\* The steps of devices, agents and messages keep the types.
LEMMA DeviceStepType ==
  ASSUME TypeOK, NEW d \in Devices,
         \/ ForceRelease(d) \/ WriteSnapshot(d)
         \/ \E s \in {"idle", "offline"} : DeviceList(d, s) \/ ReadSnapshot(d, s)
  PROVE  TypeOK'
<1> USE DEF TypeOK
<1>1. CASE ForceRelease(d)
  <2>1. RowsTypeOK'
    BY <1>1 DEF ForceRelease, StopRow, RowsTypeOK, rowVars, queueVars, devVars
  <2> QED BY <1>1, <2>1, TasksKept, AgentsKept DEF ForceRelease
<1>2. CASE WriteSnapshot(d)
  <2>1. RowsTypeOK'
    BY <1>2 DEF WriteSnapshot, RowsTypeOK, AgentsTypeOK, rowVars, queueVars
  <2>2. AgentsTypeOK'
    BY <1>2 DEF WriteSnapshot, AgentsTypeOK, agentVars
  <2> QED BY <1>2, <2>1, <2>2, TasksKept DEF WriteSnapshot
<1>3. ASSUME NEW s \in {"idle", "offline"}, DeviceList(d, s) PROVE TypeOK'
  <2>1. RowsTypeOK'
    BY <1>3 DEF DeviceList, RowsTypeOK, rowVars, queueVars
  <2> QED BY <1>3, <2>1, TasksKept, AgentsKept DEF DeviceList
<1>4. ASSUME NEW s \in {"idle", "offline"}, ReadSnapshot(d, s) PROVE TypeOK'
  <2>1. AgentsTypeOK'
    BY <1>4 DEF ReadSnapshot, AgentsTypeOK, agentVars
  <2> QED BY <1>4, <2>1, RowsKept, TasksKept DEF ReadSnapshot
<1> QED BY <1>1, <1>2, <1>3, <1>4

\* Connections that come and go, and an agent that crashes or is deleted, keep
\* the types.
LEMMA AgentWideType ==
  ASSUME TypeOK, NEW a \in Agents,
         AgentOnline(a) \/ AgentOffline(a) \/ AgentCrash(a) \/ DeleteAgent(a)
  PROVE  TypeOK'
<1> USE DEF TypeOK
<1>1. CASE AgentOnline(a) \/ AgentOffline(a)
  <2>1. RowsTypeOK'
    <3>1. online' \in [Agents -> BOOLEAN]
      BY <1>1 DEF AgentOnline, AgentOffline, RowsTypeOK
    <3> QED BY <1>1, <3>1 DEF AgentOnline, AgentOffline, RowsTypeOK, rowVars, queueVars, devVars
  <2> QED BY <1>1, <2>1, TasksKept, AgentsKept DEF AgentOnline, AgentOffline
<1>2. CASE AgentCrash(a)
  <2>1. AgentsTypeOK'
    BY <1>2 DEF AgentCrash, AgentsTypeOK, netVars, NoResult
  <2> QED BY <1>2, <2>1, RowsKept, TasksKept DEF AgentCrash
<1>3. CASE DeleteAgent(a)
  <2>1. RowsTypeOK'
    BY <1>3 DEF DeleteAgent, RowsTypeOK, rowVars, queueVars, NoExec
  <2> QED BY <1>3, <2>1, TasksKept, AgentsKept DEF DeleteAgent
<1> QED BY <1>1, <1>2, <1>3

\* A start_test that arrives or is lost keeps the types.
LEMMA MessageType ==
  ASSUME TypeOK, NEW m \in starts, ReceiveStart(m) \/ LoseStart(m)
  PROVE  TypeOK'
<1> USE DEF TypeOK
<1>1. m[1] \in Execs /\ m[2] \in Sessions \cup {NoToken}
  BY DEF AgentsTypeOK
<1>2. AgentsTypeOK'
  BY <1>1 DEF ReceiveStart, LoseStart, AgentsTypeOK, agentVars
<1> QED BY <1>2, RowsKept, TasksKept DEF ReceiveStart, LoseStart

\* The initial rows, tasks and agents have their types.
LEMMA InitType == Init => TypeOK
BY DEF Init, TypeOK, RowsTypeOK, TasksTypeOK, AgentsTypeOK, NoResult, NotScanned, NoExec, NoToken, Sessions

\* Every step of the system keeps the types.
LEMMA NextType == TypeOK /\ [Next]_vars => TypeOK'
<1> SUFFICES ASSUME TypeOK, [Next]_vars PROVE TypeOK'
  OBVIOUS
<1>1. CASE UNCHANGED vars
  BY <1>1, RowsKept, TasksKept, AgentsKept DEF vars, TypeOK
<1>2. CASE Next
  BY <1>2, ClaimType, TaskStepType, RowStepType, AgentStepType, HeartbeatType, DeviceStepType,
     AgentWideType, MessageType DEF Next
<1> QED BY <1>1, <1>2

\* Type correctness for every number of executions, devices, agents, workers
\* and sessions: the retry counter stays within its limit, every task that
\* exists has its execution, every verdict is one the code may store.
THEOREM TypeCorrect == Spec => []TypeOK
<1>1. Init => TypeOK
  BY InitType
<1>2. TypeOK /\ [Next]_vars => TypeOK'
  BY NextType
<1> QED BY <1>1, <1>2, PTL DEF Spec

-----------------------------------------------------------------------------
(* The rows: who holds a device, what a settled execution keeps, that the   *)
(* rows implement the promise of ExecutionSpec, how verdicts may change,    *)
(* and what a queued row needs to be taken.                                 *)

\* The inductive invariant of the rows.  That an active execution holds its
\* device is not inductive alone: a settlement has to free only what the
\* settled execution holds (LockIsOwned), and what is settled must not be
\* active again (its status is a verdict).
RowsInv ==
  /\ ActiveHoldsDevice
  /\ LockIsOwned
  /\ \A e \in Execs : finalized[e] => Terminal(e)

-----------------------------------------------------------------------------
(* All that the actions do to the rows, sorted by what it means for the     *)
(* life of an execution.                                                    *)

\* Nothing the invariant speaks of changes, and no device becomes busy.
Idle ==
  /\ UNCHANGED <<status, token, finalized, lock>>
  /\ \A d \in Devices : dev'[d] = "busy" => dev[d] = "busy"

Requeued(e) == status[e] = "running" /\ ~finalized[e] /\ Restore(e)

Stopping(e) == /\ status[e] = "running"
               /\ status' = [status EXCEPT ![e] = "stopping"]
               /\ UNCHANGED <<token, finalized, lock, dev>>

Judged(e) == /\ Active(e)
             /\ \E v \in TerminalStates : status' = [status EXCEPT ![e] = v]
             /\ UNCHANGED <<token, finalized, lock, dev>>

Cancelled(e) == /\ status[e] = "queued"
                /\ status' = [status EXCEPT ![e] = "cancelled"]
                /\ finalized' = [finalized EXCEPT ![e] = TRUE]
                /\ UNCHANGED <<token, lock, dev>>

\* Settled with a verdict; one that has its verdict, with that or as an error.
Settles(e) == \E v \in TerminalStates :
                /\ MarkTerminal(e, v)
                /\ Terminal(e) => v \in {status[e], "error"}

\* Devices are taken from executions that have their verdict.
Cleared == /\ UNCHANGED <<status, token, finalized>>
           /\ \A d \in Devices : \/ lock'[d] = lock[d] /\ dev'[d] = dev[d]
                                 \/ /\ lock'[d] = NoExec /\ dev'[d] # "busy"
                                    /\ \A e \in Execs : Dev(e) = d => Terminal(e)
           /\ lock' \in [Devices -> Execs \cup {NoExec}]

LifeStep ==
  \/ Idle \/ Cleared
  \/ \E w \in Workers, e \in Execs : Claim(w, e)
  \/ \E e \in Execs : \/ Requeued(e) \/ Stopping(e) \/ Judged(e) \/ Cancelled(e)
                      \/ Settles(e)
  \/ \E a \in Agents : HeartbeatScan(a)

\* A step that leaves the rows alone changes no life.
LEMMA KeepRowsIsIdle == UNCHANGED dbVars => Idle
BY DEF dbVars, rowVars, queueVars, devVars, Idle

\* Every step of a worker task is one of them.
LEMMA TaskLife ==
  ASSUME TypeOK, NEW k \in Sessions, TaskStep(k)
  PROVE  LifeStep
<1>0. pc[k] # "idle"
  BY DEF TaskStep, StartPhase, BuildPayload, TransactionFails, BeginDispatch,
         HandleCasFailure, SendOk, SendRejected, SendUncertain, CancelSend, RecordDispatch,
         Observe, FinalizeError, CancelUnstarted, CancelBeforeDispatch, UndoDispatch, Die
<1>e. job[k] \in Execs
  BY <1>0 DEF TypeOK, TasksTypeOK, Sessions
<1> DEFINE e == job[k]
<1>s. SUFFICES \/ Idle \/ Requeued(e) \/ Settles(e)
  BY <1>e DEF LifeStep
<1>t. Terminal(e) <=> status[e] \in TerminalStates
  BY DEF Terminal
<1>v. /\ {"error", "stopped"} \subseteq TerminalStates
      /\ {"queued", "running", "stopping"} \cap TerminalStates = {}
  BY DEF TerminalStates
<1>m. ASSUME NEW v \in TerminalStates, MarkTerminal(e, v),
             Terminal(e) => v \in {status[e], "error"}
      PROVE  Settles(e)
  BY <1>m DEF Settles
<1>1. CASE StartPhase(k) \/ HandleCasFailure(k)
  <2>1. UNCHANGED dbVars \/ Settles(e)
    BY <1>1, <1>t, <1>v DEF StartPhase, HandleCasFailure, Settles
  <2> QED BY <2>1, KeepRowsIsIdle
<1>2. CASE BuildPayload(k) \/ TransactionFails(k) \/ SendOk(k) \/ SendRejected(k)
           \/ SendUncertain(k) \/ CancelSend(k) \/ Die(k)
  BY <1>2, KeepRowsIsIdle DEF BuildPayload, TransactionFails, SendOk, SendRejected,
     SendUncertain, CancelSend, Die
<1>3. CASE BeginDispatch(k)
  BY <1>3 DEF BeginDispatch, Idle, devVars
<1>4. CASE RecordDispatch(k)
  <2>1. \/ UNCHANGED dbVars
        \/ MarkTerminal(e, status[e]) /\ Terminal(e)
        \/ UNCHANGED <<status, token, finalized, devVars>>
    BY <1>4 DEF RecordDispatch
  <2> QED BY <2>1, <1>t, <1>m, KeepRowsIsIdle DEF Idle, devVars
<1>5. CASE Observe(k) \/ FinalizeError(k)
  BY <1>5, <1>t, <1>v, <1>m DEF Observe, FinalizeError
<1>6. CASE CancelUnstarted(k) \/ CancelBeforeDispatch(k) \/ UndoDispatch(k)
  <2>1. \/ UNCHANGED dbVars \/ Requeued(e)
        \/ status[e] = "stopping" /\ MarkTerminal(e, "stopped")
    BY <1>6 DEF CancelUnstarted, CancelBeforeDispatch, UndoDispatch, Requeued, CanRestore
  <2> QED BY <2>1, <1>t, <1>v, <1>m, KeepRowsIsIdle
<1> QED BY <1>1, <1>2, <1>3, <1>4, <1>5, <1>6 DEF TaskStep

\* So is every step of the endpoints, the scans and the agents.
LEMMA RowLife ==
  ASSUME TypeOK, NEW e \in Execs, RowStep(e) \/ AgentStep(e)
  PROVE  LifeStep
<1>s. SUFFICES \/ Idle \/ Requeued(e) \/ Stopping(e) \/ Judged(e) \/ Cancelled(e)
               \/ Settles(e)
  BY DEF LifeStep
<1>v. /\ {"error", "stopped"} \subseteq TerminalStates
      /\ {"queued", "running", "stopping"} \cap TerminalStates = {}
  BY DEF TerminalStates
<1>m. ASSUME NEW v \in TerminalStates, MarkTerminal(e, v),
             Terminal(e) => v \in {status[e], "error"}
      PROVE  Settles(e)
  BY <1>m DEF Settles
<1>1. CASE SettleUnavailable(e) \/ ForceEnd(e) \/ FinalizeScan(e)
  BY <1>1, <1>v DEF SettleUnavailable, ForceEnd, FinalizeScan, Terminal, Settles,
     Hopeless, Waiting
<1>2. CASE ReadQueued(e) \/ SendStop(e) \/ Confirm(e) \/ ReceiveStop(e)
  BY <1>2, KeepRowsIsIdle DEF ReadQueued, SendStop, Confirm, ReceiveStop
<1>3. CASE StopQueued(e) \/ CloseQueueRow(e)
  BY <1>3 DEF StopQueued, CloseQueueRow, Idle, Cancelled, devVars, rowVars
<1>4. CASE StopRunning(e) \/ RequestTimeoutStop(e)
  BY <1>4 DEF StopRunning, StopRow, RequestTimeoutStop, Stopping, devVars
<1>5. CASE ReclaimRunning(e)
  <2>1. UNCHANGED dbVars \/ Requeued(e) \/ MarkTerminal(e, "error")
    BY <1>5 DEF ReclaimRunning, CanRestore, Requeued
  <2> QED BY <2>1, <1>v, <1>m, KeepRowsIsIdle
<1>6. CASE ReclaimSelect(e) \/ ReclaimRow(e)
  <2>1. UNCHANGED dbVars \/ MarkTerminal(e, "error")
    BY <1>6 DEF ReclaimSelect, ReclaimRow
  <2> QED BY <2>1, <1>v, <1>m, KeepRowsIsIdle
<1>w. CASE ReclaimWrite(e)
  BY <1>w DEF ReclaimWrite, Idle, rowVars, devVars
<1>7. CASE ServerResult(e)
  <2>1. PICK c \in ChildSets :
          status' = [status EXCEPT ![e] =
                    IF status[e] = "stopping" /\ reason[e] = "timeout" THEN "error"
                    ELSE IF status[e] = "stopping" /\ reason[e] = "user_stop" THEN "stopped"
                    ELSE MergeTerminalStatus(result[e].status, WorstOf(c))]
    BY <1>7 DEF ServerResult
  <2>2. MergeTerminalStatus(result[e].status, WorstOf(c)) \in TerminalStates
    BY ServerMergeIsTerminal
  <2>3. UNCHANGED <<token, finalized, lock, dev>> /\ Active(e)
    BY <1>7 DEF ServerResult, devVars
  <2> QED BY <2>1, <2>2, <2>3, <1>v DEF Judged
<1>8. CASE \E s \in AgentStatuses : AgentFinish(e, s)
  BY <1>8, KeepRowsIsIdle DEF AgentFinish
<1> QED BY <1>1, <1>2, <1>3, <1>4, <1>5, <1>6, <1>w, <1>7, <1>8 DEF RowStep, AgentStep

\* And every step at all.
LEMMA NextLife == TypeOK /\ RowsInv /\ Next => LifeStep
<1> SUFFICES ASSUME TypeOK, RowsInv, Next PROVE LifeStep
  OBVIOUS
<1>1. CASE \E d \in Devices : ForceRelease(d)
  <2>1. PICK d \in Devices : ForceRelease(d)
    BY <1>1
  <2>2. CASE lock[d] = NoExec
    BY <2>1, <2>2 DEF ForceRelease, LifeStep, Idle, rowVars, TypeOK, RowsTypeOK
  <2>3. CASE lock[d] # NoExec
    <3>0. ~finalized[lock[d]]
      BY <2>3 DEF RowsInv, LockIsOwned
    <3>1. lock[d] \in Execs /\ Stopping(lock[d])
      BY <2>1, <2>3, <3>0 DEF ForceRelease, StopRow, Stopping, devVars, TypeOK, RowsTypeOK
    <3> QED BY <3>1 DEF LifeStep
  <2> QED BY <2>2, <2>3
<1>2. CASE \E d \in Devices : WriteSnapshot(d)
  BY <1>2 DEF WriteSnapshot, LifeStep, Idle, rowVars, TypeOK, RowsTypeOK, AgentsTypeOK
<1>3. CASE \E d \in Devices, s \in {"idle", "offline"} : DeviceList(d, s) \/ ReadSnapshot(d, s)
  <2>1. Idle
    BY <1>3, KeepRowsIsIdle DEF DeviceList, ReadSnapshot, Idle, rowVars, TypeOK, RowsTypeOK
  <2> QED BY <2>1 DEF LifeStep
<1>4. CASE \E a \in Agents : AgentOnline(a) \/ AgentOffline(a) \/ AgentCrash(a)
  BY <1>4, KeepRowsIsIdle DEF AgentOnline, AgentOffline, AgentCrash, LifeStep, Idle, rowVars, devVars
<1>5. CASE \E m \in starts : ReceiveStart(m) \/ LoseStart(m)
  BY <1>5, KeepRowsIsIdle DEF ReceiveStart, LoseStart, LifeStep
<1>7. ASSUME NEW a \in Agents, DeleteAgent(a) PROVE LifeStep
  <2>1. Cleared
    BY <1>7 DEF DeleteAgent, Cleared, rowVars, TypeOK, RowsTypeOK
  <2> QED BY <2>1 DEF LifeStep
<1>6. CASE \/ \E w \in Workers, e \in Execs : Claim(w, e)
           \/ \E a \in Agents : HeartbeatScan(a)
  BY <1>6 DEF LifeStep
<1> QED BY <1>1, <1>2, <1>3, <1>4, <1>5, <1>6, <1>7, TaskLife, RowLife DEF Next

-----------------------------------------------------------------------------
(* The invariant of the rows is inductive.                                  *)

\* An execution settled by _mark_terminal frees its own device and no other.
LEMMA SettleInv ==
  ASSUME TypeOK, RowsInv, NEW e \in Execs, NEW v \in TerminalStates, MarkTerminal(e, v)
  PROVE  RowsInv'
<1> USE DEF RowsInv
<1>1. CASE finalized[e]
  BY <1>1 DEF MarkTerminal, dbVars, rowVars, devVars, ActiveHoldsDevice, LockIsOwned, Active,
     Terminal, Dev
<1>2. CASE ~finalized[e]
  <2>1. PICK u \in TerminalStates : status' = [status EXCEPT ![e] = u]
    BY <1>2, MergeIsTerminal DEF MarkTerminal
  <2>2. finalized' = [finalized EXCEPT ![e] = TRUE]
    BY <1>2 DEF MarkTerminal
  <2>3. \A d \in Devices :
          /\ lock'[d] = IF lock[d] = e THEN NoExec ELSE lock[d]
          /\ dev'[d] = IF lock[d] = e THEN "idle" ELSE dev[d]
    BY <1>2 DEF MarkTerminal, devVars, LockIsOwned, Dev, TypeOK, RowsTypeOK, NoExec
  <2>4. ActiveHoldsDevice'
    BY <2>1, <2>3 DEF ActiveHoldsDevice, Active, Dev, TypeOK, RowsTypeOK, TerminalStates
  <2>5. LockIsOwned'
    BY <2>1, <2>2, <2>3 DEF LockIsOwned, Dev, TypeOK, RowsTypeOK, TerminalStates
  <2>6. \A f \in Execs : finalized'[f] => Terminal(f)'
    BY <2>1, <2>2 DEF Terminal, TypeOK, RowsTypeOK
  <2> QED BY <2>4, <2>5, <2>6
<1> QED BY <1>1, <1>2

\* A claim takes a free device, so it takes it from nobody.
LEMMA ClaimInv ==
  ASSUME TypeOK, RowsInv, NEW w \in Workers, NEW e \in Execs, Claim(w, e)
  PROVE  RowsInv'
<1> USE DEF RowsInv
<1>1. /\ status[e] = "queued" /\ lock[Dev(e)] = NoExec /\ ~finalized[e]
      /\ status' = [status EXCEPT ![e] = "running"] /\ finalized' = finalized
      /\ lock' = [lock EXCEPT ![Dev(e)] = e] /\ dev' = [dev EXCEPT ![Dev(e)] = "busy"]
      /\ Dev(e) \in Devices /\ e # NoExec
  BY DEF Claim, Runnable, Waiting, Terminal, TerminalStates, Dev, NoExec
<1>2. ActiveHoldsDevice'
  BY <1>1 DEF ActiveHoldsDevice, Active, Dev, TypeOK, RowsTypeOK, NoExec
<1>3. LockIsOwned'
  BY <1>1 DEF LockIsOwned, Dev, TypeOK, RowsTypeOK
<1>4. \A f \in Execs : finalized'[f] => Terminal(f)'
  BY <1>1 DEF Terminal, TypeOK, RowsTypeOK
<1> QED BY <1>2, <1>3, <1>4

\* A restored execution keeps no device, and takes none from another.
LEMMA RequeueInv ==
  ASSUME TypeOK, RowsInv, NEW e \in Execs, Requeued(e)
  PROVE  RowsInv'
<1> USE DEF RowsInv
<1>1. /\ status' = [status EXCEPT ![e] = "queued"] /\ finalized' = finalized /\ ~finalized[e]
      /\ \A d \in Devices :
          /\ lock'[d] = IF lock[d] = e THEN NoExec ELSE lock[d]
          /\ dev'[d] = "busy" => dev[d] = "busy" /\ lock[d] # e
  BY DEF Requeued, Restore, NoExec
<1>2. ActiveHoldsDevice'
  BY <1>1 DEF ActiveHoldsDevice, Active, Dev, TypeOK, RowsTypeOK
<1>3. LockIsOwned'
  BY <1>1 DEF LockIsOwned, Dev, TypeOK, RowsTypeOK
<1>4. \A f \in Execs : finalized'[f] => Terminal(f)'
  BY <1>1 DEF Terminal, TypeOK, RowsTypeOK
<1> QED BY <1>2, <1>3, <1>4

\* A stop, a verdict and a cancellation move one execution and no device.
LEMMA MoveInv ==
  ASSUME TypeOK, RowsInv, NEW e \in Execs, Stopping(e) \/ Judged(e) \/ Cancelled(e)
  PROVE  RowsInv'
<1> USE DEF RowsInv
<1>1. /\ lock' = lock /\ dev' = dev
      /\ \E s : /\ status' = [status EXCEPT ![e] = s] /\ s # "queued"
                /\ s \notin {"running", "stopping"} \/ Active(e)
  BY DEF Stopping, Judged, Cancelled, Active, TerminalStates
<1>2. ActiveHoldsDevice'
  BY <1>1 DEF ActiveHoldsDevice, Active, Dev, TypeOK, RowsTypeOK
<1>3. \A f \in Execs : /\ finalized'[f] /\ ~finalized[f] => f = e /\ status[f] = "queued"
                       /\ finalized'[f] => Terminal(f)'
  BY DEF Stopping, Judged, Cancelled, Terminal, Active, TypeOK, RowsTypeOK, TerminalStates
<1>4. LockIsOwned'
  <2> SUFFICES ASSUME NEW d \in Devices, lock[d] # NoExec
               PROVE  ~finalized'[lock[d]] /\ status'[lock[d]] # "queued"
    BY <1>1 DEF LockIsOwned, Dev
  <2>1. lock[d] \in Execs /\ ~finalized[lock[d]] /\ status[lock[d]] # "queued"
    BY DEF LockIsOwned, TypeOK, RowsTypeOK
  <2> QED BY <2>1, <1>1, <1>3 DEF TypeOK, RowsTypeOK
<1> QED BY <1>2, <1>3, <1>4

\* Every execution the heartbeat scan ends has a verdict then.
LEMMA LostIsEnded ==
  ASSUME NEW a \in Agents, HeartbeatScan(a)
  PROVE  \A e \in {x \in Lost(a) : ~finalized[x]} : status'[e] \in TerminalStates
<1> DEFINE ends == {x \in Lost(a) : ~finalized[x]}
           verdict(e) == IF status[e] = "running" THEN "error" ELSE "stopped"
<1>1. PICK c \in [ends -> ChildSets] :
        status' = [e \in Execs |-> IF e \notin ends THEN status[e]
                                   ELSE MergeExecutionStatus(verdict(e), c[e])]
  BY DEF HeartbeatScan
<1> SUFFICES ASSUME NEW e \in ends PROVE status'[e] \in TerminalStates
  OBVIOUS
<1>2. verdict(e) \in TerminalStates /\ c[e] \in ChildSets /\ e \in Execs
  BY <1>1 DEF TerminalStates, Lost
<1>3. MergeExecutionStatus(verdict(e), c[e]) \in TerminalStates
  BY <1>2, MergeIsTerminal
<1> QED BY <1>1, <1>2, <1>3

\* The heartbeat scan ends every execution whose device it frees, or finds
\* its verdict there already; one in its timeout grace keeps the device.
LEMMA HeartbeatInv ==
  ASSUME TypeOK, RowsInv, NEW a \in Agents, HeartbeatScan(a)
  PROVE  RowsInv'
<1> USE DEF RowsInv
<1> DEFINE ends == {e \in Lost(a) : ~finalized[e]}
<1>1. /\ \A e \in Execs \ ends : status'[e] = status[e]
      /\ \A e \in Execs : finalized'[e] = (finalized[e] \/ e \in ends)
      /\ \A d \in Devices : /\ lock'[d] = IF d \in Freed(a) THEN NoExec ELSE lock[d]
                            /\ dev'[d] = IF d \in Freed(a) THEN "idle" ELSE dev[d]
  BY DEF HeartbeatScan
<1>2. \A e \in ends : status'[e] \in TerminalStates
  BY LostIsEnded
<1>3. \A d \in Freed(a) : lock[d] # NoExec /\ Active(lock[d]) => lock[d] \in ends
  BY DEF Freed, InGrace, Lost, Active, LockIsOwned, Dev, TypeOK, RowsTypeOK, Terminal, TerminalStates
<1>4. \A e \in ends : Dev(e) \in Freed(a) /\ lock[Dev(e)] = e /\ e \in Execs
  BY DEF Freed, InGrace, Lost, Dev
<1>5. ActiveHoldsDevice'
  <2> SUFFICES ASSUME NEW e \in Execs, Active(e)' PROVE lock'[Dev(e)] = e
    BY DEF ActiveHoldsDevice, Dev
  <2>1. e \notin ends /\ Active(e)
    BY <1>1, <1>2 DEF Active, TerminalStates
  <2>2. lock[Dev(e)] = e /\ Dev(e) \notin Freed(a) /\ Dev(e) \in Devices
    BY <2>1, <1>3 DEF ActiveHoldsDevice, Dev, NoExec
  <2> QED BY <2>2, <1>1
<1>6. LockIsOwned'
  <2> SUFFICES ASSUME NEW d \in Devices
               PROVE  /\ dev'[d] = "busy" => lock'[d] # NoExec
                      /\ lock'[d] # NoExec => /\ Dev(lock'[d]) = d /\ ~finalized'[lock'[d]]
                                              /\ status'[lock'[d]] # "queued"
    BY DEF LockIsOwned, Dev
  <2>1. CASE d \in Freed(a)
    BY <2>1, <1>1
  <2>2. CASE d \notin Freed(a)
    <3>1. lock'[d] = lock[d] /\ dev'[d] = dev[d]
      BY <2>2, <1>1
    <3>2. ASSUME lock[d] # NoExec
          PROVE  /\ lock[d] \in Execs /\ Dev(lock[d]) = d /\ lock[d] \notin ends
                 /\ ~finalized[lock[d]] /\ status[lock[d]] # "queued"
      BY <3>2, <2>2, <1>4 DEF LockIsOwned, TypeOK, RowsTypeOK
    <3>3. dev[d] = "busy" => lock[d] # NoExec
      BY DEF LockIsOwned
    <3> HIDE DEF ends
    <3> QED BY <3>1, <3>2, <3>3, <1>1
  <2> QED BY <2>1, <2>2
<1>7. \A e \in Execs : finalized'[e] => Terminal(e)'
  BY <1>1, <1>2 DEF Terminal
<1> QED BY <1>5, <1>6, <1>7

\* Clearing the devices of a deleted agent takes none from an active execution.
LEMMA ClearInv ==
  ASSUME TypeOK, RowsInv, Cleared
  PROVE  RowsInv'
<1> USE DEF RowsInv, Cleared
<1>1. ActiveHoldsDevice'
  <2> SUFFICES ASSUME NEW e \in Execs, Active(e)' PROVE lock'[Dev(e)] = e
    BY DEF ActiveHoldsDevice, Dev
  <2>1. Active(e) /\ ~Terminal(e) /\ Dev(e) \in Devices
    BY DEF Active, Terminal, TerminalStates, Dev
  <2>2. lock'[Dev(e)] = lock[Dev(e)]
    BY <2>1
  <2> QED BY <2>1, <2>2 DEF ActiveHoldsDevice
<1>2. LockIsOwned'
  BY DEF LockIsOwned, Dev
<1>3. \A e \in Execs : finalized'[e] => Terminal(e)'
  BY DEF Terminal
<1> QED BY <1>1, <1>2, <1>3

\* Every step of the system keeps the invariant of the rows.
LEMMA NextRowsInv == TypeOK /\ RowsInv /\ [Next]_vars => RowsInv'
<1> SUFFICES ASSUME TypeOK, RowsInv, [Next]_vars PROVE RowsInv'
  OBVIOUS
<1>1. ASSUME Idle PROVE RowsInv'
  BY <1>1 DEF RowsInv, Idle, ActiveHoldsDevice, LockIsOwned, Active, Terminal, Dev
<1>2. CASE UNCHANGED vars
  BY <1>1, <1>2, KeepRowsIsIdle DEF vars
<1>3. CASE Next
  <2>1. LifeStep
    BY <1>3, NextLife
  <2> QED BY <2>1, <1>1, SettleInv, ClaimInv, RequeueInv, MoveInv, HeartbeatInv, ClearInv
             DEF LifeStep, Settles
<1> QED BY <1>2, <1>3

\* The rows keep their invariant in every reachable state.
THEOREM RowsInvariant == Spec => [](TypeOK /\ RowsInv)
<1>1. Init => TypeOK /\ RowsInv
  <2>1. Init => RowsInv
    BY DEF Init, RowsInv, ActiveHoldsDevice, LockIsOwned, Active, Terminal, NoExec, Dev
  <2> QED BY <2>1, InitType
<1>2. TypeOK /\ RowsInv /\ [Next]_vars => (TypeOK /\ RowsInv)'
  BY NextType, NextRowsInv
<1> QED BY <1>1, <1>2, PTL DEF Spec

\* A device belongs to one execution at a time: every running or stopping
\* execution holds the lock of its device, whatever is restored, reclaimed,
\* released by hand, timed out or lost with its agent.
THEOREM DevicesAreExclusive == Spec => []ActiveHoldsDevice
<1>1. RowsInv => ActiveHoldsDevice
  BY DEF RowsInv
<1> QED BY <1>1, RowsInvariant, PTL

\* No lock outlives its execution: the holder of a device is an unsettled,
\* started execution of that device, and no device is busy without a holder.
THEOREM LocksAreOwned == Spec => []LockIsOwned
<1>1. RowsInv => LockIsOwned
  BY DEF RowsInv
<1> QED BY <1>1, RowsInvariant, PTL

-----------------------------------------------------------------------------
(* A settled execution stays as it is.                                      *)

\* What one step may do to an execution that is settled: nothing.
LEMMA SettledStep ==
  ASSUME TypeOK, RowsInv, LifeStep, NEW f \in Execs, finalized[f]
  PROVE  finalized'[f] /\ status'[f] = status[f] /\ token'[f] = token[f] /\ lock'[Dev(f)] # f
<1> DEFINE goal == /\ finalized'[f] /\ status'[f] = status[f] /\ token'[f] = token[f]
                   /\ lock'[Dev(f)] # f
<1>1. /\ Terminal(f) /\ status[f] \notin {"queued", "running", "stopping"}
      /\ lock[Dev(f)] # f /\ Dev(f) \in Devices /\ f # NoExec
  <2>1. Dev(f) \in Devices /\ f # NoExec
    BY DEF Dev
  <2>2. Terminal(f) /\ lock[Dev(f)] # f
    BY <2>1 DEF RowsInv, LockIsOwned
  <2> QED BY <2>1, <2>2 DEF Terminal, TerminalStates
<1>2. CASE Idle
  BY <1>1, <1>2 DEF Idle
<1>3. ASSUME NEW w \in Workers, NEW e \in Execs, Claim(w, e) PROVE goal
  BY <1>1, <1>3 DEF Claim, Runnable, Waiting, TypeOK, RowsTypeOK, Dev
<1>4. ASSUME NEW e \in Execs, Requeued(e) PROVE goal
  BY <1>1, <1>4 DEF Requeued, Restore, TypeOK, RowsTypeOK, NoExec
<1>5. ASSUME NEW e \in Execs, Stopping(e) \/ Judged(e) \/ Cancelled(e) PROVE goal
  BY <1>1, <1>5 DEF Stopping, Judged, Cancelled, Active, TypeOK, RowsTypeOK
<1>6. ASSUME NEW e \in Execs, NEW v \in TerminalStates, MarkTerminal(e, v) PROVE goal
  BY <1>1, <1>6 DEF MarkTerminal, dbVars, rowVars, devVars, TypeOK, RowsTypeOK, Dev, NoExec
<1>7. ASSUME NEW a \in Agents, HeartbeatScan(a) PROVE goal
  BY <1>1, <1>7 DEF HeartbeatScan, NoExec
<1>8. CASE Cleared
  BY <1>1, <1>8 DEF Cleared
<1> QED BY <1>2, <1>3, <1>4, <1>5, <1>6, <1>7, <1>8 DEF LifeStep, Settles

\* A settled execution never changes again, neither its verdict nor its
\* session, and never takes a device back: not by a late result of its agent,
\* a worker that still has it in hand, a scan or a restore.
THEOREM SettlementIsFinal == Spec => SettledIsFinal
<1>1. TypeOK /\ RowsInv /\ [Next]_vars
        => [\A e \in Execs : finalized[e] =>
              /\ finalized'[e] /\ status'[e] = status[e] /\ token'[e] = token[e]
              /\ lock'[Dev(e)] # e]_vars
  BY NextLife, SettledStep
<1> QED BY <1>1, RowsInvariant, PTL DEF Spec, SettledIsFinal

-----------------------------------------------------------------------------
(* A verdict is only ever replaced by a worse one.                          *)

\* The worst ranked status of a set decides it (aggregate_statuses).
LEMMA WorstDecides ==
  ASSUME NEW S, \A x \in S : AsStopped(x) = x
  PROVE  /\ "error" \in S => AggregateStatuses(S) = "error"
         /\ "failed" \in S => AggregateStatuses(S) \in {"error", "failed"}
         /\ "stopped" \in S => AggregateStatuses(S) \in {"error", "failed", "stopped"}
<1> DEFINE remaining == {AsStopped(s) : s \in S}
<1>1. \A x \in S : x \in remaining
  OBVIOUS
<1>2. AggregateStatuses(S) =
        IF "error" \in remaining THEN "error"
        ELSE IF "failed" \in remaining THEN "failed"
        ELSE IF "stopped" \in remaining THEN "stopped"
        ELSE IF "skipped" \in remaining THEN "skipped"
        ELSE IF remaining = {"passed"} THEN "passed"
        ELSE IF remaining = {} THEN "skipped" ELSE "error"
  BY DEF AggregateStatuses
<1> HIDE DEF remaining
<1> QED BY <1>1, <1>2

\* The merge with the stored children never makes a verdict milder
\* (merge_execution_status).
LEMMA MergeWorsens ==
  ASSUME NEW v \in TerminalStates, NEW c \in ChildSets
  PROVE  /\ Severity(v) <= Severity(MergeExecutionStatus(v, c))
         /\ v = "error" => MergeExecutionStatus(v, c) = "error"
<1> DEFINE S == {AsStopped(v)} \cup (c \cap Blocking)
           m == AggregateStatuses(S)
<1>1. \A x \in S : AsStopped(x) = x
  BY DEF AsStopped, Blocking
<1>3. /\ "error" \in S => m = "error"
      /\ "failed" \in S => m \in {"error", "failed"}
      /\ "stopped" \in S => m \in {"error", "failed", "stopped"}
      /\ m \in Ranked
  BY <1>1, WorstDecides, AggregateRanked
<1>4. AsStopped(v) \in S /\ (v = "passed" \/ AsStopped(v) \in {"error", "failed", "stopped"})
  BY DEF AsStopped, TerminalStates
<1>5. \/ MergeExecutionStatus(v, c) = m
      \/ m = "stopped" /\ MergeExecutionStatus(v, c) = "cancelled"
  BY DEF MergeExecutionStatus
<1>6. m \in TerminalStates \cup {"skipped"} /\ MergeExecutionStatus(v, c) \in TerminalStates
  BY <1>3, MergeIsTerminal DEF Ranked, TerminalStates
<1> HIDE DEF m, S
<1>7. /\ v = "error" => MergeExecutionStatus(v, c) = "error"
      /\ v = "failed" => MergeExecutionStatus(v, c) \in {"failed", "error"}
      /\ v \in {"stopped", "cancelled"} => MergeExecutionStatus(v, c) # "passed"
  BY <1>3, <1>4, <1>5 DEF AsStopped
<1>8. /\ Severity("passed") = 0 /\ Severity("stopped") = 1 /\ Severity("cancelled") = 1
      /\ Severity("failed") = 2 /\ Severity("error") = 3
  BY DEF Severity
<1> QED BY <1>6, <1>7, <1>8 DEF TerminalStates

\* What one step may do to an execution that has its verdict: settle it, with
\* that verdict or as an error.
LEMMA VerdictStep ==
  ASSUME TypeOK, RowsInv, LifeStep, NEW f \in Execs, Terminal(f)
  PROVE  /\ status'[f] \in TerminalStates
         /\ Severity(status[f]) <= Severity(status'[f])
<1> DEFINE goal == /\ status'[f] \in TerminalStates
                   /\ Severity(status[f]) <= Severity(status'[f])
<1>0. /\ status[f] \in TerminalStates /\ status[f] \notin {"queued", "running", "stopping"}
      /\ Severity(status[f]) \in 0 .. 3 /\ Severity("error") = 3
  <2>1. \A v \in TerminalStates : Severity(v) \in 0 .. 3
    BY DEF Severity, TerminalStates
  <2>2. Severity("error") = 3
    BY DEF Severity
  <2> QED BY <2>1, <2>2 DEF Terminal, TerminalStates
<1>1. status'[f] = status[f] => goal
  BY <1>0
<1>2. CASE Idle \/ Cleared
  BY <1>1, <1>2 DEF Idle, Cleared
<1>3. ASSUME NEW w \in Workers, NEW e \in Execs, Claim(w, e) PROVE goal
  <2>1. status' = [status EXCEPT ![e] = "running"] /\ status[e] = "queued"
    BY <1>3 DEF Claim, Runnable, Waiting
  <2> QED BY <1>0, <1>1, <2>1 DEF TypeOK, RowsTypeOK
<1>4. ASSUME NEW e \in Execs, Requeued(e) PROVE goal
  <2>1. status' = status \/ (status[e] = "running" /\ status' = [status EXCEPT ![e] = "queued"])
    BY <1>4 DEF Requeued, Restore
  <2> QED BY <1>0, <1>1, <2>1 DEF TypeOK, RowsTypeOK
<1>5. ASSUME NEW e \in Execs, Stopping(e) \/ Judged(e) \/ Cancelled(e) PROVE goal
  <2>1. e # f
    BY <1>0, <1>5 DEF Stopping, Judged, Cancelled, Active
  <2>2. \E x : status' = [status EXCEPT ![e] = x]
    BY <1>5 DEF Stopping, Judged, Cancelled
  <2> QED BY <1>1, <2>1, <2>2 DEF TypeOK, RowsTypeOK
<1>6. ASSUME NEW e \in Execs, Settles(e) PROVE goal
  <2>1. PICK v \in TerminalStates : /\ MarkTerminal(e, v)
                                    /\ Terminal(e) => v \in {status[e], "error"}
    BY <1>6 DEF Settles
  <2> MarkTerminal(e, v)
    BY <2>1
  <2>2. CASE finalized[e]
    <3>1. status' = status
      BY <2>2 DEF MarkTerminal, dbVars, rowVars
    <3> QED BY <1>1, <3>1
  <2>3. CASE ~finalized[e]
    <3>1. PICK c \in ChildSets : status' = [status EXCEPT ![e] = MergeExecutionStatus(v, c)]
      BY <2>3 DEF MarkTerminal
    <3>2. CASE e # f
      BY <1>1, <3>1, <3>2 DEF TypeOK, RowsTypeOK
    <3>3. CASE e = f
      <4>1. v \in {status[f], "error"}
        BY <2>1, <3>3
      <4>2. status'[f] = MergeExecutionStatus(v, c)
        BY <3>1, <3>3 DEF TypeOK, RowsTypeOK
      <4>3. Severity(v) <= Severity(status'[f]) /\ status'[f] \in TerminalStates
        BY <4>2, MergeWorsens, MergeIsTerminal
      <4>4. CASE v = "error"
        <5>1. status'[f] = "error"
          BY <4>2, <4>4, MergeWorsens
        <5> QED BY <1>0, <5>1 DEF TerminalStates
      <4>5. CASE v = status[f]
        BY <4>3, <4>5
      <4> QED BY <4>1, <4>4, <4>5
    <3> QED BY <3>2, <3>3
  <2> QED BY <2>2, <2>3
<1>7. ASSUME NEW a \in Agents, HeartbeatScan(a) PROVE goal
  <2>1. f \notin Lost(a)
    BY <1>0 DEF Lost, Active
  <2>2. status'[f] = status[f]
    BY <1>7, <2>1 DEF HeartbeatScan, TypeOK, RowsTypeOK
  <2> QED BY <1>1, <2>2
<1> QED BY <1>2, <1>3, <1>4, <1>5, <1>6, <1>7 DEF LifeStep

\* Once an execution has a verdict it keeps one, and only a worse one ever
\* takes its place: no late settlement, scan or result turns a failure into
\* a pass, or an error into a stop.
THEOREM VerdictsOnlyWorsen == Spec => VerdictOnlyWorsens
<1>1. TypeOK /\ RowsInv /\ [Next]_vars
        => [\A e \in Execs : Terminal(e) => /\ status'[e] \in TerminalStates
                                            /\ Severity(status[e]) <= Severity(status'[e])]_vars
  BY NextLife, VerdictStep
<1> QED BY <1>1, RowsInvariant, PTL DEF Spec, VerdictOnlyWorsens

-----------------------------------------------------------------------------
(* What waits can be claimed.                                               *)

\* The scan for stale claims writes a row as failed only when its execution
\* has left the queue for good: that is what keeps the row of a queued one
\* open, and is not said by QueuedIsClaimable itself.
QueueInv ==
  /\ QueuedIsClaimable
  /\ \A e \in Execs :
       scan[e].at = "write" => retry[e] < 2 \/ status[e] \notin {"queued", "running"}

\* What a step may do to the queue row of an execution, to the cancellation
\* that closes it, and to the scan that has selected it.
QueueMove(f) ==
  /\ status'[f] = "queued" => \/ status[f] = "queued" /\ queue'[f] = queue[f]
                              \/ queue'[f] = "pending" \/ cancelling'[f] = "done"
                              \/ /\ status[f] = "queued"
                                 /\ scan[f].at = "write" /\ retry[f] >= 2
  /\ status'[f] \in {"queued", "running"} => status[f] \in {"queued", "running"}
  /\ cancelling[f] = "done" => cancelling'[f] = "done"
  /\ scan'[f].at = "write" => \/ scan[f].at = "write" /\ retry'[f] = retry[f]
                              \/ retry'[f] < 2
                              \/ status'[f] \notin {"queued", "running"}

\* Most steps settle the rows of one execution, restore them or leave the
\* queue alone.
RowsMove(e) ==
  /\ retry' = retry
  /\ \/ queue' = queue /\ \A f \in Execs : \/ status'[f] = status[f]
                                           \/ status'[f] \notin {"queued", "running"}
     \/ \E v \in TerminalStates : MarkTerminal(e, v)
     \/ status[e] = "running" /\ Restore(e)

\* A transaction that settles an execution ends it, or finds it settled.
LEMMA RowsMoveQueue ==
  ASSUME TypeOK, NEW e \in Execs, RowsMove(e), NEW f \in Execs
  PROVE  /\ retry'[f] = retry[f]
         /\ \/ /\ queue'[f] = queue[f]
               /\ status'[f] = status[f] \/ status'[f] \notin {"queued", "running"}
            \/ status'[f] \notin {"queued", "running"}
            \/ status[f] = "running" /\ status'[f] = "queued" /\ queue'[f] = "pending"
<1>1. retry' = retry
  BY DEF RowsMove
<1>2. CASE queue' = queue /\ \A g \in Execs : \/ status'[g] = status[g]
                                              \/ status'[g] \notin {"queued", "running"}
  BY <1>1, <1>2
<1>3. ASSUME NEW v \in TerminalStates, MarkTerminal(e, v), ~finalized[e]
      PROVE  /\ queue' = [queue EXCEPT ![e] = "done"]
             /\ \E u \in TerminalStates : status' = [status EXCEPT ![e] = u]
  BY <1>3, MergeIsTerminal DEF MarkTerminal
<1>4. ASSUME NEW v \in TerminalStates, MarkTerminal(e, v), finalized[e]
      PROVE  queue' = queue /\ status' = status
  BY <1>4 DEF MarkTerminal, dbVars, rowVars, queueVars
<1>5. CASE \E v \in TerminalStates : MarkTerminal(e, v)
  BY <1>1, <1>3, <1>4, <1>5 DEF TerminalStates, TypeOK, RowsTypeOK
<1>6. CASE status[e] = "running" /\ Restore(e)
  <2>1. /\ status' = [status EXCEPT ![e] = "queued"]
        /\ queue' = [queue EXCEPT ![e] = "pending"]
    BY <1>6 DEF Restore
  <2> QED BY <1>1, <1>6, <2>1 DEF TypeOK, RowsTypeOK
<1> QED BY <1>2, <1>5, <1>6 DEF RowsMove

\* Then the queue row moves as QueueMove says, whatever the scan does with
\* the row as long as it selects it for writing no more.
LEMMA RowsMoveIsQueueMove ==
  ASSUME TypeOK, NEW e \in Execs, RowsMove(e), NEW f \in Execs,
         cancelling'[f] = cancelling[f] \/ cancelling[f] # "done",
         scan'[f].at = "write" => scan[f].at = "write"
  PROVE  QueueMove(f)
BY RowsMoveQueue DEF QueueMove

\* The tasks of the workers: none of them knows of the scan or of a
\* cancellation.
LEMMA TaskQueue ==
  ASSUME TypeOK, NEW k \in Sessions, TaskStep(k), NEW f \in Execs
  PROVE  QueueMove(f)
<1>0. pc[k] # "idle"
  BY DEF TaskStep, StartPhase, BuildPayload, TransactionFails, BeginDispatch,
         HandleCasFailure, SendOk, SendRejected, SendUncertain, CancelSend, RecordDispatch,
         Observe, FinalizeError, CancelUnstarted, CancelBeforeDispatch, UndoDispatch, Die
<1>e. job[k] \in Execs
  BY <1>0 DEF TypeOK, TasksTypeOK, Sessions
<1> DEFINE e == job[k]
<1>v. {"error", "stopped"} \subseteq TerminalStates
  BY DEF TerminalStates
<1>t. Terminal(e) <=> status[e] \in TerminalStates
  BY DEF Terminal
<1>d. UNCHANGED dbVars => RowsMove(e)
  BY DEF dbVars, rowVars, queueVars, RowsMove
<1>m. ASSUME NEW v \in TerminalStates, MarkTerminal(e, v) PROVE RowsMove(e)
  <2>1. retry' = retry
    BY <1>m DEF MarkTerminal, dbVars, queueVars
  <2> QED BY <1>m, <2>1 DEF RowsMove
<1>q. UNCHANGED <<status, queueVars>> => RowsMove(e)
  BY DEF queueVars, RowsMove
<1>1. CASE StartPhase(k) \/ HandleCasFailure(k)
  <2>1. UNCHANGED dbVars \/ \E v \in TerminalStates : MarkTerminal(e, v)
    BY <1>1, <1>t, <1>v DEF StartPhase, HandleCasFailure
  <2>2. UNCHANGED <<cancelling, scan>>
    BY <1>1 DEF StartPhase, HandleCasFailure, TaskOnly, netVars
  <2> QED BY <1>e, <1>d, <1>m, <2>1, <2>2, RowsMoveIsQueueMove
<1>2. CASE BuildPayload(k) \/ TransactionFails(k) \/ SendOk(k) \/ SendRejected(k)
           \/ SendUncertain(k) \/ CancelSend(k) \/ Die(k)
  <2>1. UNCHANGED dbVars /\ UNCHANGED <<cancelling, scan>>
    BY <1>2 DEF BuildPayload, TransactionFails, SendOk, SendRejected, SendUncertain,
       CancelSend, Die, TaskOnly, Deliver, netVars
  <2> QED BY <1>e, <1>d, <2>1, RowsMoveIsQueueMove
<1>3. CASE BeginDispatch(k)
  <2>1. UNCHANGED <<status, queueVars>> /\ UNCHANGED <<cancelling, scan>>
    BY <1>3 DEF BeginDispatch, TaskOnly, netVars
  <2> QED BY <1>e, <1>q, <2>1, RowsMoveIsQueueMove
<1>4. CASE RecordDispatch(k) \/ Observe(k) \/ FinalizeError(k)
  <2>1. \/ UNCHANGED dbVars \/ UNCHANGED <<status, queueVars>>
        \/ \E v \in TerminalStates : MarkTerminal(e, v)
    BY <1>4, <1>t, <1>v DEF RecordDispatch, Observe, FinalizeError
  <2>2. UNCHANGED <<cancelling, scan>>
    BY <1>4 DEF RecordDispatch, Observe, FinalizeError, TaskOnly, netVars
  <2> QED BY <1>e, <1>d, <1>m, <1>q, <2>1, <2>2, RowsMoveIsQueueMove
<1>5. CASE CancelUnstarted(k) \/ CancelBeforeDispatch(k) \/ UndoDispatch(k)
  <2>1. \/ UNCHANGED dbVars \/ \E v \in TerminalStates : MarkTerminal(e, v)
        \/ status[e] = "running" /\ Restore(e) /\ UNCHANGED retry
    BY <1>5, <1>v DEF CancelUnstarted, CancelBeforeDispatch, UndoDispatch, CanRestore
  <2>2. UNCHANGED <<cancelling, scan>>
    BY <1>5 DEF CancelUnstarted, CancelBeforeDispatch, UndoDispatch, TaskOnly, netVars
  <2>3. status[e] = "running" /\ Restore(e) /\ UNCHANGED retry => RowsMove(e)
    BY DEF RowsMove
  <2> QED BY <1>e, <1>d, <1>m, <2>1, <2>2, <2>3, RowsMoveIsQueueMove
<1> QED BY <1>1, <1>2, <1>3, <1>4, <1>5 DEF TaskStep

\* The endpoints, the scans and the agents.
LEMMA RowQueue ==
  ASSUME TypeOK, RowsInv, NEW e \in Execs, RowStep(e) \/ AgentStep(e), NEW f \in Execs
  PROVE  QueueMove(f)
<1>v. /\ {"error", "stopped", "cancelled"} \subseteq TerminalStates
      /\ {"queued", "running", "stopping"} \cap TerminalStates = {}
  BY DEF TerminalStates
<1>d. UNCHANGED dbVars => RowsMove(e)
  BY DEF dbVars, rowVars, queueVars, RowsMove
<1>m. ASSUME NEW v \in TerminalStates, MarkTerminal(e, v) PROVE RowsMove(e)
  <2>1. retry' = retry
    BY <1>m DEF MarkTerminal, dbVars, queueVars
  <2> QED BY <1>m, <2>1 DEF RowsMove
<1>1. CASE SettleUnavailable(e) \/ ForceEnd(e) \/ FinalizeScan(e)
  <2>1. \E v \in TerminalStates : MarkTerminal(e, v)
    BY <1>1, <1>v DEF SettleUnavailable, ForceEnd, FinalizeScan, Terminal
  <2>2. UNCHANGED <<cancelling, scan>>
    BY <1>1 DEF SettleUnavailable, ForceEnd, FinalizeScan, ScanOnly, netVars
  <2> QED BY <1>m, <2>1, <2>2, RowsMoveIsQueueMove
<1>2. CASE ReadQueued(e) \/ SendStop(e) \/ Confirm(e) \/ ReceiveStop(e) \/ ReclaimSelect(e)
           \/ \E s \in AgentStatuses : AgentFinish(e, s)
  <2>1. UNCHANGED dbVars
    BY <1>2 DEF ReadQueued, SendStop, Confirm, ReceiveStop, ReclaimSelect, AgentFinish
  <2>2. cancelling'[f] = cancelling[f] \/ cancelling[f] # "done"
    BY <1>2 DEF ReadQueued, SendStop, Confirm, ReceiveStop, ReclaimSelect, AgentFinish,
       TypeOK, TasksTypeOK
  <2>3. scan'[f].at = "write" => scan[f].at = "write"
    BY <1>2 DEF ReadQueued, SendStop, Confirm, ReceiveStop, ReclaimSelect, AgentFinish,
       netVars, TypeOK, AgentsTypeOK
  <2> QED BY <1>d, <2>1, <2>2, <2>3, RowsMoveIsQueueMove
<1>3. CASE StopQueued(e) \/ CloseQueueRow(e)
  <2>1. cancelling[e] # "done" /\ UNCHANGED <<scan, retry>>
    BY <1>3 DEF StopQueued, CloseQueueRow, netVars
  <2>2. \A g \in Execs \ {e} : /\ queue'[g] = queue[g] /\ status'[g] = status[g]
                               /\ cancelling'[g] = cancelling[g]
    BY <1>3 DEF StopQueued, CloseQueueRow, rowVars, TypeOK, RowsTypeOK, TasksTypeOK
  <2>3. \/ status'[e] = "cancelled"
        \/ status[e] # "queued" /\ status'[e] = status[e]
        \/ cancelling'[e] = "done" /\ status'[e] = status[e]
    BY <1>3 DEF StopQueued, CloseQueueRow, rowVars, TypeOK, RowsTypeOK, TasksTypeOK
  <2> QED BY <2>1, <2>2, <2>3 DEF QueueMove
<1>4. CASE StopRunning(e) \/ RequestTimeoutStop(e) \/ ServerResult(e)
  <2>1. /\ UNCHANGED queueVars /\ UNCHANGED <<cancelling, scan>>
        /\ \E u : status' = [status EXCEPT ![e] = u] /\ u \notin {"queued", "running"}
    <3>1. CASE StopRunning(e) \/ RequestTimeoutStop(e)
      BY <3>1 DEF StopRunning, StopRow, RequestTimeoutStop, ScanOnly, netVars
    <3>2. CASE ServerResult(e)
      <4> DEFINE verdict(c) ==
            IF status[e] = "stopping" /\ reason[e] = "timeout" THEN "error"
            ELSE IF status[e] = "stopping" /\ reason[e] = "user_stop" THEN "stopped"
            ELSE MergeTerminalStatus(result[e].status, WorstOf(c))
      <4>1. PICK c \in ChildSets : status' = [status EXCEPT ![e] = verdict(c)]
        BY <3>2 DEF ServerResult
      <4>2. MergeTerminalStatus(result[e].status, WorstOf(c)) \in TerminalStates
        BY ServerMergeIsTerminal
      <4>3. verdict(c) \notin {"queued", "running"}
        BY <4>2, <1>v
      <4>4. UNCHANGED queueVars /\ UNCHANGED <<cancelling, scan>>
        BY <3>2 DEF ServerResult, netVars
      <4> HIDE DEF verdict
      <4> QED BY <4>1, <4>3, <4>4
    <3> QED BY <1>4, <3>1, <3>2
  <2>2. RowsMove(e)
    BY <2>1 DEF RowsMove, queueVars, TypeOK, RowsTypeOK
  <2> QED BY <2>1, <2>2, RowsMoveIsQueueMove
<1>5. CASE ReclaimRunning(e)
  <2>1. /\ cancelling' = cancelling /\ scan' = [scan EXCEPT ![e] = NotScanned]
        /\ status[e] = "running" /\ scan \in [Execs -> [at : {"no", "row", "write"},
                                                        by : Workers \cup {NoWorker}]]
    BY <1>5 DEF ReclaimRunning, ReclaimTo, TypeOK, AgentsTypeOK
  <2>2. scan'[f].at = "write" => scan[f].at = "write" /\ f # e
    BY <2>1 DEF NotScanned
  <2>3. CASE UNCHANGED dbVars \/ MarkTerminal(e, "error")
    BY <1>d, <1>m, <1>v, <2>1, <2>2, <2>3, RowsMoveIsQueueMove
  <2>4. CASE Restore(e) /\ retry' = [retry EXCEPT ![e] = @ + 1]
    <3>1. /\ status' = [status EXCEPT ![e] = "queued"]
          /\ queue' = [queue EXCEPT ![e] = "pending"]
      BY <2>4 DEF Restore
    <3>2. f # e => retry'[f] = retry[f] /\ status'[f] = status[f] /\ queue'[f] = queue[f]
      BY <2>4, <3>1 DEF TypeOK, RowsTypeOK
    <3>3. status'[e] = "queued" /\ queue'[e] = "pending"
      BY <3>1 DEF TypeOK, RowsTypeOK
    <3> QED BY <2>1, <2>2, <3>2, <3>3 DEF QueueMove
  <2> QED BY <1>5, <2>3, <2>4 DEF ReclaimRunning
<1>6. CASE ReclaimRow(e)
  <2>1. /\ cancelling' = cancelling /\ status[e] # "running"
        /\ scan \in [Execs -> [at : {"no", "row", "write"}, by : Workers \cup {NoWorker}]]
    BY <1>6 DEF ReclaimRow, ReclaimTo, TypeOK, AgentsTypeOK
  <2>2. CASE retry[e] >= 2 /\ status[e] = "queued"
    <3>1. MarkTerminal(e, "error") /\ scan' = [scan EXCEPT ![e] = NotScanned]
      BY <1>6, <2>2 DEF ReclaimRow, ReclaimTo
    <3>2. scan'[f].at = "write" => scan[f].at = "write"
      BY <2>1, <3>1 DEF NotScanned
    <3> QED BY <1>m, <1>v, <2>1, <3>1, <3>2, RowsMoveIsQueueMove
  <2>3. CASE ~(retry[e] >= 2 /\ status[e] = "queued")
    <3>1. UNCHANGED dbVars /\ scan' = [scan EXCEPT ![e] = [scan[e] EXCEPT !.at = "write"]]
      BY <1>6, <2>3 DEF ReclaimRow, ReclaimTo
    <3>2. UNCHANGED <<status, queue, retry>>
      BY <3>1 DEF dbVars, rowVars, queueVars
    <3>3. f # e => scan'[f] = scan[f]
      BY <2>1, <3>1
    <3>4. retry[e] < 2 \/ status[e] \notin {"queued", "running"}
      BY <2>1, <2>3 DEF TypeOK, RowsTypeOK
    <3> QED BY <2>1, <3>2, <3>3, <3>4 DEF QueueMove
  <2> QED BY <2>2, <2>3
<1>7. CASE ReclaimWrite(e)
  <2>1. /\ cancelling' = cancelling /\ status' = status /\ scan[e].at = "write"
        /\ scan' = [scan EXCEPT ![e] = NotScanned]
        /\ scan \in [Execs -> [at : {"no", "row", "write"}, by : Workers \cup {NoWorker}]]
    BY <1>7 DEF ReclaimWrite, ReclaimTo, rowVars, TypeOK, AgentsTypeOK
  <2>2. scan'[f].at = "write" => scan[f].at = "write" /\ f # e
    BY <2>1 DEF NotScanned
  <2>3. f # e => queue'[f] = queue[f] /\ retry'[f] = retry[f]
    BY <1>7 DEF ReclaimWrite, TypeOK, RowsTypeOK
  <2>4. retry[e] >= 2 \/ queue'[e] = "pending"
    BY <1>7 DEF ReclaimWrite, TypeOK, RowsTypeOK
  <2> QED BY <2>1, <2>2, <2>3, <2>4 DEF QueueMove
<1> QED BY <1>1, <1>2, <1>3, <1>4, <1>5, <1>6, <1>7 DEF RowStep, AgentStep

\* And everything that can happen.
LEMMA NextQueue ==
  ASSUME TypeOK, RowsInv, Next, NEW f \in Execs
  PROVE  QueueMove(f)
<1>0. \/ UNCHANGED <<status, queueVars, cancelling, scan>>
      \/ /\ UNCHANGED <<queueVars, cancelling, scan>>
         /\ \A g \in Execs : status'[g] = status[g] \/ status'[g] \notin {"queued", "running"}
      => QueueMove(f)
  BY DEF QueueMove, queueVars
<1>1. ASSUME NEW w \in Workers, NEW e \in Execs, Claim(w, e) PROVE QueueMove(f)
  <2>1. /\ status' = [status EXCEPT ![e] = "running"] /\ status[e] = "queued"
        /\ queue' = [queue EXCEPT ![e] = "claimed"] /\ UNCHANGED <<retry, cancelling, scan>>
    BY <1>1 DEF Claim, Runnable, Waiting, netVars
  <2> QED BY <2>1 DEF QueueMove, TypeOK, RowsTypeOK
<1>2. ASSUME NEW d \in Devices, ForceRelease(d) \/ WriteSnapshot(d) PROVE QueueMove(f)
  <2>1. CASE WriteSnapshot(d)
    BY <1>0, <2>1 DEF WriteSnapshot, rowVars
  <2>2. CASE ForceRelease(d)
    <3>1. UNCHANGED <<queueVars, cancelling, scan>>
      BY <2>2 DEF ForceRelease, StopRow, netVars
    <3>2. status' = status \/ status' = [status EXCEPT ![lock[d]] = "stopping"]
      BY <2>2 DEF ForceRelease, StopRow, rowVars
    <3> QED BY <1>0, <3>1, <3>2 DEF TypeOK, RowsTypeOK
  <2> QED BY <1>2, <2>1, <2>2
<1>3. ASSUME NEW d \in Devices, NEW s \in {"idle", "offline"},
             DeviceList(d, s) \/ ReadSnapshot(d, s)
      PROVE  QueueMove(f)
  BY <1>0, <1>3 DEF DeviceList, ReadSnapshot, rowVars, dbVars, netVars
<1>4. ASSUME NEW a \in Agents, HeartbeatScan(a) PROVE QueueMove(f)
  <2> DEFINE ends == {e \in Lost(a) : ~finalized[e]}
  <2>1. /\ UNCHANGED <<retry, cancelling, scan>>
        /\ queue' = [e \in Execs |-> IF e \in ends THEN "done" ELSE queue[e]]
        /\ \A e \in Execs \ ends : status'[e] = status[e]
    BY <1>4 DEF HeartbeatScan, ScanOnly, netVars
  <2>2. \A e \in ends : status'[e] \in TerminalStates
    BY <1>4, LostIsEnded
  <2> HIDE DEF ends
  <2> QED BY <2>1, <2>2 DEF QueueMove, TerminalStates
<1>5. ASSUME NEW a \in Agents,
             AgentOnline(a) \/ AgentOffline(a) \/ AgentCrash(a) \/ DeleteAgent(a)
      PROVE  QueueMove(f)
  BY <1>0, <1>5 DEF AgentOnline, AgentOffline, AgentCrash, DeleteAgent, rowVars, dbVars, netVars
<1>6. ASSUME NEW m \in starts, ReceiveStart(m) \/ LoseStart(m) PROVE QueueMove(f)
  BY <1>0, <1>6 DEF ReceiveStart, LoseStart, rowVars, dbVars
<1> QED BY <1>1, <1>2, <1>3, <1>4, <1>5, <1>6, TaskQueue, RowQueue DEF Next

\* A queued execution waits with its row open, whatever reclaims, restores
\* and retries did to the row, unless a cancellation has closed it.
THEOREM QueuedCanBeClaimed == Spec => []QueuedIsClaimable
<1>1. Init => QueueInv
  BY DEF Init, QueueInv, QueuedIsClaimable, NotScanned
<1>2. TypeOK /\ RowsInv /\ QueueInv /\ [Next]_vars => QueueInv'
  <2> SUFFICES ASSUME TypeOK, RowsInv, QueueInv, [Next]_vars PROVE QueueInv'
    OBVIOUS
  <2>1. CASE Next
    <3>1. \A f \in Execs : QueueMove(f)
      BY <2>1, NextQueue
    <3>2. \A f \in Execs : retry[f] \in Nat /\ retry'[f] \in Nat
      BY NextType DEF TypeOK, RowsTypeOK
    <3> QED BY <3>1, <3>2 DEF QueueInv, QueuedIsClaimable, QueueMove
  <2>2. CASE UNCHANGED vars
    BY <2>2 DEF QueueInv, QueuedIsClaimable, vars, dbVars, rowVars, queueVars, netVars
  <2> QED BY <2>1, <2>2
<1>3. QueueInv => QueuedIsClaimable
  BY DEF QueueInv
<1> QED BY <1>1, <1>2, <1>3, RowsInvariant, PTL DEF Spec

-----------------------------------------------------------------------------
(* The rows implement the promise of ExecutionSpec.                         *)

phases == [e \in Execs |-> Phase(e)]

\* What the phase of an execution says of its row.
LEMMA PhaseMeaning ==
  ASSUME TypeOK, RowsInv, NEW e \in Execs
  PROVE  /\ phases[e] = "waiting" <=> status[e] = "queued"
         /\ phases[e] = "active"  <=> Active(e)
         /\ phases[e] = "ended"   <=> Terminal(e) /\ ~finalized[e]
         /\ phases[e] = "settled" <=> finalized[e]
BY DEF phases, Phase, RowsInv, Active, Terminal, TerminalStates, TypeOK, RowsTypeOK

\* An execution whose row does not change keeps its phase.
LEMMA PhaseKept ==
  ASSUME NEW e \in Execs, status'[e] = status[e], finalized'[e] = finalized[e]
  PROVE  phases'[e] = phases[e]
BY DEF phases, Phase, Active

\* A settlement is a step that the promise allows: the device of the settled
\* execution, and no other, is given back.
LEMMA SettlePromise ==
  ASSUME TypeOK, RowsInv, NEW e \in Execs, NEW v \in TerminalStates, MarkTerminal(e, v)
  PROVE  Promise!Next \/ UNCHANGED <<phases, lock>>
<1>1. CASE finalized[e]
  <2>1. UNCHANGED <<status, finalized, lock>>
    BY <1>1 DEF MarkTerminal, dbVars, rowVars, devVars
  <2> QED BY <2>1 DEF phases, Phase, Active
<1>2. CASE ~finalized[e]
  <2>1. /\ \A f \in Execs \ {e} : status'[f] = status[f] /\ finalized'[f] = finalized[f]
        /\ finalized'[e]
    BY <1>2 DEF MarkTerminal, TypeOK, RowsTypeOK
  <2>2. lock' = [d \in Devices |-> IF lock[d] = e THEN NoExec ELSE lock[d]]
    BY <1>2 DEF MarkTerminal, devVars, RowsInv, LockIsOwned, Dev, TypeOK, RowsTypeOK, NoExec
  <2>3. phases[e] # "settled" /\ phases'[e] = "settled"
    BY <1>2, <2>1 DEF phases, Phase, Active
  <2>4. phases' = [f \in Execs |-> IF f \in {e} THEN "settled" ELSE phases[f]]
    BY <2>1, <2>3, PhaseKept DEF phases
  <2>5. Promise!Settle({e}, {})
    BY <2>2, <2>3, <2>4 DEF Promise!Settle, phases, Promise!NoExec, NoExec
  <2> QED BY <2>5 DEF Promise!Next
<1> QED BY <1>1, <1>2

\* A claim takes the device, a restore gives it back.
LEMMA TakePromise ==
  ASSUME TypeOK, RowsInv, NEW e \in Execs,
         (\E w \in Workers : Claim(w, e)) \/ Requeued(e)
  PROVE  Promise!Next
<1>1. \A f \in Execs \ {e} : phases'[f] = phases[f]
  <2>1. \A f \in Execs \ {e} : status'[f] = status[f] /\ finalized'[f] = finalized[f]
    BY DEF Claim, Requeued, Restore, TypeOK, RowsTypeOK
  <2> QED BY <2>1, PhaseKept
<1>2. CASE \E w \in Workers : Claim(w, e)
  <2>1. /\ status[e] = "queued" /\ lock[Dev(e)] = NoExec /\ lock' = [lock EXCEPT ![Dev(e)] = e]
        /\ status'[e] = "running" /\ finalized' = finalized
    BY <1>2 DEF Claim, Runnable, Waiting, TypeOK, RowsTypeOK
  <2>2. phases[e] = "waiting" /\ phases'[e] = "active"
    BY <2>1, PhaseMeaning DEF phases, Phase, Active, RowsInv, Terminal, TerminalStates
  <2>3. phases' = [phases EXCEPT ![e] = "active"]
    BY <1>1, <2>2 DEF phases
  <2>4. Promise!Take(e)
    BY <2>1, <2>2, <2>3 DEF Promise!Take, phases, Promise!NoExec, NoExec, Dev
  <2> QED BY <2>4 DEF Promise!Next
<1>3. CASE Requeued(e)
  <2>1. /\ Active(e) /\ lock[Dev(e)] = e /\ status'[e] = "queued" /\ ~finalized'[e]
        /\ \A d \in Devices : lock[d] = e => d = Dev(e)
    BY <1>3 DEF Requeued, Restore, Active, RowsInv, ActiveHoldsDevice, LockIsOwned, Dev,
       TypeOK, RowsTypeOK, NoExec
  <2>2. phases[e] = "active" /\ phases'[e] = "waiting"
    BY <2>1, PhaseMeaning DEF phases, Phase
  <2>3. phases' = [phases EXCEPT ![e] = "waiting"]
    BY <1>1, <2>2 DEF phases
  <2>4. lock' = [lock EXCEPT ![Dev(e)] = NoExec]
    BY <1>3, <2>1 DEF Requeued, Restore, TypeOK, RowsTypeOK, NoExec, Dev
  <2>5. Promise!GiveBack(e)
    BY <2>1, <2>2, <2>3, <2>4 DEF Promise!GiveBack, phases, Promise!NoExec, NoExec, Dev
  <2> QED BY <2>5 DEF Promise!Next
<1> QED BY <1>2, <1>3

\* A stop changes no phase, a verdict ends, a cancellation settles.
LEMMA MovePromise ==
  ASSUME TypeOK, RowsInv, NEW e \in Execs, Stopping(e) \/ Judged(e) \/ Cancelled(e)
  PROVE  Promise!Next \/ UNCHANGED <<phases, lock>>
<1>1. \A f \in Execs \ {e} : phases'[f] = phases[f]
  <2>1. \A f \in Execs \ {e} : status'[f] = status[f] /\ finalized'[f] = finalized[f]
    BY DEF Stopping, Judged, Cancelled, TypeOK, RowsTypeOK
  <2> QED BY <2>1, PhaseKept
<1>2. CASE Stopping(e)
  <2>1. phases'[e] = phases[e] /\ lock' = lock
    BY <1>2 DEF Stopping, phases, Phase, Active, TypeOK, RowsTypeOK
  <2> QED BY <1>1, <2>1 DEF phases
<1>3. CASE Judged(e)
  <2>1. phases[e] = "active" /\ phases'[e] = "ended" /\ lock' = lock
    BY <1>3, PhaseMeaning DEF Judged, phases, Phase, Active, TypeOK, RowsTypeOK, RowsInv,
       Terminal, TerminalStates
  <2>2. phases' = [phases EXCEPT ![e] = "ended"]
    BY <1>1, <2>1 DEF phases
  <2>3. Promise!End(e)
    BY <2>1, <2>2 DEF Promise!End, phases
  <2> QED BY <2>3 DEF Promise!Next
<1>4. CASE Cancelled(e)
  <2>1. phases[e] = "waiting" /\ phases'[e] = "settled" /\ lock' = lock
    BY <1>4, PhaseMeaning DEF Cancelled, phases, Phase, TypeOK, RowsTypeOK
  <2>2. phases' = [f \in Execs |-> IF f \in {e} THEN "settled" ELSE phases[f]]
    BY <1>1, <2>1 DEF phases
  <2>3. \A d \in Devices : lock[d] # e
    BY <1>4 DEF Cancelled, RowsInv, LockIsOwned, NoExec
  <2>4. lock' = [d \in Devices |-> IF lock[d] \in {e} \/ d \in {} THEN NoExec ELSE lock[d]]
    BY <2>1, <2>3 DEF TypeOK, RowsTypeOK
  <2>5. Promise!Settle({e}, {})
    BY <2>1, <2>2, <2>4 DEF Promise!Settle, phases, Promise!NoExec, NoExec
  <2> QED BY <2>5 DEF Promise!Next
<1> QED BY <1>2, <1>3, <1>4

\* The heartbeat scan settles what it ends, and frees besides only devices
\* whose holder has its verdict.
LEMMA HeartbeatPromise ==
  ASSUME TypeOK, RowsInv, NEW a \in Agents, HeartbeatScan(a)
  PROVE  Promise!Next
<1> DEFINE ends == {e \in Lost(a) : ~finalized[e]}
           late == {d \in Freed(a) : lock[d] # NoExec /\ Terminal(lock[d])}
<1>1. /\ \A e \in Execs \ ends : status'[e] = status[e]
      /\ \A e \in Execs : finalized'[e] = (finalized[e] \/ e \in ends)
      /\ lock' = [d \in Devices |-> IF d \in Freed(a) THEN NoExec ELSE lock[d]]
  BY DEF HeartbeatScan
<1>2. /\ \A e \in ends : phases[e] = "active" /\ phases'[e] = "settled"
      /\ ends \subseteq Execs
  BY <1>1, PhaseMeaning DEF phases, Phase, Lost, Active, RowsInv
<1>3. phases' = [e \in Execs |-> IF e \in ends THEN "settled" ELSE phases[e]]
  <2>1. \A e \in Execs \ ends : phases'[e] = phases[e]
    <3> TAKE e \in Execs \ ends
    <3>1. status'[e] = status[e] /\ finalized'[e] = finalized[e]
      BY <1>1 DEF TypeOK, RowsTypeOK
    <3> QED BY <3>1, PhaseKept
  <2> HIDE DEF ends
  <2> QED BY <1>2, <2>1 DEF phases
<1>4. \A d \in late : lock[d] \in Execs /\ phases[lock[d]] = "ended"
  <2> TAKE d \in late
  <2>1. d \in Devices /\ lock[d] # NoExec /\ Terminal(lock[d])
    BY DEF Freed
  <2>2. lock[d] \in Execs /\ ~finalized[lock[d]]
    BY <2>1 DEF RowsInv, LockIsOwned, TypeOK, RowsTypeOK
  <2> QED BY <2>1, <2>2, PhaseMeaning
<1>5. \A d \in Devices :
        lock[d] # NoExec => (d \in Freed(a) <=> lock[d] \in ends \/ d \in late)
  <2> SUFFICES ASSUME NEW d \in Devices, lock[d] # NoExec
               PROVE  d \in Freed(a) <=> lock[d] \in ends \/ d \in late
    OBVIOUS
  <2>1. /\ lock[d] \in Execs /\ Dev(lock[d]) = d /\ ~finalized[lock[d]]
        /\ Active(lock[d]) \/ Terminal(lock[d])
    BY DEF RowsInv, LockIsOwned, TypeOK, RowsTypeOK, Active, Terminal
  <2> QED BY <2>1 DEF Freed, Lost, InGrace, Active, Terminal, TerminalStates
<1>6. lock' = [d \in Devices |-> IF lock[d] \in ends \/ d \in late THEN NoExec ELSE lock[d]]
  <2>1. \A d \in Devices : lock[d] = NoExec => d \notin late /\ lock[d] \notin ends
    BY <1>2 DEF NoExec
  <2> HIDE DEF ends, late
  <2> QED BY <1>1, <1>5, <2>1
<1>7. ends \in SUBSET Execs /\ late \in SUBSET Devices
  BY <1>2 DEF Freed
<1>8. Promise!Settle(ends, late)
  <2> HIDE DEF ends, late
  <2> QED BY <1>2, <1>3, <1>4, <1>6, <1>7 DEF Promise!Settle, phases, Promise!NoExec, NoExec
<1> HIDE DEF ends, late
<1> QED BY <1>7, <1>8 DEF Promise!Next

\* Clearing the devices of a deleted agent frees only devices whose holder has
\* its verdict.
LEMMA ClearPromise ==
  ASSUME TypeOK, RowsInv, Cleared
  PROVE  Promise!Next
<1> DEFINE late == {d \in Devices : lock'[d] # lock[d]}
<1>1. phases' = [e \in Execs |-> IF e \in {} THEN "settled" ELSE phases[e]]
  BY DEF Cleared, phases, Phase, Active
<1>2. \A d \in late : lock[d] \in Execs /\ phases[lock[d]] = "ended"
  <2> TAKE d \in late
  <2>1. lock[d] # NoExec /\ \A e \in Execs : Dev(e) = d => Terminal(e)
    BY DEF Cleared
  <2>2. lock[d] \in Execs /\ Terminal(lock[d]) /\ ~finalized[lock[d]]
    BY <2>1 DEF RowsInv, LockIsOwned, TypeOK, RowsTypeOK
  <2> QED BY <2>2, PhaseMeaning
<1>3. lock' = [d \in Devices |-> IF lock[d] \in {} \/ d \in late THEN NoExec ELSE lock[d]]
  BY DEF Cleared
<1>4. Promise!Settle({}, late)
  <2> HIDE DEF late
  <2> QED BY <1>1, <1>2, <1>3 DEF Promise!Settle, phases, Promise!NoExec, NoExec
<1>5. late \in SUBSET Devices
  OBVIOUS
<1> HIDE DEF late
<1> QED BY <1>4, <1>5 DEF Promise!Next

\* Every step of the rows, tasks, scans and agents is a step of the promised
\* life of an execution: waiting, active on its own device, back to waiting
\* without it, ended, settled once and for all; or changes nothing of it.
THEOREM RowsImplementPromise == Spec => ImplementsPromise
<1>1. Init => Promise!Init
  BY DEF Init, Promise!Init, Phase, Active, Promise!NoExec, NoExec
<1>2. TypeOK /\ RowsInv /\ [Next]_vars => [Promise!Next]_<<phases, lock>>
  <2> SUFFICES ASSUME TypeOK, RowsInv, [Next]_vars
               PROVE  Promise!Next \/ UNCHANGED <<phases, lock>>
    OBVIOUS
  <2>1. ASSUME Idle PROVE UNCHANGED <<phases, lock>>
    BY <2>1 DEF Idle, phases, Phase, Active
  <2>2. CASE UNCHANGED vars
    BY <2>1, <2>2, KeepRowsIsIdle DEF vars
  <2>3. CASE Next
    <3>1. LifeStep
      BY <2>3, NextLife
    <3> QED BY <3>1, <2>1, SettlePromise, TakePromise, MovePromise, HeartbeatPromise,
               ClearPromise DEF LifeStep, Settles
  <2> QED BY <2>2, <2>3
<1> QED BY <1>1, <1>2, RowsInvariant, PTL DEF Spec, ImplementsPromise, Promise!Spec, phases
=============================================================================
