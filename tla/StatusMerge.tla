----------------------------- MODULE StatusMerge -----------------------------
(***************************************************************************)
(* The pure rules that merge the verdicts of an execution and the statuses *)
(* of the rows below it (backend/app/services/execution_summary.py, the    *)
(* leaf and verdict rules of repositories/ws_handlers.py, and the rule of  *)
(* repositories/worker.py for children nobody finished).                   *)
(***************************************************************************)

\* TERMINAL_STATES of the worker: what an execution may end in.
TerminalStates == {"passed", "failed", "error", "stopped", "cancelled"}

\* _RUNTIME_TERMINAL_STATUSES: what a suite, case, node or step may end in.
Ended == TerminalStates \cup {"skipped"}

\* _STORED_EXECUTION_TERMINAL_STATUSES: children that block a pass.
Blocking == {"error", "failed", "stopped"}

\* The statuses _STATUS_PRIORITY ranks, worst first.
Ranked == {"error", "failed", "stopped", "skipped", "passed"}

\* `cancelled` takes part in every comparison as `stopped`.
AsStopped(s) == IF s = "cancelled" THEN "stopped" ELSE s

\* aggregate_statuses: the worst ranked status present decides, a set of
\* passes is passed, nothing at all is skipped, anything else is an error.
AggregateStatuses(statuses) ==
  LET remaining == {AsStopped(s) : s \in statuses}
  IN  IF "error" \in remaining THEN "error"
      ELSE IF "failed" \in remaining THEN "failed"
      ELSE IF "stopped" \in remaining THEN "stopped"
      ELSE IF "skipped" \in remaining THEN "skipped"
      ELSE IF remaining = {"passed"} THEN "passed"
      ELSE IF remaining = {} THEN "skipped" ELSE "error"

\* merge_execution_status: the agent's verdict against the stored children.
MergeExecutionStatus(agent, stored) ==
  LET merged == AggregateStatuses({AsStopped(agent)} \cup (stored \cap Blocking))
  IN  IF agent = "cancelled" /\ merged = "stopped" THEN "cancelled" ELSE merged

\* _merge_terminal_status: the agent's verdict against the worst stored one,
\* "none" when no stored child blocks.
MergeTerminalStatus(agent, stored) ==
  LET known == IF AsStopped(agent) \in {"passed", "failed", "error", "stopped"}
                 THEN AsStopped(agent) ELSE "error"
      pair  == {known, AsStopped(stored)} \cap Blocking
  IN  IF pair = {} THEN known ELSE AggregateStatuses(pair)

\* merge_runtime_status: a parent row; running outlives a passing child.
MergeRuntimeStatus(current, incoming) ==
  LET values == {current, incoming}
  IN  IF current = "running" /\ incoming \in {"passed", "skipped"} THEN "running"
      ELSE IF values \cap Ended # {} THEN AggregateStatuses(values \cap Ended)
      ELSE IF "running" \in values THEN "running"
      ELSE IF "pending" \in values THEN "pending" ELSE "error"

\* Mutant: the last status wins.
MergeStepStatusLast(current, incoming) == incoming

\* _merge_step_status: a leaf takes an end status at once and never gives it up
\* for a milder one.
MergeStepStatus(current, incoming) ==
  IF incoming \notin Ended THEN IF current \in Ended THEN current ELSE incoming
  ELSE IF current \notin Ended THEN incoming
  ELSE AggregateStatuses({current, incoming})

\* merge_case_status: how a case left open is resolved when the execution ends,
\* from the statuses of its children.
MergeCaseStatus(status, children, terminal) ==
  IF status \notin {"pending", "running"} THEN status
  ELSE IF "error" \in children THEN "error"
  ELSE IF children \cap {"fail", "failed"} # {} THEN "failed"
  ELSE IF terminal = "passed" THEN "passed"
  ELSE IF status = "pending" /\ children \subseteq {"pending"} THEN "skipped"
  ELSE IF terminal \in {"stopped", "cancelled"} THEN "stopped" ELSE "error"

\* Mutant: a child that runs is left as it is.
NormalizeStuckStatusPending(child, terminal) ==
  IF child = "pending" THEN "skipped" ELSE child

\* _normalize_stuck_status: a child nobody finished.
NormalizeStuckStatus(child, terminal) ==
  IF child = "pending" THEN "skipped"
  ELSE IF child # "running" THEN child
  ELSE IF terminal \in {"stopped", "cancelled"} THEN "stopped" ELSE "error"
=============================================================================
