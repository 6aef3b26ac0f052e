----------------------------- MODULE ResultRows -----------------------------
(***************************************************************************)
(* The rows under one execution - suites, cases, and the nodes, legacy     *)
(* steps and step assertions that are their leaves - and the handlers that *)
(* write an agent's messages into them (backend/app/repositories/          *)
(* ws_handlers.py), down to the settlement that closes what is left open   *)
(* (_mark_terminal and its helpers in repositories/worker.py).             *)
(*                                                                         *)
(* A handler is one transaction that locks the execution's row, so it is   *)
(* one step; handle_suite_status alone reads its suite before it asks for  *)
(* the lock, and is two.  Messages come in any order and any number of     *)
(* times: a resent, overtaken or late message is just one more call.       *)
(***************************************************************************)
EXTENDS StatusMerge, Naturals, FiniteSets

CONSTANTS Suites, Cases,    \* execution_suites, execution_cases
          Nodes, Steps,     \* execution_nodes; execution_steps, the V2 form
          SuiteOf,          \* the suite of a case
          ParentOf,         \* the case or suite a leaf belongs to
          Asserted,         \* steps with an execution_assertions row
          Conns,            \* connections that deliver messages
          Reports,          \* the end statuses they report
          MaxReads          \* bound: suite_status handlers in the middle at once

Leaves == Nodes \cup Steps
Parents == Suites \cup Cases
Rows == Parents \cup Leaves

ASSUME LayoutAssumption ==
  /\ Suites \cap Cases = {} /\ Parents \cap Leaves = {} /\ Nodes \cap Steps = {}
  /\ SuiteOf \in [Cases -> Suites]
  /\ ParentOf \in [Leaves -> Parents]
  /\ Asserted \subseteq {s \in Steps : ParentOf[s] \in Cases}
  /\ Reports \subseteq Ended /\ MaxReads \in Nat

\* What schemas/ws.py lets an agent report of a leaf, of a parent, in the end.
LeafResults   == Reports \ {"cancelled"}
ParentReports == LeafResults \cup {"running"}
Verdicts      == Reports \ {"skipped"}

VARIABLES exec,     \* executions.status
          reason,   \* executions.termination_reason
          final,    \* executions.finalized_at is set
          row,      \* the status of each suite, case, node and step
          asrt,     \* the status of each assertion row
          read      \* the suite_status a connection is in the middle of, if any:
                    \* the suite, the status reported and the status read

vars == <<exec, reason, final, row, asrt, read>>

RowStatus == (Ended \ {"cancelled"}) \cup {"pending", "running"}

Init ==
  /\ exec = "running" /\ reason = "none" /\ final = FALSE
  /\ row  = [r \in Rows |-> "pending"]
  /\ asrt = [s \in Asserted |-> "pending"]
  /\ read = [k \in Conns |-> {}]

\* _bound_execution: only a running or stopping execution takes results (the
\* device and session checks are those of ExecutionLifecycle).
Accepting == exec \in {"running", "stopping"}

\* A connection hands over one message after the other.
Receives(k) == Accepting /\ read[k] = {}

Above(l) == {ParentOf[l]} \cup {SuiteOf[c] : c \in {ParentOf[l]} \cap Cases}
-----------------------------------------------------------------------------
\* handle_step_result.
StepResult(s, st) ==
  LET new == MergeStepStatus(row[s], st) IN
  /\ row' = [row EXCEPT ![s] = new,
                        ![ParentOf[s]] = IF new = "failed" THEN "failed"
                                         ELSE IF @ \in Ended THEN @ ELSE "running"]
  /\ UNCHANGED <<exec, reason, final, asrt, read>>

\* handle_node_started.
NodeStarted(n) ==
  /\ row' = [r \in Rows |->
               IF r = n \/ (r \in Above(n) /\ row[r] \notin Ended)
                 THEN MergeRuntimeStatus(row[r], "running") ELSE row[r]]
  /\ UNCHANGED <<exec, reason, final, asrt, read>>

\* handle_node_result: a suite that has ended is left alone, a case is not.
NodeResult(n, st) ==
  LET new  == MergeStepStatus(row[n], st)
      upward == IF new \in Blocking \cup {"skipped"} THEN new ELSE "running"
  IN
  /\ row' = [r \in Rows |->
               IF r = n THEN new
               ELSE IF r \in Above(n) /\ (r \in Cases \/ row[r] \notin Ended)
                 THEN MergeRuntimeStatus(row[r], upward) ELSE row[r]]
  /\ UNCHANGED <<exec, reason, final, asrt, read>>

\* _upsert_assertion: the row keeps a failure.
Upsert(s, st) == IF asrt[s] = "fail" THEN "fail" ELSE st

\* handle_assertion_result.
AssertionResult(s, st) ==
  /\ asrt' = [asrt EXCEPT ![s] = Upsert(s, st)]
  /\ row' = IF st = "pass" THEN row
            ELSE [row EXCEPT ![s] = "failed",
                             ![ParentOf[s]] = MergeRuntimeStatus(@, "failed")]
  /\ UNCHANGED <<exec, reason, final, read>>

\* How handle_case_status and handle_suite_status set a parent.
Reported(current, st) ==
  IF st = "running" THEN IF current \in Ended THEN current ELSE "running"
  ELSE IF current \in Ended THEN MergeRuntimeStatus(current, st) ELSE st

\* handle_case_status.
CaseStatus(c, st) ==
  /\ row' = [row EXCEPT ![c] = Reported(@, st)]
  /\ UNCHANGED <<exec, reason, final, asrt, read>>

\* handle_suite_status up to its wait for the lock: the suite is in the session.
ReadSuite(k, u, st) ==
  /\ read[k] = {} /\ Cardinality({c \in Conns : read[c] # {}}) < MaxReads
  /\ read' = [read EXCEPT ![k] = {[suite |-> u, status |-> st, seen |-> row[u]]}]
  /\ UNCHANGED <<exec, reason, final, row, asrt>>

\* The rest of handle_suite_status: the session writes what differs from what
\* it has read.
WriteSuite(k) ==
  /\ \E m \in read[k] :
       LET new == Reported(m.seen, m.status) IN
       row' = IF Accepting /\ new # m.seen THEN [row EXCEPT ![m.suite] = new] ELSE row
  /\ read' = [read EXCEPT ![k] = {}]
  /\ UNCHANGED <<exec, reason, final, asrt>>

\* Mutant: only suites and cases are asked.
StoredTerminalOfParents ==
  LET stored == {row[r] : r \in Parents} \cap Blocking
  IN  IF stored = {} THEN "none" ELSE AggregateStatuses(stored)

\* _stored_execution_terminal: suites, cases and the leaves of suites.
StoredTerminal ==
  LET stored == {row[r] : r \in Parents \cup {l \in Leaves : ParentOf[l] \in Suites}} \cap Blocking
  IN  IF stored = {} THEN "none" ELSE AggregateStatuses(stored)

\* _settle_execution_cases for one case.
SettledCase(status, verdict) ==
  IF status \notin {"pending", "running"} THEN status
  ELSE IF verdict = "passed" THEN "passed"
  ELSE IF status = "pending" THEN "skipped"
  ELSE IF verdict \in {"failed", "stopped"} THEN verdict ELSE "error"

\* handle_execution_result.
ExecutionResult(st) ==
  LET verdict == IF exec = "stopping"
                   THEN IF reason = "timeout" THEN "error" ELSE "stopped"
                   ELSE MergeTerminalStatus(st, StoredTerminal)
  IN
  /\ exec' = verdict
  /\ row' = [r \in Rows |-> IF r \in Cases THEN SettledCase(row[r], verdict) ELSE row[r]]
  /\ UNCHANGED <<reason, final, asrt, read>>

\* stop_running and request_timeout_stop.
RequestStop(why) ==
  /\ exec = "running"
  /\ exec' = "stopping" /\ reason' = why
  /\ UNCHANGED <<final, row, asrt, read>>
-----------------------------------------------------------------------------
\* The children _merge_cases_and_skip_pending judges a case by: its nodes, or
\* its steps and their assertions when it has no node that ever moved.
Judged(c) ==
  LET nodes == {n \in Nodes : ParentOf[n] = c}
      steps == {s \in Steps : ParentOf[s] = c}
  IN  IF nodes # {} /\ (steps = {} \/ \E n \in nodes : row[n] # "pending")
        THEN {row[n] : n \in nodes}
        ELSE {row[s] : s \in steps} \cup {asrt[s] : s \in steps \cap Asserted}

CaseEnd(c, st) == MergeCaseStatus(row[c], Judged(c), st)

\* Nodes are normalised; a step nobody ran is skipped, under a suite only while
\* the suite is open.
LeafEnd(l, st) ==
  IF l \in Nodes THEN NormalizeStuckStatus(row[l], st)
  ELSE IF row[l] = "pending"
          /\ (ParentOf[l] \in Suites => row[ParentOf[l]] \in {"pending", "running"})
    THEN "skipped" ELSE row[l]

\* _merge_suites_and_skip_pending for one suite.
SuiteEnd(u, st) ==
  LET nodes    == {n \in Nodes : ParentOf[n] = u}
      items    == IF nodes # {} THEN nodes ELSE {s \in Steps : ParentOf[s] = u}
      children == {NormalizeStuckStatus(row[l], st) : l \in items}
                    \cup {CaseEnd(c, st) : c \in {d \in Cases : SuiteOf[d] = u}}
      merged   == AggregateStatuses(children)
  IN  IF row[u] \notin {"pending", "running"} THEN row[u]
      ELSE IF merged = "skipped" /\ row[u] = "running" /\ st \in {"stopped", "cancelled"}
        THEN "stopped" ELSE merged

\* _mark_terminal for the rows and the verdict.
MarkTerminal(st) ==
  LET parents == [r \in Parents |-> IF r \in Cases THEN CaseEnd(r, st) ELSE SuiteEnd(r, st)] IN
  /\ final' = TRUE
  /\ row' = [r \in Rows |-> IF r \in Parents THEN parents[r] ELSE LeafEnd(r, st)]
  /\ asrt' = [s \in Asserted |-> IF asrt[s] = "pending" THEN "skipped" ELSE asrt[s]]
  /\ exec' = MergeExecutionStatus(st, {parents[r] : r \in Parents})
  /\ UNCHANGED <<reason, read>>

\* Whoever settles the execution (ExecutionLifecycle has the callers): with the
\* verdict that is there, as an error whatever there is, or as stopped once a
\* stop was asked for - also by a scan that read it before the verdict came.
Settle(st) ==
  /\ ~final
  /\ \/ st = "error"
     \/ st = exec /\ exec \in TerminalStates
     \/ st = "stopped" /\ reason # "none"
  /\ MarkTerminal(st)

Message(k) ==
  \/ /\ Receives(k)
     /\ \/ \E s \in Steps, st \in LeafResults : StepResult(s, st)
        \/ \E n \in Nodes : NodeStarted(n)
        \/ \E n \in Nodes, st \in LeafResults : NodeResult(n, st)
        \/ \E s \in Asserted, st \in {"pass", "fail"} : AssertionResult(s, st)
        \/ \E c \in Cases, st \in ParentReports : CaseStatus(c, st)
        \/ \E st \in Verdicts : ExecutionResult(st)
  \/ \E u \in Suites, st \in ParentReports : ReadSuite(k, u, st)
  \/ WriteSuite(k)

Next ==
  \/ \E k \in Conns : Message(k)
  \/ \E why \in {"user_stop", "timeout"} : RequestStop(why)
  \/ \E st \in TerminalStates : Settle(st)

Spec == Init /\ [][Next]_vars
-----------------------------------------------------------------------------
\* Every row has a status it may have, a half-done suite_status what it read.
TypeOK ==
  /\ exec \in {"running", "stopping"} \cup TerminalStates
  /\ reason \in {"none", "user_stop", "timeout"}
  /\ final \in BOOLEAN
  /\ final => exec \in TerminalStates
  /\ exec = "stopping" => reason # "none"
  /\ row \in [Rows -> RowStatus]
  /\ asrt \in [Asserted -> {"pending", "pass", "fail", "skipped"}]
  /\ read \in [Conns -> SUBSET [suite : Suites, status : ParentReports, seen : RowStatus]]

\* s is at least as bad as t in the order error > failed > stopped.
AtLeast(s, t) == t \in Blocking => AggregateStatuses({s, t}) = AsStopped(s)

\* A bad result stands: a leaf never takes a milder status than the worst it was
\* given, but for a step whose assertion failed, and a case that must block a
\* pass goes on blocking it - through repeated, overtaken and late messages and
\* the settlement (_merge_step_status, merge_runtime_status).
ResultsStand ==
  [][/\ \A l \in Leaves : AtLeast(row'[l], row[l]) \/ (l \in Asserted /\ row'[l] = "failed")
     /\ \A c \in Cases : row[c] \in Blocking => row'[c] \in Blocking
    ]_vars

\* Nothing an agent reported as failing is under an execution that becomes
\* passed: not a node, not a failed step or assertion, not a case or suite
\* (handle_execution_result, _mark_terminal).
NoFalsePass ==
  [][~final /\ exec' = "passed" =>
       /\ \A r \in Parents \cup Nodes : row[r] \notin Blocking
       /\ \A s \in Steps : row[s] # "failed"
       /\ \A s \in Asserted : asrt[s] # "fail"]_vars

\* A settled execution has only ended suites, cases and nodes, and its verdict is
\* at least as bad as each suite and case (_mark_terminal).
VerdictCoversRows ==
  final => /\ \A r \in Parents : row[r] \in Ended /\ AtLeast(exec, row[r])
           /\ \A n \in Nodes : row[n] \in Ended
=============================================================================
