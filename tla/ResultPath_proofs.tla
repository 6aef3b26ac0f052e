-------------------------- MODULE ResultPath_proofs --------------------------
(***************************************************************************)
(* Proofs about the rows under an execution, for any layout of suites,     *)
(* cases and leaves, any number of connections and messages, and about the *)
(* way of the results: whatever the runner's script, and however often the *)
(* connection breaks, the rows go through steps of ResultRows, and an      *)
(* execution nobody stopped ends no better than what the runner ran, and   *)
(* when nothing was lost its rows are what the runner saw.                 *)
(***************************************************************************)
EXTENDS ResultPath, SequenceLemmas

Open == {"pending", "running"}

\* merge_runtime_status keeps to the statuses of rows and never drops a child or
\* a parent that blocks a pass.
LEMMA RuntimeMerge ==
  ASSUME NEW cur \in RowStatus, NEW inc \in RowStatus
  PROVE  /\ MergeRuntimeStatus(cur, inc) \in RowStatus
         /\ cur \in Blocking \/ inc \in Blocking => MergeRuntimeStatus(cur, inc) \in Blocking
<1>1. CASE cur \in Open
  BY <1>1 DEF Open, MergeRuntimeStatus, RowStatus, Ended, TerminalStates, Blocking, AggregateStatuses, AsStopped
<1>2. CASE cur \notin Open
  BY <1>2 DEF Open, MergeRuntimeStatus, RowStatus, Ended, TerminalStates, Blocking, AggregateStatuses, AsStopped
<1> QED BY <1>1, <1>2

\* A message that something runs moves a row only as long as it is open.
LEMMA RunningMerge ==
  ASSUME NEW cur \in RowStatus
  PROVE  MergeRuntimeStatus(cur, "running") = IF cur \in Ended THEN cur ELSE "running"
<1>1. CASE cur \in Open
  BY <1>1 DEF Open, MergeRuntimeStatus, Ended, TerminalStates
<1>2. CASE cur \notin Open
  BY <1>2 DEF Open, MergeRuntimeStatus, RowStatus, Ended, TerminalStates, AggregateStatuses, AsStopped
<1> QED BY <1>1, <1>2

\* _merge_step_status ends a leaf and only ever worsens it.
LEMMA StepMerge ==
  ASSUME NEW cur \in RowStatus, NEW inc \in LeafResults
  PROVE  /\ MergeStepStatus(cur, inc) \in RowStatus
         /\ AtLeast(MergeStepStatus(cur, inc), cur)
         /\ cur \in Blocking => MergeStepStatus(cur, inc) \in Blocking
<1> inc \in Ended \ {"cancelled"} BY LayoutAssumption DEF LeafResults
<1>1. CASE cur \in Open
  BY <1>1 DEF Open, MergeStepStatus, RowStatus, Ended, TerminalStates, Blocking, AtLeast
<1>2. CASE cur \notin Open
  BY <1>2 DEF Open, MergeStepStatus, RowStatus, Ended, TerminalStates, Blocking, AggregateStatuses, AsStopped, AtLeast
<1> QED BY <1>1, <1>2

\* A report never takes a parent out of the statuses that block a pass.
LEMMA Report ==
  ASSUME NEW cur \in RowStatus, NEW st \in ParentReports
  PROVE  /\ Reported(cur, st) \in RowStatus
         /\ cur \in Blocking => Reported(cur, st) \in Blocking
<1> st \in RowStatus BY LayoutAssumption DEF ParentReports, LeafResults, RowStatus
<1> QED BY RuntimeMerge DEF Reported, RowStatus, Ended, TerminalStates, Blocking

\* An aggregate is a ranked status and covers each status that went into it.
LEMMA AggregateCovers ==
  ASSUME NEW S, NEW x \in S
  PROVE  AggregateStatuses(S) \in Ranked /\ AtLeast(AggregateStatuses(S), x)
<1> DEFINE R == {AsStopped(s) : s \in S}
<1>1. x \in Blocking => x \in R BY DEF AsStopped, Blocking
<1> QED BY <1>1 DEF AggregateStatuses, Ranked, AtLeast, AsStopped, Blocking

LEMMA AggregateRanked ==
  ASSUME NEW S PROVE AggregateStatuses(S) \in Ranked
BY DEF AggregateStatuses, Ranked

\* The settlement ends a case and leaves one that has ended alone.
LEMMA CaseMerge ==
  ASSUME NEW cur \in RowStatus, NEW children, NEW st \in TerminalStates
  PROVE  /\ MergeCaseStatus(cur, children, st) \in Ended \cap RowStatus
         /\ cur \notin Open => MergeCaseStatus(cur, children, st) = cur
BY DEF MergeCaseStatus, RowStatus, Ended, TerminalStates, Open

\* The same of a node and of a suite.
LEMMA Unstuck ==
  ASSUME NEW cur \in RowStatus, NEW st
  PROVE  /\ NormalizeStuckStatus(cur, st) \in Ended \cap RowStatus
         /\ cur \notin Open => NormalizeStuckStatus(cur, st) = cur
BY DEF NormalizeStuckStatus, RowStatus, Ended, TerminalStates, Open

LEMMA SuiteMerge ==
  ASSUME TypeOK, NEW u \in Suites, NEW st
  PROVE  /\ SuiteEnd(u, st) \in Ended \cap RowStatus
         /\ row[u] \notin Open => SuiteEnd(u, st) = row[u]
<1>1. row[u] \in RowStatus BY DEF TypeOK, Rows, Parents
<1> HIDE DEF Rows
<1> QED BY <1>1, AggregateRanked DEF SuiteEnd, Ranked, RowStatus, Ended, TerminalStates, Open

\* The verdict of a settlement covers the rows and passes only if it was to pass.
LEMMA VerdictMerge ==
  ASSUME NEW st \in TerminalStates, NEW stored
  PROVE  /\ MergeExecutionStatus(st, stored) \in TerminalStates
         /\ \A x \in stored : AtLeast(MergeExecutionStatus(st, stored), x)
         /\ MergeExecutionStatus(st, stored) = "passed" => st = "passed"
<1> DEFINE S == {AsStopped(st)} \cup (stored \cap Blocking)
           m == AggregateStatuses(S)
<1>1. m \in Ranked /\ (AsStopped(st) \in Blocking => AtLeast(m, AsStopped(st)))
  BY AggregateCovers
<1>2. \A x \in stored : x \in Blocking => AtLeast(m, x)
  BY AggregateCovers
<1>3. S \subseteq Blocking \cup {"passed"} /\ S # {}
  BY DEF TerminalStates, Blocking, AsStopped
<1>4. m \in Blocking \cup {"passed"} /\ (m = "passed" => S = {"passed"})
  BY <1>3 DEF AggregateStatuses, Blocking, AsStopped
<1>5. MergeExecutionStatus(st, stored) = IF st = "cancelled" /\ m = "stopped" THEN "cancelled" ELSE m
  BY DEF MergeExecutionStatus
<1> HIDE DEF m, S
<1>6. MergeExecutionStatus(st, stored) \in TerminalStates
  BY <1>4, <1>5 DEF TerminalStates, Blocking
<1>7. ASSUME NEW x \in stored PROVE AtLeast(MergeExecutionStatus(st, stored), x)
  BY <1>2, <1>4, <1>5 DEF AtLeast, AggregateStatuses, AsStopped, Blocking
<1>8. MergeExecutionStatus(st, stored) = "passed" => st = "passed"
  BY <1>4, <1>5 DEF S, AsStopped
<1> QED BY <1>6, <1>7, <1>8

\* The agent's verdict becomes one an execution may end in, and a pass only if
\* nothing stored blocks it.
LEMMA AgentVerdict ==
  ASSUME NEW st, NEW stored
  PROVE  /\ MergeTerminalStatus(st, stored) \in TerminalStates \ {"cancelled"}
         /\ MergeTerminalStatus(st, stored) = "passed" => AsStopped(stored) \notin Blocking
BY DEF MergeTerminalStatus, AggregateStatuses, AsStopped, Blocking, TerminalStates

LEMMA StoredBlocks ==
  ASSUME AsStopped(StoredTerminal) \notin Blocking
  PROVE  \A r \in Parents \cup {l \in Leaves : ParentOf[l] \in Suites} : row[r] \notin Blocking
<1> DEFINE stored == {row[r] : r \in Parents \cup {l \in Leaves : ParentOf[l] \in Suites}} \cap Blocking
<1>1. CASE stored = {} BY <1>1
<1>2. CASE stored # {}
  <2>1. StoredTerminal = AggregateStatuses(stored) BY <1>2 DEF StoredTerminal
  <2>2. AggregateStatuses(stored) \in Blocking
    BY <1>2 DEF AggregateStatuses, AsStopped, Blocking
  <2> QED BY <2>1, <2>2 DEF AsStopped, Blocking
<1> QED BY <1>1, <1>2

-----------------------------------------------------------------------------
LEMMA Layout ==
  /\ Rows = Parents \cup Leaves /\ Parents = Suites \cup Cases /\ Leaves = Nodes \cup Steps
  /\ \A l \in Leaves : ParentOf[l] \in Parents
  /\ \A c \in Cases : SuiteOf[c] \in Suites
  /\ \A s \in Asserted : s \in Steps /\ ParentOf[s] \in Cases
BY LayoutAssumption DEF Rows, Parents, Leaves

LEMMA ReportTypes == LeafResults \subseteq RowStatus /\ ParentReports \subseteq RowStatus
                     /\ RowStatus \subseteq Ended \cup Open /\ Blocking \subseteq RowStatus
BY LayoutAssumption DEF ParentReports, LeafResults, RowStatus, Ended, TerminalStates, Open, Blocking

\* Each handler and the settlement keep the types.
LEMMA TypeStep == TypeOK /\ [Next]_vars => TypeOK'
<1> SUFFICES ASSUME TypeOK, [Next]_vars PROVE TypeOK' OBVIOUS
<1> USE Layout, ReportTypes
<1>1. ASSUME NEW s \in Steps, NEW st \in LeafResults, StepResult(s, st) PROVE TypeOK'
  <2>1. MergeStepStatus(row[s], st) \in RowStatus BY StepMerge DEF TypeOK
  <2> QED BY <1>1, <2>1 DEF TypeOK, StepResult, RowStatus, Ended, TerminalStates
<1>2. ASSUME NEW n \in Nodes, NodeStarted(n) PROVE TypeOK'
  <2>1. \A r \in Rows : MergeRuntimeStatus(row[r], "running") \in RowStatus
    BY RuntimeMerge DEF TypeOK, RowStatus
  <2> QED BY <1>2, <2>1 DEF TypeOK, NodeStarted
<1>3. ASSUME NEW n \in Nodes, NEW st \in LeafResults, NodeResult(n, st) PROVE TypeOK'
  <2>1. MergeStepStatus(row[n], st) \in RowStatus BY StepMerge DEF TypeOK
  <2>2. \A r \in Rows, up \in RowStatus : MergeRuntimeStatus(row[r], up) \in RowStatus
    BY RuntimeMerge DEF TypeOK
  <2>3. "running" \in RowStatus BY DEF RowStatus
  <2> QED BY <1>3, <2>1, <2>2, <2>3 DEF TypeOK, NodeResult
<1>4. ASSUME NEW s \in Asserted, NEW st \in {"pass", "fail"}, AssertionResult(s, st) PROVE TypeOK'
  <2>1. MergeRuntimeStatus(row[ParentOf[s]], "failed") \in RowStatus
    BY RuntimeMerge DEF TypeOK, Blocking
  <2>2. "failed" \in RowStatus BY DEF Blocking
  <2> QED BY <1>4, <2>1, <2>2 DEF TypeOK, AssertionResult, Upsert
<1>5. ASSUME NEW c \in Cases, NEW st \in ParentReports, CaseStatus(c, st) PROVE TypeOK'
  <2>1. Reported(row[c], st) \in RowStatus BY Report DEF TypeOK
  <2> QED BY <1>5, <2>1 DEF TypeOK, CaseStatus
<1>6. ASSUME NEW st \in Verdicts, Accepting, ExecutionResult(st) PROVE TypeOK'
  <2>1. exec' \in TerminalStates
    BY <1>6, AgentVerdict DEF ExecutionResult, TerminalStates
  <2>2. \A r \in Rows, v \in TerminalStates : SettledCase(row[r], v) \in RowStatus
    BY DEF SettledCase, TypeOK, RowStatus, Ended, TerminalStates
  <2>3. row' \in [Rows -> RowStatus] BY <1>6, <2>1, <2>2 DEF ExecutionResult, TypeOK
  <2> QED BY <1>6, <2>1, <2>3 DEF ExecutionResult, TypeOK, TerminalStates
<1>7. ASSUME NEW k \in Conns, NEW u \in Suites, NEW st \in ParentReports, ReadSuite(k, u, st) PROVE TypeOK'
  BY <1>7 DEF ReadSuite, TypeOK
<1>8. ASSUME NEW k \in Conns, WriteSuite(k) PROVE TypeOK'
  <2>1. PICK m \in read[k] : row' = IF Accepting /\ Reported(m.seen, m.status) # m.seen
                                 THEN [row EXCEPT ![m.suite] = Reported(m.seen, m.status)] ELSE row
    BY <1>8 DEF WriteSuite
  <2>2. Reported(m.seen, m.status) \in RowStatus BY Report DEF TypeOK
  <2> QED BY <1>8, <2>1, <2>2 DEF WriteSuite, TypeOK
<1>9. ASSUME NEW why \in {"user_stop", "timeout"}, RequestStop(why) PROVE TypeOK'
  BY <1>9 DEF RequestStop, TypeOK, TerminalStates
<1>10. ASSUME NEW st \in TerminalStates, MarkTerminal(st) PROVE TypeOK'
  <2>1. \A c \in Cases : CaseEnd(c, st) \in RowStatus BY CaseMerge DEF CaseEnd, TypeOK
  <2>2. \A u \in Suites : SuiteEnd(u, st) \in RowStatus BY SuiteMerge
  <2>3. \A l \in Leaves : LeafEnd(l, st) \in RowStatus
    BY Unstuck DEF LeafEnd, TypeOK, RowStatus, Ended
  <2>4. row' \in [Rows -> RowStatus] BY <1>10, <2>1, <2>2, <2>3 DEF MarkTerminal
  <2>5. exec' \in TerminalStates BY <1>10, VerdictMerge DEF MarkTerminal
  <2> QED BY <1>10, <2>4, <2>5 DEF MarkTerminal, TypeOK, TerminalStates
<1>11. CASE UNCHANGED vars BY <1>11 DEF vars, TypeOK
<1> QED
  BY <1>1, <1>2, <1>3, <1>4, <1>5, <1>6, <1>7, <1>8, <1>9, <1>10, <1>11
  DEF Next, Message, Receives, Settle

\* Rows, assertions and half-done reads keep their types and a settled execution
\* has a verdict, whatever messages arrive.
THEOREM RowsTyped == Spec => []TypeOK
<1>1. Init => TypeOK BY DEF Init, TypeOK, RowStatus
<1> QED BY <1>1, TypeStep, PTL DEF Spec

-----------------------------------------------------------------------------
\* A bad result stands: no leaf improves and no case stops blocking, in any step.
THEOREM BadResultsStand == Spec => ResultsStand
<1> DEFINE Stands ==
      /\ \A l \in Leaves : AtLeast(row'[l], row[l]) \/ (l \in Asserted /\ row'[l] = "failed")
      /\ \A c \in Cases : row[c] \in Blocking => row'[c] \in Blocking
<1> USE Layout, ReportTypes
<1>a. \A x \in RowStatus : AtLeast(x, x)
  BY DEF AtLeast, AggregateStatuses, AsStopped, RowStatus, Ended, TerminalStates, Blocking
<1>d. Leaves \cap Parents = {} /\ Suites \cap Cases = {} BY LayoutAssumption
<1>1. TypeOK /\ [Next]_vars => [Stands]_vars
  <2> SUFFICES ASSUME TypeOK, Next PROVE Stands OBVIOUS
  <2> USE DEF TypeOK
  <2>0. row' = row => Stands BY <1>a
  <2>1. ASSUME NEW s \in Steps, NEW st \in LeafResults, StepResult(s, st) PROVE Stands
    <3>1. AtLeast(MergeStepStatus(row[s], st), row[s]) BY StepMerge
    <3>2. \A c \in Cases : row'[c] = row[c] \/ row'[c] = "failed" \/ (c = ParentOf[s] /\ row[c] \notin Ended)
      BY <2>1, <1>d DEF StepResult
    <3> QED BY <2>1, <3>1, <3>2, <1>a, <1>d DEF StepResult, Blocking, Ended, TerminalStates
  <2>2. ASSUME NEW n \in Nodes, NodeStarted(n) PROVE Stands
    <3>1. \A r \in Rows : row[r] \in Blocking => MergeRuntimeStatus(row[r], "running") = row[r]
      BY DEF MergeRuntimeStatus, AggregateStatuses, AsStopped, Blocking, Ended, TerminalStates
    <3>2. \A x, y : x \notin Blocking => AtLeast(y, x) BY DEF AtLeast
    <3> QED BY <2>2, <3>1, <3>2, <1>a DEF NodeStarted
  <2>3. ASSUME NEW n \in Nodes, NEW st \in LeafResults, NodeResult(n, st) PROVE Stands
    <3>1. AtLeast(MergeStepStatus(row[n], st), row[n]) BY StepMerge
    <3>2. \A r \in Rows, up \in RowStatus : row[r] \in Blocking => MergeRuntimeStatus(row[r], up) \in Blocking
      BY RuntimeMerge
    <3>3. \A l \in Leaves \ {n} : row'[l] = row[l]
      BY <2>3, <1>d DEF NodeResult, Above
    <3>4. row'[n] = MergeStepStatus(row[n], st) BY <2>3 DEF NodeResult
    <3>5. \A c \in Cases : row[c] \in Blocking => row'[c] \in Blocking
      <4> DEFINE new == MergeStepStatus(row[n], st)
                 up  == IF new \in Blocking \cup {"skipped"} THEN new ELSE "running"
      <4>1. up \in RowStatus BY DEF RowStatus, Blocking, Ended, TerminalStates
      <4>2. \A c \in Cases : row'[c] \in {row[c], MergeRuntimeStatus(row[c], up)}
        BY <2>3, <1>d DEF NodeResult
      <4> HIDE DEF up
      <4> QED BY <3>2, <4>1, <4>2
    <3> QED BY <3>1, <3>3, <3>4, <3>5, <1>a
  <2>4. ASSUME NEW s \in Asserted, NEW st \in {"pass", "fail"}, AssertionResult(s, st) PROVE Stands
    <3>1. MergeRuntimeStatus(row[ParentOf[s]], "failed") \in Blocking BY RuntimeMerge DEF Blocking
    <3>2. CASE row' = row BY <3>2, <2>0
    <3>3. CASE row' = [row EXCEPT ![s] = "failed", ![ParentOf[s]] = MergeRuntimeStatus(@, "failed")]
      <4>1. ParentOf[s] # s /\ s \notin Cases BY <1>d
      <4> QED BY <3>1, <3>3, <4>1, <1>a, <1>d
    <3> QED BY <2>4, <3>2, <3>3 DEF AssertionResult
  <2>5. ASSUME NEW c \in Cases, NEW st \in ParentReports, CaseStatus(c, st) PROVE Stands
    <3>1. row[c] \in Blocking => Reported(row[c], st) \in Blocking BY Report
    <3> QED BY <2>5, <3>1, <1>a, <1>d DEF CaseStatus
  <2>6. ASSUME NEW st \in Verdicts, ExecutionResult(st) PROVE Stands
    <3>1. \A l \in Leaves : row'[l] = row[l] BY <2>6, <1>d DEF ExecutionResult
    <3>2. \A c \in Cases : row[c] \in Blocking => row'[c] = row[c]
      BY <2>6 DEF ExecutionResult, SettledCase, Blocking
    <3> QED BY <3>1, <3>2, <1>a
  <2>7. ASSUME NEW k \in Conns, WriteSuite(k) PROVE Stands
    <3>1. \A r \in Rows \ Suites : row'[r] = row[r] BY <2>7 DEF WriteSuite
    <3> QED BY <3>1, <1>a, <1>d
  <2>8. ASSUME NEW st \in TerminalStates, MarkTerminal(st) PROVE Stands
    <3>1. \A l \in Leaves : row[l] \in Blocking => row'[l] = row[l]
      BY <2>8, <1>d, Unstuck DEF MarkTerminal, LeafEnd, Open, Blocking
    <3>2. \A c \in Cases : row[c] \in Blocking => row'[c] = row[c]
      BY <2>8, <1>d, CaseMerge DEF MarkTerminal, CaseEnd, Open, Blocking
    <3> QED BY <3>1, <3>2, <1>a DEF AtLeast
  <2> QED
    BY <2>0, <2>1, <2>2, <2>3, <2>4, <2>5, <2>6, <2>7, <2>8
    DEF Next, Message, Settle, ReadSuite, RequestStop
<1> QED BY <1>1, RowsTyped, PTL DEF ResultsStand, Spec

-----------------------------------------------------------------------------
\* What makes a pass impossible once a leaf has failed: the handlers pass a
\* failure on to the case, whose row nobody makes milder; what belongs to a
\* suite is read from the leaf itself, as the suite's row may be overwritten by
\* a handler that read it earlier.  Neither is needed of a leaf the settlement
\* itself turned into an error.
CasesBlock ==
  /\ \A n \in Nodes : ~final /\ ParentOf[n] \in Cases /\ row[n] \in Blocking
                       => row[ParentOf[n]] \in Blocking
  /\ \A s \in Steps : ParentOf[s] \in Cases /\ row[s] = "failed" => row[ParentOf[s]] \in Blocking
  /\ \A s \in Asserted : asrt[s] = "fail" => row[ParentOf[s]] \in Blocking

\* What _stored_execution_terminal looks at.
Decisive == Parents \cup {l \in Leaves : ParentOf[l] \in Suites}

PassIsClean == exec = "passed" /\ ~final => \A r \in Decisive : row[r] \notin Blocking

RowsInv == TypeOK /\ CasesBlock /\ PassIsClean /\ VerdictCoversRows

\* A step that changes neither the execution nor whether it is settled, and that
\* happens while results are accepted, keeps what is said of verdicts.
LEMMA RunningKeepsVerdicts ==
  ASSUME TypeOK, Accepting, exec' = exec, final' = final
  PROVE  PassIsClean' /\ VerdictCoversRows'
BY DEF TypeOK, Accepting, PassIsClean, VerdictCoversRows, TerminalStates

\* The parts about cases and leaves under the handlers of results.
LEMMA CasesBlockStep ==
  ASSUME TypeOK, CasesBlock, Next, ~\E st \in TerminalStates : Settle(st)
  PROVE  CasesBlock'
<1> USE Layout, ReportTypes DEF TypeOK
<1>d. Leaves \cap Parents = {} /\ Suites \cap Cases = {} /\ Nodes \cap Steps = {}
  BY LayoutAssumption
<1>1. ASSUME NEW s \in Steps, NEW st \in LeafResults, StepResult(s, st) PROVE CasesBlock'
  <2> DEFINE new == MergeStepStatus(row[s], st)  p == ParentOf[s]
  <2>1. row'[p] = (IF new = "failed" THEN "failed" ELSE IF row[p] \in Ended THEN row[p] ELSE "running")
        /\ row'[s] = new /\ \A r \in Rows \ {s, p} : row'[r] = row[r]
    BY <1>1, <1>d DEF StepResult
  <2>2. UNCHANGED <<final, asrt>> BY <1>1 DEF StepResult
  <2>3. \A c \in Cases : row[c] \in Blocking => row'[c] \in Blocking
    BY <2>1, <1>d DEF Blocking, Ended, TerminalStates
  <2> HIDE DEF new
  <2> QED BY <2>1, <2>2, <2>3, <1>d DEF CasesBlock, Blocking
<1>2. ASSUME NEW n \in Nodes, NodeStarted(n) PROVE CasesBlock'
  <2>1. \A r \in Rows : /\ row[r] \in Blocking => MergeRuntimeStatus(row[r], "running") = row[r]
                        /\ row[r] \notin Blocking => MergeRuntimeStatus(row[r], "running") \notin Blocking
    BY RunningMerge DEF Blocking, Ended, TerminalStates
  <2>2. \A r \in Rows : row[r] \in Blocking <=> row'[r] \in Blocking BY <1>2, <2>1 DEF NodeStarted
  <2>3. \A s \in Steps : row'[s] = row[s] BY <1>2, <1>d DEF NodeStarted, Above
  <2>4. UNCHANGED <<final, asrt>> BY <1>2 DEF NodeStarted
  <2> QED BY <2>2, <2>3, <2>4 DEF CasesBlock
<1>3. ASSUME NEW n \in Nodes, NEW st \in LeafResults, NodeResult(n, st) PROVE CasesBlock'
  <2> DEFINE new == MergeStepStatus(row[n], st)
             up  == IF new \in Blocking \cup {"skipped"} THEN new ELSE "running"
  <2>1. new \in RowStatus /\ up \in RowStatus
    BY StepMerge DEF RowStatus, Blocking, Ended, TerminalStates
  <2>2. /\ \A c \in Cases : row'[c] \in {row[c], MergeRuntimeStatus(row[c], up)}
        /\ ParentOf[n] \in Cases => row'[ParentOf[n]] = MergeRuntimeStatus(row[ParentOf[n]], up)
    BY <1>3, <1>d DEF NodeResult, Above
  <2>3. row'[n] = new /\ \A l \in Leaves \ {n} : row'[l] = row[l]
    BY <1>3, <1>d DEF NodeResult, Above
  <2>4. UNCHANGED <<final, asrt>> BY <1>3 DEF NodeResult
  <2>5. new \in Blocking => up \in Blocking OBVIOUS
  <2> HIDE DEF new, up
  <2>6. \A c \in Cases : row[c] \in Blocking => row'[c] \in Blocking
    BY <2>1, <2>2, RuntimeMerge
  <2>7. new \in Blocking /\ ParentOf[n] \in Cases => row'[ParentOf[n]] \in Blocking
    BY <2>1, <2>2, <2>5, RuntimeMerge
  <2> QED BY <2>3, <2>4, <2>6, <2>7, <1>d DEF CasesBlock
<1>4. ASSUME NEW s \in Asserted, NEW st \in {"pass", "fail"}, AssertionResult(s, st) PROVE CasesBlock'
  <2>1. MergeRuntimeStatus(row[ParentOf[s]], "failed") \in Blocking BY RuntimeMerge DEF Blocking
  <2>2. final' = final /\ \A t \in Asserted \ {s} : asrt'[t] = asrt[t]
    BY <1>4 DEF AssertionResult
  <2>3. CASE st = "pass"
    <3>1. row' = row /\ (asrt'[s] = "fail" => asrt[s] = "fail")
      BY <1>4, <2>3 DEF AssertionResult, Upsert
    <3> QED BY <3>1, <2>2 DEF CasesBlock
  <2>4. CASE st = "fail"
    <3>1. row' = [row EXCEPT ![s] = "failed", ![ParentOf[s]] = MergeRuntimeStatus(@, "failed")]
      BY <1>4, <2>4 DEF AssertionResult
    <3>2. row'[ParentOf[s]] \in Blocking /\ \A r \in Rows \ {s, ParentOf[s]} : row'[r] = row[r]
      BY <3>1, <2>1, <1>d
    <3> QED BY <3>2, <2>2, <1>d DEF CasesBlock
  <2> QED BY <2>3, <2>4
<1>5. ASSUME NEW c \in Cases, NEW st \in ParentReports, CaseStatus(c, st) PROVE CasesBlock'
  <2>1. row[c] \in Blocking => Reported(row[c], st) \in Blocking BY Report
  <2>2. UNCHANGED <<final, asrt>> /\ row' = [row EXCEPT ![c] = Reported(row[c], st)]
    BY <1>5 DEF CaseStatus
  <2>3. \A d \in Cases : row[d] \in Blocking => row'[d] \in Blocking BY <2>1, <2>2
  <2>4. \A l \in Leaves : row'[l] = row[l] BY <2>2, <1>d
  <2> QED BY <2>2, <2>3, <2>4 DEF CasesBlock
<1>6. ASSUME NEW st \in Verdicts, ExecutionResult(st) PROVE CasesBlock'
  <2>1. \A l \in Leaves : row'[l] = row[l] BY <1>6, <1>d DEF ExecutionResult
  <2>2. \A c \in Cases : row[c] \in Blocking => row'[c] = row[c]
    BY <1>6 DEF ExecutionResult, SettledCase, Blocking
  <2> QED BY <1>6, <2>1, <2>2 DEF ExecutionResult, CasesBlock
<1>7. ASSUME NEW k \in Conns, WriteSuite(k) PROVE CasesBlock'
  <2>1. \A r \in Rows \ Suites : row'[r] = row[r] BY <1>7 DEF WriteSuite
  <2> QED BY <1>7, <2>1, <1>d DEF WriteSuite, CasesBlock
<1>8. ASSUME row' = row, asrt' = asrt, final' = final PROVE CasesBlock'
  BY <1>8 DEF CasesBlock
<1> QED
  BY <1>1, <1>2, <1>3, <1>4, <1>5, <1>6, <1>7, <1>8
  DEF Next, Message, ReadSuite, RequestStop

\* The verdict of the agent and the settlement.
LEMMA ResultPassesClean ==
  ASSUME TypeOK, CasesBlock, NEW st \in Verdicts, Accepting, ExecutionResult(st), exec' = "passed"
  PROVE  /\ \A r \in Decisive : row[r] \notin Blocking
         /\ \A r \in Decisive : row'[r] \notin Blocking
<1>1. MergeTerminalStatus(st, StoredTerminal) = "passed"
  BY DEF ExecutionResult, Accepting
<1>2. \A r \in Decisive : row[r] \notin Blocking
  BY <1>1, AgentVerdict, StoredBlocks DEF Decisive
<1>3. \A r \in Rows : row[r] \notin Blocking => row'[r] \notin Blocking
  BY DEF ExecutionResult, SettledCase, Blocking
<1>4. Decisive \subseteq Rows BY DEF Decisive, Rows
<1> QED BY <1>2, <1>3, <1>4

LEMMA SettleCovers ==
  ASSUME TypeOK, NEW st \in TerminalStates, MarkTerminal(st)
  PROVE  VerdictCoversRows'
<1> USE Layout, ReportTypes DEF TypeOK
<1>d. Leaves \cap Parents = {} /\ Suites \cap Cases = {} BY LayoutAssumption
<1> DEFINE parents == [r \in Parents |-> IF r \in Cases THEN CaseEnd(r, st) ELSE SuiteEnd(r, st)]
<1>1. \A r \in Parents : row'[r] = parents[r] BY <1>d DEF MarkTerminal
<1>2. \A r \in Parents : parents[r] \in Ended
  BY <1>d, CaseMerge, SuiteMerge DEF CaseEnd
<1>3. \A r \in Parents : AtLeast(exec', parents[r])
  <2>1. exec' = MergeExecutionStatus(st, {parents[r] : r \in Parents}) BY DEF MarkTerminal
  <2> HIDE DEF parents
  <2> QED BY <2>1, VerdictMerge
<1>4. \A n \in Nodes : row'[n] \in Ended
  BY <1>d, Unstuck DEF MarkTerminal, LeafEnd
<1> HIDE DEF parents
<1>5. \A r \in Parents : row'[r] \in Ended /\ AtLeast(exec', row'[r]) BY <1>1, <1>2, <1>3
<1>6. \A r \in Parents : AtLeast(exec, row[r])' BY <1>5 DEF AtLeast
<1> QED BY <1>4, <1>5, <1>6 DEF VerdictCoversRows

LEMMA SettleKeepsCases ==
  ASSUME TypeOK, CasesBlock, NEW st \in TerminalStates, MarkTerminal(st)
  PROVE  CasesBlock' /\ PassIsClean'
<1> USE Layout, ReportTypes DEF TypeOK
<1>d. Leaves \cap Parents = {} /\ Suites \cap Cases = {} /\ Nodes \cap Steps = {}
  BY LayoutAssumption
<1>1. final' BY DEF MarkTerminal
<1>2. \A c \in Cases : row[c] \in Blocking => row'[c] = row[c]
  BY <1>d, CaseMerge DEF MarkTerminal, CaseEnd, Open, Blocking
<1>3. \A s \in Steps : row'[s] = "failed" => row[s] = "failed"
  BY <1>d DEF MarkTerminal, LeafEnd
<1>4. \A s \in Asserted : asrt'[s] = "fail" => asrt[s] = "fail"
  BY DEF MarkTerminal
<1> QED BY <1>1, <1>2, <1>3, <1>4 DEF CasesBlock, PassIsClean

LEMMA RowsStep == RowsInv /\ [Next]_vars => RowsInv'
<1> SUFFICES ASSUME RowsInv, [Next]_vars PROVE RowsInv' OBVIOUS
<1> USE DEF RowsInv
<1>0. TypeOK' BY TypeStep
<1>1. ASSUME NEW st \in TerminalStates, Settle(st) PROVE RowsInv'
  BY <1>0, <1>1, SettleCovers, SettleKeepsCases DEF Settle
<1>2. CASE Next /\ ~\E st \in TerminalStates : Settle(st)
  <2>1. CasesBlock' BY <1>2, CasesBlockStep
  <2>2. ASSUME NEW st \in Verdicts, Accepting, ExecutionResult(st) PROVE PassIsClean' /\ VerdictCoversRows'
    <3>1. ~final /\ final' = final
      BY <2>2 DEF ExecutionResult, TypeOK, Accepting, TerminalStates
    <3> QED BY <2>2, <3>1, ResultPassesClean DEF PassIsClean, VerdictCoversRows, Decisive
  <2>3. ASSUME NEW why \in {"user_stop", "timeout"}, RequestStop(why) PROVE PassIsClean' /\ VerdictCoversRows'
    BY <2>3 DEF RequestStop, PassIsClean, VerdictCoversRows, TypeOK, TerminalStates
  <2>4. ASSUME exec' = exec, final' = final, Accepting PROVE PassIsClean' /\ VerdictCoversRows'
    BY <2>4, RunningKeepsVerdicts
  <2>5. ASSUME UNCHANGED <<exec, final, row>> PROVE PassIsClean' /\ VerdictCoversRows'
    BY <2>5 DEF PassIsClean, VerdictCoversRows, AtLeast, Decisive
  <2>6. ASSUME NEW k \in Conns, WriteSuite(k) PROVE PassIsClean' /\ VerdictCoversRows'
    BY <2>4, <2>5, <2>6 DEF WriteSuite
  <2>7. ASSUME NEW k \in Conns, Message(k) PROVE PassIsClean' /\ VerdictCoversRows'
    <3>1. CASE Receives(k) /\ ~\E st \in Verdicts : ExecutionResult(st)
      BY <2>4, <2>5, <2>6, <2>7, <3>1
      DEF Message, Receives, StepResult, NodeStarted, NodeResult, AssertionResult, CaseStatus, ReadSuite
    <3>2. CASE ~Receives(k)
      BY <2>5, <2>6, <2>7, <3>2 DEF Message, ReadSuite
    <3>3. CASE Receives(k) /\ \E st \in Verdicts : ExecutionResult(st)
      BY <2>2, <3>3 DEF Receives
    <3> QED BY <3>1, <3>2, <3>3
  <2> QED BY <1>0, <1>2, <2>1, <2>3, <2>7 DEF Next
<1>3. CASE UNCHANGED vars
  BY <1>0, <1>3 DEF vars, CasesBlock, PassIsClean, VerdictCoversRows, AtLeast, Decisive
<1> QED BY <1>1, <1>2, <1>3

LEMMA RowsInitially == Init => RowsInv
BY Layout DEF Init, RowsInv, TypeOK, CasesBlock, PassIsClean, VerdictCoversRows, RowStatus, Blocking

LEMMA RowsAlways == Spec => []RowsInv
BY RowsInitially, RowsStep, PTL DEF Spec

\* The verdict of a settled execution covers its suites and cases, and no suite,
\* case or node is left open.
THEOREM VerdictCovers == Spec => []VerdictCoversRows
BY RowsAlways, PTL DEF RowsInv

\* An execution becomes passed only when nothing under it was reported as failing.
THEOREM PassesAreEarned == Spec => NoFalsePass
<1> DEFINE Earned ==
      ~final /\ exec' = "passed" =>
        /\ \A r \in Parents \cup Nodes : row[r] \notin Blocking
        /\ \A s \in Steps : row[s] # "failed"
        /\ \A s \in Asserted : asrt[s] # "fail"
<1>1. RowsInv /\ [Next]_vars => [Earned]_vars
  <2> SUFFICES ASSUME RowsInv, Next, ~final, exec' = "passed"
               PROVE  \A r \in Decisive : row[r] \notin Blocking
    <3>1. ASSUME \A r \in Decisive : row[r] \notin Blocking, ~final, CasesBlock PROVE Earned
      BY <3>1, Layout DEF CasesBlock, Decisive, Blocking
    <3> QED BY <3>1 DEF RowsInv
  <2>1. ASSUME NEW st \in TerminalStates, Settle(st) PROVE exec = "passed"
    <3>1. exec' = "passed" => st = "passed" BY <2>1, VerdictMerge DEF Settle, MarkTerminal
    <3> QED BY <2>1, <3>1 DEF Settle
  <2>2. ASSUME NEW st \in Verdicts, Accepting, ExecutionResult(st)
        PROVE  \A r \in Decisive : row[r] \notin Blocking
    BY <2>2, ResultPassesClean DEF RowsInv
  <2>3. CASE exec = "passed" BY <2>3 DEF RowsInv, PassIsClean
  <2>4. CASE exec' = exec BY <2>3, <2>4
  <2> QED
    BY <2>1, <2>2, <2>3, <2>4
    DEF Next, Message, Receives, StepResult, NodeStarted, NodeResult, AssertionResult,
        CaseStatus, ReadSuite, WriteSuite, RequestStop
<1> QED BY <1>1, RowsAlways, PTL DEF NoFalsePass, Spec

-----------------------------------------------------------------------------
\* The beginnings of a sequence.
LEMMA Beginnings ==
  ASSUME NEW M, NEW s \in Seq(M), NEW t \in Halves(s)
  PROVE  t \in Seq(M)
<1>1. PICK i \in 0 .. Len(s) : t = SubSeq(s, 1, i)
  BY DEF Halves
<1>2. \A j \in 0 .. Len(s) : SubSeq(s, 1, j) \in Seq(M)
  OBVIOUS
<1> QED BY <1>1, <1>2, Zenon

-----------------------------------------------------------------------------
(* What the runner says.                                                   *)

LeafMessages == {Msg("node_started", n, "running") : n \in Nodes}
                  \cup {Msg("node_result", n, st) : n \in Nodes, st \in LeafResults}
ParentMessages == {Msg("case_status", c, st) : c \in Cases, st \in ParentReports}
                    \cup {Msg("suite_status", u, st) : u \in Suites, st \in ParentReports}
Progress == LeafMessages \cup ParentMessages
Messages == Progress \cup {Result(st) : st \in Verdicts}

Outcome == [Nodes -> {"passed", "failed", "error"}]

\* s says nothing of the end but st.
Says(s, st) == \A i \in DOMAIN s : s[i].kind = "execution_result" => s[i].status = st

LEMMA Reportable ==
  /\ Ranked \subseteq LeafResults /\ "running" \in ParentReports /\ LeafResults \subseteq ParentReports
  /\ Ranked \ {"skipped"} \subseteq Verdicts
  /\ Verdicts \subseteq TerminalStates
BY LayoutAssumption, PathAssumption
   DEF Ranked, LeafResults, ParentReports, Verdicts, Ended, TerminalStates

\* Progress, then a verdict.
LEMMA Closing ==
  ASSUME NEW s \in Seq(Progress), NEW st \in Verdicts
  PROVE  LET t == s \o <<Result(st)>> IN
         /\ t \in Seq(Messages) /\ t # <<>>
         /\ t[Len(t)] = Result(st) /\ Says(t, st)
<1> DEFINE t == s \o <<Result(st)>>
<1>1. Progress \subseteq Messages /\ Result(st) \in Messages
  BY DEF Messages
<1>2. s \in Seq(Messages) /\ <<Result(st)>> \in Seq(Messages)
  BY <1>1
<1>3. t \in Seq(Messages)
  BY <1>2
<1>4. Len(t) = Len(s) + 1 /\ t[Len(t)] = Result(st)
  OBVIOUS
<1>5. \A m \in Progress : m.kind # "execution_result"
  BY DEF Progress, LeafMessages, ParentMessages, Msg
<1>6. \A i \in DOMAIN t : t[i] \in Progress \/ t[i] = Result(st)
  OBVIOUS
<1>7. Says(t, st)
  BY <1>5, <1>6 DEF Says, Result, Msg
<1>8. t # <<>>
  BY <1>4
<1> QED BY <1>3, <1>4, <1>7, <1>8

\* _run_flow_nodes runs a beginning of the phase.
LEMMA RanNodes ==
  ASSUME NEW nodes \in Seq(Nodes)
  PROVE  Ran(nodes) \in Seq(Nodes)
<1> DEFINE halts == {i \in DOMAIN nodes : Blocks(nodes[i]) /\ nodes[i] \notin Lenient}
<1>1. CASE halts = {}
  BY <1>1 DEF Ran
<1>2. CASE halts # {}
  <2>1. halts \in SUBSET Nat /\ halts \subseteq 1 .. Len(nodes)
    OBVIOUS
  <2> HIDE DEF halts
  <2>2. Min(halts) \in halts
    BY <1>2, <2>1, NatLeast DEF Min
  <2>3. Ran(nodes) = SubSeq(nodes, 1, Min(halts))
    BY <1>2 DEF Ran, halts
  <2>4. Min(halts) \in 1 .. Len(nodes)
    BY <2>1, <2>2, Zenon
  <2>5. Min(halts) \in 0 .. Len(nodes)
    BY <2>4
  <2>6. \A k \in 0 .. Len(nodes) : SubSeq(nodes, 1, k) \in Seq(Nodes)
    OBVIOUS
  <2>7. SubSeq(nodes, 1, Min(halts)) \in Seq(Nodes)
    BY <2>5, <2>6, Zenon
  <2> QED BY <2>3, <2>7, Zenon
<1> QED BY <1>1, <1>2

LEMMA CaseNodes ==
  ASSUME NEW c \in Cases
  PROVE  CaseRun(c) \in Seq(Nodes)
<1>1. /\ SetupOf[c] \in Seq(Nodes) /\ MainOf[c] \in Seq(Nodes) /\ TeardownOf[c] \in Seq(Nodes)
  BY PathAssumption DEF Parents
<1>2. /\ Ran(SetupOf[c]) \in Seq(Nodes) /\ Ran(MainOf[c]) \in Seq(Nodes)
      /\ Ran(TeardownOf[c]) \in Seq(Nodes)
  BY <1>1, RanNodes
<1> QED BY <1>2 DEF CaseRun

\* Two messages for each node that is run, the second with its outcome.
LEMMA NodesSaid ==
  ASSUME outcome \in Outcome, NEW nodes \in Seq(Nodes)
  PROVE  /\ NodeMessages(nodes) \in Seq(Progress)
         /\ \A n \in Nodes : Msg("node_result", n, outcome[n]) \in ToSet(NodeMessages(nodes))
                               => outcome[n] \in Outcomes(nodes)
<1> DEFINE pair(n) == <<Msg("node_started", n, "running"), Msg("node_result", n, outcome[n])>>
           pairs == [i \in DOMAIN nodes |-> pair(nodes[i])]
<1>1. \A n \in Nodes : pair(n) \in Seq(Progress)
  BY Reportable DEF Outcome, Progress, LeafMessages, Ranked
<1>2. \A n, x \in Nodes : Msg("node_result", n, outcome[n]) \in ToSet(pair(x)) => x = n
  BY DEF ToSet, Msg
<1>3. NodeMessages(nodes) = FlattenSeq(pairs)
  BY DEF NodeMessages
<1>4. \A n \in Nodes : Msg("node_result", n, outcome[n]) \in Progress
  BY Reportable DEF Outcome, Progress, LeafMessages, Ranked
<1> HIDE DEF pair
<1>5. pairs \in Seq(Seq(Progress)) /\ DOMAIN pairs = DOMAIN nodes
  <2>1. DOMAIN nodes = 1 .. Len(nodes) /\ Len(nodes) \in Nat
    OBVIOUS
  <2>2. pairs \in [1 .. Len(nodes) -> Seq(Progress)]
    BY <1>1, <2>1
  <2> QED BY <2>1, <2>2
<1>6. \A i \in DOMAIN nodes : nodes[i] \in Nodes /\ pairs[i] = pair(nodes[i])
  OBVIOUS
<1> HIDE DEF pairs
<1>7. ASSUME NEW n \in Nodes, Msg("node_result", n, outcome[n]) \in ToSet(FlattenSeq(pairs))
      PROVE  outcome[n] \in Outcomes(nodes)
  <2>1. PICK i \in DOMAIN pairs : Msg("node_result", n, outcome[n]) \in ToSet(pairs[i])
    BY <1>4, <1>5, <1>7, FlattenMembers
  <2>2. nodes[i] = n
    BY <1>2, <1>5, <1>6, <2>1
  <2> QED BY <1>5, <2>1, <2>2 DEF Outcomes
<1>8. FlattenSeq(pairs) \in Seq(Progress)
  BY <1>5, FlattenMembers
<1> QED BY <1>3, <1>7, <1>8

LEMMA RunVerdicts ==
  ASSUME NEW u, NEW c
  PROVE  CaseVerdict(u, c) \in Ranked /\ SuiteVerdict(u) \in Ranked
BY AggregateRanked DEF CaseVerdict, SuiteVerdict, Ranked

LEMMA OverallVerdict == Overall \in Ranked \ {"skipped"}
BY AggregateRanked DEF Overall, Ranked

\* Worse than worse is worse.
LEMMA Worse ==
  ASSUME NEW a \in TerminalStates \cup Ranked, NEW b \in Ranked, NEW c, AtLeast(a, b), AtLeast(b, c)
  PROVE  AtLeast(a, c)
BY DEF AtLeast, TerminalStates, Ranked, Blocking, AggregateStatuses, AsStopped

LEMMA OverallCovers ==
  ASSUME NEW u \in Suites, NEW x, AtLeast(SuiteVerdict(u), x)
  PROVE  AtLeast(Overall, x)
<1> DEFINE all == AggregateStatuses({SuiteVerdict(v) : v \in Suites})
<1>1. all \in Ranked /\ AtLeast(all, SuiteVerdict(u))
  BY AggregateCovers
<1>2. SuiteVerdict(u) \in Ranked
  BY RunVerdicts
<1>3. AtLeast(all, x)
  BY <1>1, <1>2, Worse
<1>4. Overall = IF all = "skipped" THEN "passed" ELSE all
  BY DEF Overall
<1> HIDE DEF all
<1> QED BY <1>3, <1>4 DEF AtLeast, AggregateStatuses, AsStopped, Blocking

\* A case and a suite say nothing of the end, and what they say of a node went
\* into their verdict.
LEMMA CaseSaid ==
  ASSUME outcome \in Outcome, NEW u \in Suites, NEW c \in Cases
  PROVE  /\ CaseMessages(u, c) \in Seq(Progress)
         /\ \A n \in Nodes : Msg("node_result", n, outcome[n]) \in ToSet(CaseMessages(u, c))
                               => AtLeast(CaseVerdict(u, c), outcome[n])
<1> DEFINE told(st) == <<Msg("case_status", c, st)>>
<1>1. \A st \in ParentReports : told(st) \in Seq(Progress)
  BY DEF Progress, ParentMessages
<1>2. \A n \in Nodes, st \in ParentReports : Msg("node_result", n, outcome[n]) \notin ToSet(told(st))
  BY DEF ToSet, Msg
<1>3. CaseVerdict(u, c) \in ParentReports /\ "skipped" \in ParentReports /\ "running" \in ParentReports
  BY RunVerdicts, Reportable DEF Ranked
<1>4. CASE Blocked(SetupOf[u])
  <2>1. CaseMessages(u, c) = told("skipped")
    BY <1>4 DEF CaseMessages
  <2> HIDE DEF told
  <2> QED BY <1>1, <1>2, <1>3, <2>1
<1>5. CASE ~Blocked(SetupOf[u])
  <2> DEFINE said == NodeMessages(CaseRun(c))
  <2>1. CaseMessages(u, c) = told("running") \o said \o told(CaseVerdict(u, c))
    BY <1>5 DEF CaseMessages
  <2>2. said \in Seq(Progress)
    BY CaseNodes, NodesSaid
  <2>3. CaseVerdict(u, c) = AggregateStatuses(Outcomes(CaseRun(c)))
    BY <1>5 DEF CaseVerdict
  <2>4. \A n \in Nodes : Msg("node_result", n, outcome[n]) \in ToSet(said)
                           => outcome[n] \in Outcomes(CaseRun(c))
    BY CaseNodes, NodesSaid
  <2> HIDE DEF told, said
  <2>5. /\ told("running") \o said \in Seq(Progress)
        /\ ToSet(told("running") \o said) = ToSet(told("running")) \cup ToSet(said)
    BY <1>1, <1>3, <2>2, ConcatMembers
  <2>6. /\ CaseMessages(u, c) \in Seq(Progress)
        /\ ToSet(CaseMessages(u, c)) = ToSet(told("running")) \cup ToSet(said) \cup ToSet(told(CaseVerdict(u, c)))
    <3> DEFINE s == told("running") \o said
               t == told(CaseVerdict(u, c))
    <3>1. s \in Seq(Progress) /\ t \in Seq(Progress)
      BY <1>1, <1>3, <2>5
    <3>2. CaseMessages(u, c) = s \o t
      BY <2>1
    <3>3. ToSet(s) = ToSet(told("running")) \cup ToSet(said)
      BY <2>5
    <3> HIDE DEF s, t
    <3>4. s \o t \in Seq(Progress) /\ ToSet(s \o t) = ToSet(s) \cup ToSet(t)
      BY <3>1, ConcatMembers
    <3> QED BY <3>2, <3>3, <3>4 DEF t
  <2>7. ASSUME NEW n \in Nodes, Msg("node_result", n, outcome[n]) \in ToSet(CaseMessages(u, c))
        PROVE  AtLeast(CaseVerdict(u, c), outcome[n])
    <3>1. Msg("node_result", n, outcome[n]) \in ToSet(said)
      BY <1>2, <1>3, <2>6, <2>7
    <3> QED BY <2>3, <2>4, <3>1, AggregateCovers
  <2> QED BY <2>6, <2>7
<1> QED BY <1>4, <1>5

LEMMA SuiteSaid ==
  ASSUME outcome \in Outcome, NEW u \in Suites
  PROVE  /\ SuiteMessages(u) \in Seq(Progress)
         /\ \A n \in Nodes : Msg("node_result", n, outcome[n]) \in ToSet(SuiteMessages(u))
                               => AtLeast(SuiteVerdict(u), outcome[n])
<1> DEFINE told(st) == <<Msg("suite_status", u, st)>>
           before == NodeMessages(Ran(SetupOf[u]))
           after  == NodeMessages(Ran(TeardownOf[u]))
           cases  == [i \in DOMAIN CasesOf[u] |-> CaseMessages(u, CasesOf[u][i])]
           seen   == Outcomes(Ran(SetupOf[u])) \cup Outcomes(Ran(TeardownOf[u]))
                       \cup {CaseVerdict(u, c) : c \in ToSet(CasesOf[u])}
           Heard(s) == \A n \in Nodes : Msg("node_result", n, outcome[n]) \in ToSet(s)
                                          => AtLeast(SuiteVerdict(u), outcome[n])
<1>1. \A st \in ParentReports : told(st) \in Seq(Progress)
  BY DEF Progress, ParentMessages
<1>2. \A st \in ParentReports : Heard(told(st))
  BY DEF ToSet, Msg
<1>3. SuiteVerdict(u) \in ParentReports /\ "running" \in ParentReports
  BY RunVerdicts, Reportable DEF Ranked
<1>4. SuiteVerdict(u) = AggregateStatuses(seen)
  BY DEF SuiteVerdict
<1>5. \A x \in seen : AtLeast(SuiteVerdict(u), x)
  BY <1>4, AggregateCovers
<1>6. SetupOf[u] \in Seq(Nodes) /\ TeardownOf[u] \in Seq(Nodes) /\ CasesOf[u] \in Seq(Cases)
  BY PathAssumption DEF Parents
<1>7. before \in Seq(Progress) /\ Heard(before)
  <2>1. /\ before \in Seq(Progress)
        /\ \A n \in Nodes : Msg("node_result", n, outcome[n]) \in ToSet(before)
                              => outcome[n] \in Outcomes(Ran(SetupOf[u]))
    BY <1>6, RanNodes, NodesSaid
  <2> HIDE DEF before
  <2> QED BY <1>5, <2>1
<1>8. after \in Seq(Progress) /\ Heard(after)
  <2>1. /\ after \in Seq(Progress)
        /\ \A n \in Nodes : Msg("node_result", n, outcome[n]) \in ToSet(after)
                              => outcome[n] \in Outcomes(Ran(TeardownOf[u]))
    BY <1>6, RanNodes, NodesSaid
  <2> HIDE DEF after
  <2> QED BY <1>5, <2>1
<1>9. FlattenSeq(cases) \in Seq(Progress) /\ Heard(FlattenSeq(cases))
  <2>1. DOMAIN CasesOf[u] = 1 .. Len(CasesOf[u]) /\ Len(CasesOf[u]) \in Nat
    BY <1>6
  <2>2. \A i \in DOMAIN CasesOf[u] : CasesOf[u][i] \in Cases
    BY <1>6
  <2>3. \A i \in DOMAIN CasesOf[u] : cases[i] \in Seq(Progress)
    BY <2>2, CaseSaid
  <2>4. cases \in [1 .. Len(CasesOf[u]) -> Seq(Progress)]
    BY <2>1, <2>3
  <2>5. cases \in Seq(Seq(Progress)) /\ DOMAIN cases = DOMAIN CasesOf[u]
    BY <2>1, <2>4
  <2>6. ASSUME NEW n \in Nodes, Msg("node_result", n, outcome[n]) \in ToSet(FlattenSeq(cases))
        PROVE  AtLeast(SuiteVerdict(u), outcome[n])
    <3>1. Msg("node_result", n, outcome[n]) \in Progress
      BY Reportable DEF Outcome, Progress, LeafMessages, Ranked
    <3> HIDE DEF cases
    <3>2. PICK i \in DOMAIN cases : Msg("node_result", n, outcome[n]) \in ToSet(cases[i])
      BY <2>5, <2>6, <3>1, FlattenMembers
    <3> DEFINE c == CasesOf[u][i]
    <3>3. c \in Cases /\ c \in ToSet(CasesOf[u]) /\ cases[i] = CaseMessages(u, c)
      BY <2>2, <2>5, <3>2 DEF cases, ToSet
    <3> HIDE DEF c
    <3>4. AtLeast(CaseVerdict(u, c), outcome[n])
      BY <3>2, <3>3, CaseSaid
    <3>5. AtLeast(SuiteVerdict(u), CaseVerdict(u, c))
      BY <1>5, <3>3
    <3> QED BY <3>4, <3>5, RunVerdicts, Worse
  <2> HIDE DEF cases
  <2> QED BY <2>5, <2>6, FlattenMembers
<1>10. SuiteMessages(u) = told("running") \o before \o FlattenSeq(cases) \o after \o told(SuiteVerdict(u))
  BY DEF SuiteMessages
<1> HIDE DEF told, before, after, cases, seen
<1>11. ASSUME NEW s \in Seq(Progress), NEW t \in Seq(Progress), Heard(s), Heard(t)
       PROVE  s \o t \in Seq(Progress) /\ Heard(s \o t)
  BY <1>11, ConcatMembers
<1> HIDE DEF Heard
<1> DEFINE s1 == told("running") \o before
           s2 == s1 \o FlattenSeq(cases)
           s3 == s2 \o after
<1>12. s1 \in Seq(Progress) /\ Heard(s1)
  BY <1>1, <1>2, <1>3, <1>7, <1>11
<1>13. s2 \in Seq(Progress) /\ Heard(s2)
  BY <1>9, <1>11, <1>12
<1>14. s3 \in Seq(Progress) /\ Heard(s3)
  BY <1>8, <1>11, <1>13
<1>15. SuiteMessages(u) \in Seq(Progress) /\ Heard(SuiteMessages(u))
  BY <1>1, <1>2, <1>3, <1>10, <1>11, <1>14
<1> QED BY <1>15 DEF Heard

\* The script ends with the verdict of all suites and says no other; that covers
\* each node it tells of.
LEMMA ScriptSays ==
  ASSUME outcome \in Outcome
  PROVE  /\ Script \in Seq(Messages) /\ Script # <<>>
         /\ Script[Len(Script)] = Result(Overall) /\ Says(Script, Overall)
         /\ \A n \in Seen : AtLeast(Overall, outcome[n])
<1> DEFINE suites == [i \in DOMAIN SuiteOrder |-> SuiteMessages(SuiteOrder[i])]
           told == FlattenSeq(suites)
<1>1. SuiteOrder \in Seq(Suites)
  BY PathAssumption
<1>2. DOMAIN SuiteOrder = 1 .. Len(SuiteOrder) /\ Len(SuiteOrder) \in Nat
  BY <1>1
<1>3. \A i \in DOMAIN SuiteOrder : SuiteOrder[i] \in Suites
  BY <1>1
<1>4. \A i \in DOMAIN SuiteOrder : suites[i] \in Seq(Progress)
  BY <1>3, SuiteSaid
<1>5. suites \in [1 .. Len(SuiteOrder) -> Seq(Progress)]
  BY <1>2, <1>4
<1>6. suites \in Seq(Seq(Progress)) /\ DOMAIN suites = DOMAIN SuiteOrder
  BY <1>2, <1>5
<1>7. \A i \in DOMAIN SuiteOrder : suites[i] = SuiteMessages(SuiteOrder[i])
  OBVIOUS
<1>8. Script = told \o <<Result(Overall)>>
  BY DEF Script
<1> HIDE DEF suites
<1>9. told \in Seq(Progress)
  BY <1>6, FlattenMembers
<1>10. Overall \in Verdicts
  BY OverallVerdict, Reportable
<1>11. /\ Script \in Seq(Messages) /\ Script # <<>>
       /\ Script[Len(Script)] = Result(Overall) /\ Says(Script, Overall)
  <2> HIDE DEF told
  <2> QED BY <1>8, <1>9, <1>10, Closing
<1>12. ASSUME NEW n \in Seen PROVE AtLeast(Overall, outcome[n])
  <2> DEFINE m == Msg("node_result", n, outcome[n])
  <2>1. n \in Nodes /\ m \in ToSet(Script)
    BY <1>12 DEF Seen
  <2>2. m \in Progress
    BY <2>1, Reportable DEF Outcome, Progress, LeafMessages, Ranked
  <2>3. m # Result(Overall)
    BY DEF Msg, Result
  <2> HIDE DEF m
  <2>4. m \in ToSet(told)
    <3>1. told \in Seq(Messages) /\ <<Result(Overall)>> \in Seq(Messages)
      BY <1>9, <1>10 DEF Messages
    <3>2. ToSet(<<Result(Overall)>>) = {Result(Overall)}
      BY DEF ToSet
    <3> HIDE DEF told
    <3>3. ToSet(told \o <<Result(Overall)>>) = ToSet(told) \cup ToSet(<<Result(Overall)>>)
      BY <3>1, ConcatMembers
    <3> QED BY <1>8, <2>1, <2>3, <3>2, <3>3, Zenon
  <2>5. PICK i \in DOMAIN suites : m \in ToSet(suites[i])
    BY <1>6, <2>2, <2>4, FlattenMembers
  <2>6. AtLeast(SuiteVerdict(SuiteOrder[i]), outcome[n])
    BY <1>3, <1>6, <1>7, <2>1, <2>5, SuiteSaid DEF m
  <2> QED BY <1>3, <1>6, <2>5, <2>6, OverallCovers
<1> QED BY <1>11, <1>12
-----------------------------------------------------------------------------
(* The messages under way: what is sent is what the agent may report, and  *)
(* a verdict comes last.                                                   *)

PathTyped ==
  /\ outcome \in Outcome
  /\ todo \in Seq(Messages)
  /\ todo = <<>> => verdict # "none"
  /\ todo # <<>> => todo[Len(todo)].kind = "execution_result"
  /\ verdict \in Verdicts \cup {"none"}
  /\ conn \in Conns
  /\ wire \in [Conns -> Seq(Messages)]

LEMMA MessageKinds ==
  ASSUME NEW m \in Messages
  PROVE  \/ m.kind = "node_started" /\ m.row \in Nodes
         \/ m.kind = "node_result" /\ m.row \in Nodes /\ m.status \in LeafResults
         \/ m.kind = "case_status" /\ m.row \in Cases /\ m.status \in ParentReports
         \/ m.kind = "suite_status" /\ m.row \in Suites /\ m.status \in ParentReports
         \/ m.kind = "execution_result" /\ m.status \in Verdicts
BY DEF Messages, Progress, LeafMessages, ParentMessages, Result, Msg

\* What is left to say after a stop is well formed, too.
LEMMA ConvergeSays ==
  ASSUME NEW m
  PROVE  /\ Converge(m) \in Seq(Messages) /\ Converge(m) # <<>>
         /\ Converge(m)[Len(Converge(m))] = Result("stopped")
<1> DEFINE left(u) == \E i \in DOMAIN todo : todo[i] \in ToSet(SuiteMessages(u))
           skips(u) == <<Msg("suite_status", u, "skipped")>>
                         \o [i \in DOMAIN CasesOf[u] |-> Msg("case_status", CasesOf[u][i], "skipped")]
           told(u) == IF ~left(u) THEN <<>>
                      ELSE IF m \in ToSet(SuiteMessages(u)) THEN <<Msg("suite_status", u, "stopped")>>
                      ELSE skips(u)
           all == [i \in DOMAIN SuiteOrder |-> told(SuiteOrder[i])]
<1>1. Converge(m) = FlattenSeq(all) \o <<Result("stopped")>>
  BY DEF Converge
<1>2. "skipped" \in ParentReports /\ "stopped" \in ParentReports /\ "stopped" \in Verdicts
  BY Reportable DEF Ranked
<1>3. ASSUME NEW u \in Suites PROVE told(u) \in Seq(Progress)
  <2>1. <<Msg("suite_status", u, "skipped")>> \in Seq(Progress)
        /\ <<Msg("suite_status", u, "stopped")>> \in Seq(Progress)
    BY <1>2 DEF Progress, ParentMessages
  <2>2. CasesOf[u] \in Seq(Cases)
    BY PathAssumption
  <2>3. DOMAIN CasesOf[u] = 1 .. Len(CasesOf[u]) /\ Len(CasesOf[u]) \in Nat
    BY <2>2
  <2>4. \A i \in DOMAIN CasesOf[u] : Msg("case_status", CasesOf[u][i], "skipped") \in Progress
    BY <1>2, <2>2 DEF Progress, ParentMessages
  <2>5. [i \in DOMAIN CasesOf[u] |-> Msg("case_status", CasesOf[u][i], "skipped")]
          \in [1 .. Len(CasesOf[u]) -> Progress]
    BY <2>3, <2>4
  <2>6. [i \in DOMAIN CasesOf[u] |-> Msg("case_status", CasesOf[u][i], "skipped")] \in Seq(Progress)
    BY <2>3, <2>5
  <2>7. skips(u) \in Seq(Progress)
    BY <2>1, <2>6
  <2> HIDE DEF skips, left
  <2> QED BY <2>1, <2>7
<1> HIDE DEF told
<1>4. SuiteOrder \in Seq(Suites)
  BY PathAssumption
<1>5. DOMAIN SuiteOrder = 1 .. Len(SuiteOrder) /\ Len(SuiteOrder) \in Nat
  BY <1>4
<1>6. \A i \in DOMAIN SuiteOrder : told(SuiteOrder[i]) \in Seq(Progress)
  BY <1>3, <1>4
<1>7. all \in [1 .. Len(SuiteOrder) -> Seq(Progress)]
  BY <1>5, <1>6
<1>8. all \in Seq(Seq(Progress))
  BY <1>5, <1>7
<1> HIDE DEF all
<1>9. FlattenSeq(all) \in Seq(Progress)
  BY <1>8, FlattenMembers
<1> QED BY <1>1, <1>2, <1>9, Closing

LEMMA PathTypedInitially == PathInit => PathTyped
<1> SUFFICES ASSUME PathInit PROVE PathTyped
  OBVIOUS
<1>1. outcome \in Outcome
  BY DEF PathInit, Outcome
<1>2. 1 \in Conns
  BY PathAssumption
<1>3. todo = Script /\ verdict = "none" /\ conn = 1 /\ wire = [k \in Conns |-> <<>>]
  BY DEF PathInit
<1>4. Script \in Seq(Messages) /\ Script # <<>> /\ Script[Len(Script)].kind = "execution_result"
  BY <1>1, ScriptSays DEF Result, Msg
<1> QED BY <1>1, <1>2, <1>3, <1>4 DEF PathTyped

LEMMA SendTyped == PathTyped /\ Send => PathTyped'
<1> SUFFICES ASSUME PathTyped, Send PROVE PathTyped'
  OBVIOUS
<1>1. todo \in Seq(Messages) /\ todo # <<>>
  BY DEF PathTyped, Send
<1>2. /\ Head(todo) \in Messages /\ Tail(todo) \in Seq(Messages)
      /\ Tail(todo) = <<>> => Head(todo) = todo[Len(todo)]
      /\ Tail(todo) # <<>> => Tail(todo)[Len(Tail(todo))] = todo[Len(todo)]
  BY <1>1, HeadTail
<1>3. Head(todo).kind = "execution_result" => Head(todo).status \in Verdicts
  BY <1>2, MessageKinds
<1>4. "none" \notin Verdicts
  BY Reportable DEF TerminalStates
<1>5. wire' \in [Conns -> Seq(Messages)]
  BY <1>2 DEF PathTyped, Send
<1>6. verdict' = IF Head(todo).kind = "execution_result" THEN Head(todo).status ELSE verdict
  BY DEF Send
<1>7. todo' = Tail(todo) /\ outcome' = outcome /\ conn' = conn
  BY DEF Send
<1>8. todo[Len(todo)].kind = "execution_result" /\ verdict \in Verdicts \cup {"none"}
  BY <1>1 DEF PathTyped
<1>9. todo' = <<>> => verdict' # "none"
  BY <1>2, <1>3, <1>4, <1>6, <1>7, <1>8, Zenon
<1>10. todo' # <<>> => todo'[Len(todo')].kind = "execution_result"
  BY <1>2, <1>7, <1>8, Zenon
<1> QED BY <1>2, <1>3, <1>5, <1>6, <1>7, <1>8, <1>9, <1>10 DEF PathTyped

LEMMA BreakTyped == PathTyped /\ Break => PathTyped'
<1> SUFFICES ASSUME PathTyped, Break PROVE PathTyped'
  OBVIOUS
<1>1. conn' \in Conns
  BY PathAssumption DEF PathTyped, Break
<1>2. PICK last \in {<<>>} \cup (IF todo = <<>> THEN {} ELSE {<<Head(todo)>>}) :
        \E arrives \in Halves(wire[conn] \o last) : wire' = [wire EXCEPT ![conn] = arrives]
  BY DEF Break
<1>3. PICK arrives \in Halves(wire[conn] \o last) : wire' = [wire EXCEPT ![conn] = arrives]
  BY <1>2
<1>4. last \in Seq(Messages)
  <2>1. todo # <<>> => Head(todo) \in Messages
    BY HeadTail DEF PathTyped
  <2>2. last = <<>> \/ (todo # <<>> /\ last = <<Head(todo)>>)
    BY <1>2
  <2>3. \A m \in Messages : <<m>> \in Seq(Messages)
    OBVIOUS
  <2>4. <<>> \in Seq(Messages)
    OBVIOUS
  <2> QED BY <2>1, <2>2, <2>3, <2>4, Zenon
<1>5. wire[conn] \o last \in Seq(Messages)
  BY <1>4 DEF PathTyped
<1>6. arrives \in Seq(Messages)
  BY <1>3, <1>5, Beginnings
<1>7. wire' \in [Conns -> Seq(Messages)]
  BY <1>3, <1>6 DEF PathTyped
<1>8. CASE todo = <<>>
  <2>1. verdict \in Verdicts
    BY <1>8 DEF PathTyped
  <2>2. todo' = <<Result(verdict)>> /\ Result(verdict) \in Messages /\ Result(verdict).kind = "execution_result"
    BY <1>8, <2>1 DEF Break, Messages, Result, Msg
  <2> QED BY <1>1, <1>7, <2>2 DEF PathTyped, Break
<1>9. CASE todo # <<>>
  BY <1>1, <1>7, <1>9 DEF PathTyped, Break
<1> QED BY <1>8, <1>9

LEMMA PathTypedStep == PathTyped /\ [PathNext]_<<vars, pathVars>> => PathTyped'
<1> SUFFICES ASSUME PathTyped, [PathNext]_<<vars, pathVars>> PROVE PathTyped'
  OBVIOUS
<1>1. CASE Send
  BY <1>1, SendTyped
<1>2. CASE Stop
  <2>1. todo' \in Seq(Messages) /\ todo' # <<>> /\ todo'[Len(todo')].kind = "execution_result"
    BY <1>2, ConvergeSays DEF Stop, Result, Msg
  <2> QED BY <1>2, <2>1 DEF PathTyped, Stop
<1>3. CASE Break
  BY <1>3, BreakTyped
<1>4. ASSUME NEW k \in Conns, Handle(k) PROVE PathTyped'
  BY <1>4 DEF PathTyped, Handle
<1>5. CASE UNCHANGED pathVars
  BY <1>5 DEF PathTyped, pathVars
<1>6. ASSUME NEW st \in TerminalStates, PathSettle(st) PROVE PathTyped'
  BY <1>6 DEF PathTyped, PathSettle
<1> QED BY <1>1, <1>2, <1>3, <1>4, <1>5, <1>6 DEF PathNext, pathVars

LEMMA PathTypedAlways == PathSpec => []PathTyped
BY PathTypedInitially, PathTypedStep, PTL DEF PathSpec

-----------------------------------------------------------------------------
\* A step of the path is a step of the rows, or leaves them alone.
LEMMA PathStepIsRowStep == PathTyped /\ [PathNext]_<<vars, pathVars>> => [Next]_vars
<1> SUFFICES ASSUME PathTyped, [PathNext]_<<vars, pathVars>> PROVE [Next]_vars
  OBVIOUS
<1>1. CASE Send \/ Stop \/ Break
  BY <1>1 DEF Send, Stop, Break
<1>2. ASSUME NEW k \in Conns, Handle(k) PROVE [Next]_vars
  <2> DEFINE m == Head(wire[k])
  <2>1. m \in Messages /\ read[k] = {}
    BY <1>2 DEF PathTyped, Handle
  <2>2. CASE m.kind = "suite_status"
    <3>1. ReadSuite(k, m.row, m.status)
      BY <1>2, <2>2 DEF Handle
    <3>2. m.row \in Suites /\ m.status \in ParentReports
      BY <2>1, <2>2, MessageKinds
    <3> HIDE DEF m
    <3> QED BY <3>1, <3>2 DEF Next, Message
  <2>3. CASE m.kind # "suite_status" /\ ~Accepting
    BY <1>2, <2>3 DEF Handle
  <2>4. CASE m.kind # "suite_status" /\ Accepting
    <3>1. Receives(k)
      BY <2>1, <2>4 DEF Receives
    <3>2. \/ m.kind = "node_started" /\ NodeStarted(m.row)
          \/ m.kind = "node_result" /\ NodeResult(m.row, m.status)
          \/ m.kind = "case_status" /\ CaseStatus(m.row, m.status)
          \/ m.kind = "execution_result" /\ ExecutionResult(m.status)
      BY <1>2, <2>4 DEF Handle
    <3> HIDE DEF m
    <3>3. \/ m.kind = "node_started" /\ m.row \in Nodes
          \/ m.kind = "node_result" /\ m.row \in Nodes /\ m.status \in LeafResults
          \/ m.kind = "case_status" /\ m.row \in Cases /\ m.status \in ParentReports
          \/ m.kind = "execution_result" /\ m.status \in Verdicts
      BY <2>1, <2>4, MessageKinds
    <3>4. Message(k)
      BY <3>1, <3>2, <3>3 DEF Message
    <3> QED BY <3>4 DEF Next
  <2> QED BY <2>2, <2>3, <2>4
<1>3. ASSUME NEW k \in Conns, WriteSuite(k) PROVE [Next]_vars
  BY <1>3 DEF Next, Message
<1>4. ASSUME NEW why \in {"user_stop", "timeout"}, RequestStop(why) PROVE [Next]_vars
  BY <1>4 DEF Next
<1>5. ASSUME NEW st \in TerminalStates, PathSettle(st) PROVE [Next]_vars
  BY <1>5 DEF PathSettle, Next
<1>6. CASE UNCHANGED vars
  BY <1>6
<1> QED BY <1>1, <1>2, <1>3, <1>4, <1>5, <1>6 DEF PathNext

\* The runner's messages, however they are lost, repeated and reordered, are
\* among the calls ResultRows allows, so what is proved of the rows under any
\* messages holds of them here (ws/routes.py hands each to its handler).
THEOREM PathIsRows == PathSpec => Spec
<1>1. PathInit => Init
  BY DEF PathInit
<1> QED BY <1>1, PathStepIsRowStep, PathTypedAlways, PTL DEF PathSpec, Spec

-----------------------------------------------------------------------------
(* An execution nobody stopped ends no better than what its runner ran.    *)

\* Nothing but the outcomes decides the script.
LEMMA OutcomesDecide ==
  ASSUME outcome' = outcome
  PROVE  /\ Overall' = Overall /\ Script' = Script /\ Seen' = Seen
         /\ \A u : SuiteVerdict(u)' = SuiteVerdict(u)
         /\ \A u, c : CaseVerdict(u, c)' = CaseVerdict(u, c)
<1>1. \A n : Blocks(n)' = Blocks(n)
  BY DEF Blocks
<1>2. \A nodes : Ran(nodes)' = Ran(nodes) /\ Halted(nodes)' = Halted(nodes)
  BY <1>1 DEF Ran, Halted
<1>3. \A nodes : Blocked(nodes)' = Blocked(nodes)
  BY <1>1, <1>2 DEF Blocked
<1>4. \A nodes : NodeMessages(nodes)' = NodeMessages(nodes) /\ Outcomes(nodes)' = Outcomes(nodes)
  BY DEF NodeMessages, Outcomes, Msg
<1>5. \A c : CaseRun(c)' = CaseRun(c)
  BY <1>2 DEF CaseRun
<1>6. \A u, c : CaseVerdict(u, c)' = CaseVerdict(u, c)
  BY <1>3, <1>4, <1>5 DEF CaseVerdict
<1>7. \A u : SuiteVerdict(u)' = SuiteVerdict(u)
  BY <1>2, <1>4, <1>6 DEF SuiteVerdict
<1>8. \A u, c : CaseMessages(u, c)' = CaseMessages(u, c)
  BY <1>3, <1>4, <1>5, <1>6 DEF CaseMessages, Msg
<1>9. \A u : SuiteMessages(u)' = SuiteMessages(u)
  BY <1>2, <1>4, <1>7, <1>8 DEF SuiteMessages, Msg
<1>10. Overall' = Overall
  BY <1>7 DEF Overall
<1>11. Script' = Script
  BY <1>9, <1>10 DEF Script, Result, Msg
<1>12. Seen' = Seen
  BY <1>11 DEF Seen, Msg
<1> QED BY <1>6, <1>7, <1>10, <1>11, <1>12

Covering == \A n \in Seen : AtLeast(exec, outcome[n])

\* As long as nobody asks for a stop, no other verdict than that of the script is
\* sent, and the execution runs or has ended no better.
PathInv ==
  reason = "none" =>
    /\ Says(todo, Overall)
    /\ \A k \in Conns : Says(wire[k], Overall)
    /\ verdict \in {"none", Overall}
    /\ exec = "running" \/ (exec \in TerminalStates \ {"cancelled"} /\ Covering)

\* The verdict of the agent and the settlement never take the place of a worse one.
LEMMA MergesWorsen ==
  ASSUME NEW st \in TerminalStates \ {"cancelled"}, NEW stored
  PROVE  /\ AtLeast(MergeTerminalStatus(st, stored), st)
         /\ AtLeast(MergeExecutionStatus(st, stored), st)
         /\ MergeExecutionStatus(st, stored) \in TerminalStates \ {"cancelled"}
<1>1. AtLeast(MergeTerminalStatus(st, stored), st)
  BY DEF MergeTerminalStatus, AggregateStatuses, AtLeast, AsStopped, Blocking, TerminalStates
<1>2. MergeExecutionStatus(st, stored) \in TerminalStates
  BY VerdictMerge
<1> DEFINE S == {AsStopped(st)} \cup (stored \cap Blocking)
<1>3. st \in S /\ MergeExecutionStatus(st, stored) = AggregateStatuses(S)
  BY DEF MergeExecutionStatus, AsStopped
<1>4. AtLeast(AggregateStatuses(S), st) /\ AggregateStatuses(S) \in Ranked
  BY <1>3, AggregateCovers
<1> QED BY <1>1, <1>2, <1>3, <1>4 DEF Ranked

LEMMA PathInvInitially == PathInit => PathInv
<1> SUFFICES ASSUME PathInit PROVE PathInv
  OBVIOUS
<1>1. outcome \in Outcome /\ todo = Script /\ verdict = "none" /\ exec = "running"
      /\ wire = [k \in Conns |-> <<>>]
  BY DEF PathInit, Outcome, Init
<1>2. Says(<<>>, Overall)
  BY DEF Says
<1> QED BY <1>1, <1>2, ScriptSays DEF PathInv

\* What is taken from what says one verdict says no other.
LEMMA SaysParts ==
  ASSUME NEW s \in Seq(Messages), NEW st, Says(s, st)
  PROVE  /\ s # <<>> => Says(Tail(s), st)
         /\ s # <<>> /\ Head(s).kind = "execution_result" => Head(s).status = st
         /\ \A m \in Messages : (m.kind = "execution_result" => m.status = st) => Says(Append(s, m), st)
         /\ \A t \in Halves(s) : Says(t, st)
<1>1. ASSUME s # <<>> PROVE Says(Tail(s), st)
  <2>1. /\ Tail(s) \in Seq(Messages) /\ Len(Tail(s)) = Len(s) - 1
        /\ \A i \in 1 .. Len(Tail(s)) : Tail(s)[i] = s[i + 1]
    BY <1>1, HeadTailProperties
  <2>2. DOMAIN s = 1 .. Len(s) /\ Len(s) \in Nat /\ DOMAIN Tail(s) = 1 .. Len(Tail(s))
    BY <2>1
  <2>3. \A i \in DOMAIN Tail(s) : i + 1 \in DOMAIN s /\ Tail(s)[i] = s[i + 1]
    BY <2>1, <2>2
  <2> QED BY <2>3 DEF Says
<1>2. ASSUME s # <<>>, Head(s).kind = "execution_result" PROVE Head(s).status = st
  <2>1. Head(s) = s[1] /\ 1 \in DOMAIN s
    BY <1>2
  <2> QED BY <1>2, <2>1 DEF Says
<1>3. ASSUME NEW m \in Messages, m.kind = "execution_result" => m.status = st
      PROVE  Says(Append(s, m), st)
  <2>1. \A i \in DOMAIN Append(s, m) : (i \in DOMAIN s /\ Append(s, m)[i] = s[i]) \/ Append(s, m)[i] = m
    OBVIOUS
  <2> QED BY <1>3, <2>1 DEF Says
<1>4. ASSUME NEW t \in Halves(s) PROVE Says(t, st)
  <2>1. PICK i \in 0 .. Len(s) : t = SubSeq(s, 1, i)
    BY DEF Halves
  <2>2. \A j \in DOMAIN t : j \in DOMAIN s /\ t[j] = s[j]
    BY <2>1
  <2> QED BY <2>2 DEF Says
<1> QED BY <1>1, <1>2, <1>3, <1>4

\* What PathInv says of the messages alone.
SaysOnly ==
  /\ Says(todo, Overall)
  /\ \A k \in Conns : Says(wire[k], Overall)
  /\ verdict \in {"none", Overall}

LEMMA SendSays == PathTyped /\ SaysOnly /\ Send => SaysOnly'
<1> SUFFICES ASSUME PathTyped, SaysOnly, Send PROVE SaysOnly'
  OBVIOUS
<1>1. todo \in Seq(Messages) /\ todo # <<>> /\ wire \in [Conns -> Seq(Messages)] /\ conn \in Conns
  BY DEF PathTyped, Send
<1>2. Overall' = Overall
  BY OutcomesDecide DEF Send
<1>3. /\ Says(Tail(todo), Overall)
      /\ Head(todo).kind = "execution_result" => Head(todo).status = Overall
  BY <1>1, SaysParts DEF SaysOnly
<1>4. Head(todo) \in Messages
  BY <1>1, HeadTail
<1>5. Says(Append(wire[conn], Head(todo)), Overall)
  BY <1>1, <1>3, <1>4, SaysParts DEF SaysOnly
<1>6. /\ todo' = Tail(todo) /\ wire' = [wire EXCEPT ![conn] = Append(@, Head(todo))]
      /\ verdict' = IF Head(todo).kind = "execution_result" THEN Head(todo).status ELSE verdict
  BY DEF Send
<1>7. \A k \in Conns : Says(wire'[k], Overall)
  BY <1>1, <1>5, <1>6 DEF SaysOnly
<1>8. verdict' \in {"none", Overall}
  BY <1>3, <1>6 DEF SaysOnly
<1>9. /\ Says(todo', Overall')
      /\ \A k \in Conns : Says(wire'[k], Overall')
      /\ verdict' \in {"none", Overall'}
  BY <1>2, <1>3, <1>6, <1>7, <1>8
<1> QED BY <1>9 DEF SaysOnly, Says

LEMMA BreakSays == PathTyped /\ SaysOnly /\ Break => SaysOnly'
<1> SUFFICES ASSUME PathTyped, SaysOnly, Break PROVE SaysOnly'
  OBVIOUS
<1>1. todo \in Seq(Messages) /\ wire \in [Conns -> Seq(Messages)] /\ conn \in Conns
  BY DEF PathTyped
<1>2. Overall' = Overall
  BY OutcomesDecide DEF Break
<1>3. PICK last \in {<<>>} \cup (IF todo = <<>> THEN {} ELSE {<<Head(todo)>>}) :
        \E arrives \in Halves(wire[conn] \o last) : wire' = [wire EXCEPT ![conn] = arrives]
  BY DEF Break
<1>4. PICK arrives \in Halves(wire[conn] \o last) : wire' = [wire EXCEPT ![conn] = arrives]
  BY <1>3
<1>5. wire[conn] \o last \in Seq(Messages) /\ Says(wire[conn] \o last, Overall)
  <2>1. wire[conn] \in Seq(Messages) /\ Says(wire[conn], Overall)
    BY <1>1 DEF SaysOnly
  <2>2. CASE last = <<>>
    BY <2>1, <2>2, ConcatEmptySeq
  <2>3. CASE todo # <<>> /\ last = <<Head(todo)>>
    <3>1. /\ Head(todo) \in Messages
          /\ Head(todo).kind = "execution_result" => Head(todo).status = Overall
      BY <1>1, <2>3, HeadTail, SaysParts DEF SaysOnly
    <3>2. wire[conn] \o <<Head(todo)>> = Append(wire[conn], Head(todo))
      BY <2>1, <3>1
    <3>3. Append(wire[conn], Head(todo)) \in Seq(Messages)
      BY <2>1, <3>1
    <3>4. Says(Append(wire[conn], Head(todo)), Overall)
      BY <2>1, <3>1, SaysParts
    <3> QED BY <2>3, <3>2, <3>3, <3>4
  <2> QED BY <1>3, <2>2, <2>3
<1>6. Says(arrives, Overall)
  BY <1>4, <1>5, SaysParts
<1>7. \A k \in Conns : Says(wire'[k], Overall)
  BY <1>1, <1>4, <1>6 DEF SaysOnly
<1>8. Says(todo', Overall)
  <2>1. CASE todo = <<>>
    <3>1. verdict = Overall
      BY <2>1 DEF PathTyped, SaysOnly
    <3>2. todo' = <<Result(Overall)>>
      BY <2>1, <3>1 DEF Break
    <3> QED BY <3>2 DEF Says, Result, Msg
  <2>2. CASE todo # <<>>
    BY <2>2 DEF Break, SaysOnly
  <2> QED BY <2>1, <2>2
<1>9. verdict' = verdict
  BY DEF Break
<1>10. /\ Says(todo', Overall')
       /\ \A k \in Conns : Says(wire'[k], Overall')
       /\ verdict' \in {"none", Overall'}
  BY <1>2, <1>7, <1>8, <1>9 DEF SaysOnly
<1> QED BY <1>10 DEF SaysOnly, Says

LEMMA HandleSays ==
  ASSUME PathTyped, SaysOnly, NEW k \in Conns, Handle(k)
  PROVE  SaysOnly'
<1>1. wire \in [Conns -> Seq(Messages)] /\ wire[k] # <<>>
  BY DEF PathTyped, Handle
<1>2. Overall' = Overall
  BY OutcomesDecide DEF Handle
<1>3. Says(Tail(wire[k]), Overall)
  BY <1>1, SaysParts DEF SaysOnly
<1>4. wire' = [wire EXCEPT ![k] = Tail(@)] /\ todo' = todo /\ verdict' = verdict
  BY DEF Handle
<1>5. \A j \in Conns : Says(wire'[j], Overall)
  BY <1>1, <1>3, <1>4 DEF SaysOnly
<1>6. /\ Says(todo', Overall')
      /\ \A j \in Conns : Says(wire'[j], Overall')
      /\ verdict' \in {"none", Overall'}
  BY <1>2, <1>4, <1>5 DEF SaysOnly
<1> QED BY <1>6 DEF SaysOnly, Says

\* Whatever touches no message.
LEMMA KeptSays ==
  ASSUME SaysOnly, UNCHANGED <<outcome, todo, verdict, wire>>
  PROVE  SaysOnly'
<1>1. Overall' = Overall
  BY OutcomesDecide
<1>2. /\ Says(todo', Overall')
      /\ \A j \in Conns : Says(wire'[j], Overall')
      /\ verdict' \in {"none", Overall'}
  BY <1>1 DEF SaysOnly
<1> QED BY <1>2 DEF SaysOnly, Says

\* How an execution that nobody stopped stands.
Stands == exec = "running" \/ (exec \in TerminalStates \ {"cancelled"} /\ Covering)

\* A verdict at least as bad as one that covers what ran.
LEMMA StandsWorse ==
  ASSUME outcome \in Outcome, outcome' = outcome, exec' \in TerminalStates \ {"cancelled"},
         NEW v \in Ranked, \A n \in Seen : AtLeast(v, outcome[n]), AtLeast(exec', v)
  PROVE  Stands'
<1>1. Seen' = Seen
  BY OutcomesDecide
<1>2. \A n \in Seen : AtLeast(exec', outcome[n])
  BY Worse
<1>3. \A n \in Seen' : AtLeast(exec', outcome'[n])
  BY <1>1, <1>2
<1> QED BY <1>3 DEF Stands, Covering, AtLeast

LEMMA KeptStands ==
  ASSUME Stands, UNCHANGED <<outcome, exec>>
  PROVE  Stands'
<1>1. Seen' = Seen
  BY OutcomesDecide
<1>2. Covering => \A n \in Seen' : AtLeast(exec', outcome'[n])
  BY <1>1 DEF Covering
<1> QED BY <1>2 DEF Stands, Covering, AtLeast

LEMMA HandleStands ==
  ASSUME PathTyped, SaysOnly, Stands, TypeOK, reason = "none", NEW k \in Conns, Handle(k)
  PROVE  Stands'
<1> DEFINE m == Head(wire[k])
<1>1. wire[k] \in Seq(Messages) /\ wire[k] # <<>> /\ Says(wire[k], Overall)
  BY DEF PathTyped, Handle, SaysOnly
<1>2. m \in Messages /\ (m.kind = "execution_result" => m.status = Overall)
  BY <1>1, HeadTail, SaysParts
<1>3. outcome' = outcome /\ outcome \in Outcome
  BY DEF Handle, PathTyped
<1>4. CASE m.kind # "execution_result" \/ ~Accepting
  <2>1. exec' = exec
    BY <1>4 DEF Handle, ReadSuite, NodeStarted, NodeResult, CaseStatus, vars
  <2> QED BY <1>3, <2>1, KeptStands
<1>5. CASE m.kind = "execution_result" /\ Accepting
  <2>1. ExecutionResult(m.status)
    BY <1>5 DEF Handle
  <2>2. exec = "running"
    BY <1>5 DEF Stands, Accepting, TypeOK, TerminalStates
  <2>3. exec' = MergeTerminalStatus(Overall, StoredTerminal)
    BY <1>2, <1>5, <2>1, <2>2 DEF ExecutionResult
  <2>4. Overall \in TerminalStates \ {"cancelled"} /\ Overall \in Ranked
    BY OverallVerdict DEF Ranked, TerminalStates
  <2>5. exec' \in TerminalStates \ {"cancelled"} /\ AtLeast(exec', Overall)
    BY <2>3, <2>4, AgentVerdict, MergesWorsen
  <2>6. \A n \in Seen : AtLeast(Overall, outcome[n])
    BY <1>3, ScriptSays
  <2> QED BY <1>3, <2>4, <2>5, <2>6, StandsWorse
<1> QED BY <1>4, <1>5

LEMMA SettleStands ==
  ASSUME PathTyped, Stands, TypeOK, reason = "none", NEW st \in TerminalStates, PathSettle(st)
  PROVE  Stands'
<1>1. outcome' = outcome /\ outcome \in Outcome
  BY DEF PathSettle, PathTyped
<1>2. st = "error" \/ (st = exec /\ exec \in TerminalStates)
  BY DEF PathSettle, Settle
<1>3. PICK stored : exec' = MergeExecutionStatus(st, stored)
  BY DEF PathSettle, Settle, MarkTerminal
<1>4. st \in TerminalStates \ {"cancelled"} /\ st \in Ranked
  BY <1>2 DEF Stands, TerminalStates, Ranked
<1>5. exec' \in TerminalStates \ {"cancelled"} /\ AtLeast(exec', st)
  BY <1>3, <1>4, MergesWorsen
<1>6. \A n \in Seen : AtLeast(st, outcome[n])
  <2>1. CASE st = "error"
    BY <2>1 DEF AtLeast, AggregateStatuses, AsStopped
  <2>2. CASE st = exec /\ exec \in TerminalStates
    BY <2>2 DEF Stands, Covering, TerminalStates
  <2> QED BY <1>2, <2>1, <2>2
<1> QED BY <1>1, <1>4, <1>5, <1>6, StandsWorse

LEMMA PathInvStep ==
  PathTyped /\ TypeOK /\ PathInv /\ [PathNext]_<<vars, pathVars>> => PathInv'
<1> SUFFICES ASSUME PathTyped, TypeOK, reason = "none" => SaysOnly /\ Stands,
                    [PathNext]_<<vars, pathVars>>, reason' = "none"
             PROVE  SaysOnly' /\ Stands'
  BY DEF PathInv, SaysOnly, Stands
<1>1. ASSUME reason = "none", Send \/ Break PROVE SaysOnly' /\ Stands'
  BY <1>1, SendSays, BreakSays, KeptStands DEF Send, Break, vars
<1>2. CASE Stop
  BY <1>2 DEF Stop, vars
<1>3. ASSUME NEW k \in Conns, Handle(k) PROVE SaysOnly' /\ Stands'
  <2>1. reason = "none"
    BY <1>3 DEF Handle, ReadSuite, NodeStarted, NodeResult, CaseStatus, ExecutionResult, vars
  <2> QED BY <1>3, <2>1, HandleSays, HandleStands
<1>4. ASSUME NEW k \in Conns, WriteSuite(k), UNCHANGED pathVars PROVE SaysOnly' /\ Stands'
  BY <1>4, KeptSays, KeptStands DEF WriteSuite, pathVars
<1>5. ASSUME NEW why \in {"user_stop", "timeout"}, RequestStop(why) PROVE FALSE
  BY <1>5 DEF RequestStop
<1>6. ASSUME NEW st \in TerminalStates, PathSettle(st) PROVE SaysOnly' /\ Stands'
  <2>1. reason = "none" /\ UNCHANGED <<outcome, todo, verdict, wire>>
    BY <1>6 DEF PathSettle, Settle, MarkTerminal
  <2> QED BY <1>6, <2>1, KeptSays, SettleStands
<1>7. CASE UNCHANGED <<vars, pathVars>>
  BY <1>7, KeptSays, KeptStands DEF vars, pathVars
<1>8. Send \/ Break => reason = "none"
  BY DEF Send, Break, vars
<1> QED BY <1>1, <1>2, <1>3, <1>4, <1>5, <1>6, <1>7, <1>8 DEF PathNext

\* However messages are lost, repeated or overtaken, an execution that nobody
\* stopped ends no better than any node its runner ran.
THEOREM EndsNoBetter == PathSpec => []NeverBetter
<1>1. PathSpec => []TypeOK
  BY PathIsRows, RowsTyped, PTL
<1>2. PathSpec => []PathInv
  BY <1>1, PathInvInitially, PathInvStep, PathTypedAlways, PTL DEF PathSpec
<1>3. TypeOK /\ PathInv => NeverBetter
  BY DEF TypeOK, PathInv, NeverBetter, Covering, TerminalStates
<1> QED BY <1>1, <1>2, <1>3, PTL
-----------------------------------------------------------------------------
(* When nothing was lost, the rows are what the runner saw.                *)

\* What the runner may say of a suite or case it was let finish.
Told == {"passed", "failed", "error", "skipped"}

\* A row that is open, has the verdict v, or fails where v is an error.
Fits(cur, v) == cur \in Open \cup {v} \/ (cur = "failed" /\ v = "error")

\* A report of the row's own verdict gives it that verdict, one that it runs
\* takes it no further from it.
LEMMA FitsReport ==
  ASSUME NEW v \in Told, NEW cur, Fits(cur, v)
  PROVE  /\ Reported(cur, v) = v
         /\ Fits(Reported(cur, "running"), v)
         /\ cur = v => Reported(cur, "running") = v
<1>1. v \in Ended /\ v # "running" /\ v # "cancelled"
  BY DEF Told, Ended, TerminalStates
<1>2. CASE cur \in Open
  <2>1. cur \notin Ended
    BY <1>2 DEF Open, Ended, TerminalStates
  <2> QED BY <1>1, <1>2, <2>1 DEF Reported, Fits, Open
<1>3. CASE cur = v
  <2>1. MergeRuntimeStatus(v, v) = v
    BY DEF MergeRuntimeStatus, Told, Ended, TerminalStates, AggregateStatuses, AsStopped
  <2> QED BY <1>1, <1>3, <2>1 DEF Reported, Fits
<1>4. CASE cur = "failed" /\ v = "error"
  <2>1. MergeRuntimeStatus("failed", "error") = "error"
    BY DEF MergeRuntimeStatus, Ended, TerminalStates, AggregateStatuses, AsStopped
  <2> QED BY <1>1, <1>4, <2>1 DEF Reported, Fits, Ended, TerminalStates
<1> QED BY <1>2, <1>3, <1>4 DEF Fits

\* So does what is below the row, as long as the verdict covers it.
LEMMA FitsMerge ==
  ASSUME NEW v \in Told, NEW cur, Fits(cur, v),
         NEW inc, inc = "running" \/ (inc \in {"failed", "error"} /\ Fits(inc, v))
  PROVE  /\ Fits(MergeRuntimeStatus(cur, inc), v)
         /\ cur = v => MergeRuntimeStatus(cur, inc) = v
<1>1. CASE cur \in Open /\ inc = "running"
  BY <1>1 DEF MergeRuntimeStatus, Open, Fits, Ended, TerminalStates, Told
<1>2. CASE cur \in Open /\ inc \in {"failed", "error"} /\ Fits(inc, v)
  <2>1. MergeRuntimeStatus(cur, inc) = inc
    BY <1>2 DEF MergeRuntimeStatus, Open, Ended, TerminalStates, AggregateStatuses, AsStopped
  <2>2. cur # v
    BY <1>2 DEF Open, Told
  <2> QED BY <1>2, <2>1, <2>2
<1>3. CASE cur = v /\ inc = "running"
  BY <1>3 DEF MergeRuntimeStatus, Fits, Told, Ended, TerminalStates, AggregateStatuses, AsStopped
<1>4. CASE cur = v /\ inc \in {"failed", "error"} /\ Fits(inc, v)
  <2>1. v = inc \/ (inc = "failed" /\ v = "error")
    BY <1>4 DEF Fits, Open
  <2>2. MergeRuntimeStatus(v, inc) = v
    BY <1>4, <2>1 DEF MergeRuntimeStatus, Ended, TerminalStates, AggregateStatuses, AsStopped
  <2> QED BY <1>4, <2>2 DEF Fits
<1>5. CASE cur = "failed" /\ v = "error" /\ (inc = "running" \/ inc \in {"failed", "error"})
  <2>1. MergeRuntimeStatus(cur, inc) \in {"failed", "error"}
    BY <1>5 DEF MergeRuntimeStatus, Ended, TerminalStates, AggregateStatuses, AsStopped
  <2> QED BY <1>5, <2>1 DEF Fits
<1> QED BY <1>1, <1>2, <1>3, <1>4, <1>5 DEF Fits

\* A node takes its outcome, however often it is told.
LEMMA NodeMerge ==
  ASSUME NEW o \in {"passed", "failed", "error"}, NEW cur \in Open \cup {o}
  PROVE  MergeStepStatus(cur, o) = o
BY DEF MergeStepStatus, Open, Ended, TerminalStates, AggregateStatuses, AsStopped

\* What a verdict covers and is a failure itself fits it.
LEMMA CoveredFits ==
  ASSUME NEW v \in Told, NEW x \in {"failed", "error"}, AtLeast(v, x)
  PROVE  Fits(x, v)
BY DEF AtLeast, Blocking, AggregateStatuses, AsStopped, Fits, Told

\* The runner's verdicts are aggregates of its outcomes and verdicts.
LEMMA AggregateTold ==
  ASSUME NEW S \in SUBSET Told
  PROVE  AggregateStatuses(S) \in Told
BY DEF AggregateStatuses, AsStopped, Told

-----------------------------------------------------------------------------
(* What the script tells, as a set of messages.                            *)

\* The beginning of a phase that is run, and what it leaves out.
LEMMA RanPart ==
  ASSUME NEW nodes \in Seq(Nodes)
  PROVE  /\ ToSet(Ran(nodes)) \subseteq ToSet(nodes)
         /\ ToSet(Ran(nodes)) # ToSet(nodes) => \E i \in DOMAIN Ran(nodes) : Blocks(Ran(nodes)[i])
<1> DEFINE halts == {i \in DOMAIN nodes : Blocks(nodes[i]) /\ nodes[i] \notin Lenient}
<1>1. CASE halts = {}
  BY <1>1 DEF Ran
<1>2. CASE halts # {}
  <2>1. halts \in SUBSET Nat /\ halts \subseteq 1 .. Len(nodes)
    OBVIOUS
  <2>2. Ran(nodes) = SubSeq(nodes, 1, Min(halts))
    BY <1>2 DEF Ran
  <2>3. Min(halts) \in halts
    <3> HIDE DEF halts
    <3> QED BY <1>2, <2>1, NatLeast DEF Min
  <2>4. Min(halts) \in 1 .. Len(nodes) /\ Blocks(nodes[Min(halts)])
    BY <2>3
  <2> HIDE DEF halts
  <2>5. ASSUME NEW k \in 1 .. Len(nodes)
        PROVE  /\ DOMAIN SubSeq(nodes, 1, k) = 1 .. k
               /\ \A i \in 1 .. k : SubSeq(nodes, 1, k)[i] = nodes[i] /\ i \in DOMAIN nodes
    BY <2>5
  <2>6. /\ DOMAIN Ran(nodes) = 1 .. Min(halts)
        /\ \A i \in 1 .. Min(halts) : Ran(nodes)[i] = nodes[i] /\ i \in DOMAIN nodes
    BY <2>2, <2>4, <2>5
  <2>7. Min(halts) \in 1 .. Min(halts)
    BY <2>4
  <2>8. ToSet(Ran(nodes)) \subseteq ToSet(nodes)
    BY <2>6 DEF ToSet
  <2> QED BY <2>4, <2>6, <2>7, <2>8
<1> QED BY <1>1, <1>2

\* The phases the runner walks through are sequences of nodes and cases.
LEMMA PhasesTyped ==
  /\ \A u \in Suites : /\ SetupOf[u] \in Seq(Nodes) /\ TeardownOf[u] \in Seq(Nodes)
                       /\ Ran(SetupOf[u]) \in Seq(Nodes) /\ Ran(TeardownOf[u]) \in Seq(Nodes)
                       /\ CasesOf[u] \in Seq(Cases)
  /\ \A c \in Cases : /\ SetupOf[c] \in Seq(Nodes) /\ MainOf[c] \in Seq(Nodes)
                      /\ TeardownOf[c] \in Seq(Nodes)
BY PathAssumption, RanNodes DEF Parents

\* What is told of nodes that are run, of a case and of a suite.
NodeTold(nodes) ==
  {Msg("node_started", n, "running") : n \in ToSet(nodes)}
    \cup {Msg("node_result", n, outcome[n]) : n \in ToSet(nodes)}

CaseTold(u, c) ==
  IF Blocked(SetupOf[u]) THEN {Msg("case_status", c, "skipped")}
  ELSE {Msg("case_status", c, "running"), Msg("case_status", c, CaseVerdict(u, c))}
         \cup NodeTold(CaseRun(c))

SuiteTold(u) ==
  {Msg("suite_status", u, "running"), Msg("suite_status", u, SuiteVerdict(u))}
    \cup NodeTold(Ran(SetupOf[u])) \cup NodeTold(Ran(TeardownOf[u]))
    \cup (UNION {CaseTold(u, c) : c \in ToSet(CasesOf[u])})

\* The messages of a phase are what is told of its nodes,
LEMMA NodesTold ==
  ASSUME outcome \in Outcome, NEW nodes \in Seq(Nodes)
  PROVE  ToSet(NodeMessages(nodes)) = NodeTold(nodes)
<1> DEFINE pair(n) == <<Msg("node_started", n, "running"), Msg("node_result", n, outcome[n])>>
           pairs == [i \in DOMAIN nodes |-> pair(nodes[i])]
<1>1. \A n \in Nodes : pair(n) \in Seq(Progress)
  BY Reportable DEF Outcome, Progress, LeafMessages, Ranked
<1>2. \A n : ToSet(pair(n)) = {Msg("node_started", n, "running"), Msg("node_result", n, outcome[n])}
  BY DEF ToSet
<1>3. NodeMessages(nodes) = FlattenSeq(pairs)
  BY DEF NodeMessages
<1> HIDE DEF pair
<1>4. pairs \in Seq(Seq(Progress)) /\ DOMAIN pairs = DOMAIN nodes
  <2>1. DOMAIN nodes = 1 .. Len(nodes) /\ Len(nodes) \in Nat
    OBVIOUS
  <2>2. pairs \in [1 .. Len(nodes) -> Seq(Progress)]
    BY <1>1, <2>1
  <2> QED BY <2>1, <2>2
<1>5. \A i \in DOMAIN nodes : nodes[i] \in Nodes /\ nodes[i] \in ToSet(nodes) /\ pairs[i] = pair(nodes[i])
  BY DEF ToSet
<1>6. \A n \in ToSet(nodes) : n \in Nodes /\ \E i \in DOMAIN nodes : nodes[i] = n
  BY DEF ToSet
<1> HIDE DEF pairs
<1>7. /\ FlattenSeq(pairs) \in Seq(Progress)
      /\ \A m \in Progress : m \in ToSet(FlattenSeq(pairs)) <=> \E i \in DOMAIN pairs : m \in ToSet(pairs[i])
  BY <1>4, FlattenMembers
<1>8. ToSet(FlattenSeq(pairs)) \subseteq Progress
  BY <1>7 DEF ToSet
<1>9. ASSUME NEW m \in ToSet(FlattenSeq(pairs)) PROVE m \in NodeTold(nodes)
  <2>1. PICK i \in DOMAIN pairs : m \in ToSet(pairs[i])
    BY <1>7, <1>8, <1>9
  <2> QED BY <1>2, <1>4, <1>5, <2>1 DEF NodeTold
<1>10. ASSUME NEW m \in NodeTold(nodes) PROVE m \in ToSet(FlattenSeq(pairs))
  <2>1. PICK n \in ToSet(nodes) : m \in ToSet(pair(n))
    BY <1>2, <1>10 DEF NodeTold
  <2>2. PICK i \in DOMAIN nodes : nodes[i] = n /\ n \in Nodes
    BY <1>6
  <2>3. m \in Progress
    BY <1>1, <2>1, <2>2 DEF ToSet
  <2> QED BY <1>4, <1>5, <1>7, <2>1, <2>2, <2>3
<1> QED BY <1>3, <1>9, <1>10

\* those of a case what is told of the case,
LEMMA CasesTold ==
  ASSUME outcome \in Outcome, NEW u \in Suites, NEW c \in Cases
  PROVE  ToSet(CaseMessages(u, c)) = CaseTold(u, c)
<1> DEFINE told(st) == <<Msg("case_status", c, st)>>
<1>1. \A st \in ParentReports : told(st) \in Seq(Progress)
  BY DEF Progress, ParentMessages
<1>2. \A st : ToSet(told(st)) = {Msg("case_status", c, st)}
  BY DEF ToSet
<1>3. CaseVerdict(u, c) \in ParentReports /\ "running" \in ParentReports
  BY RunVerdicts, Reportable DEF Ranked
<1>4. CASE Blocked(SetupOf[u])
  BY <1>2, <1>4 DEF CaseMessages, CaseTold
<1>5. CASE ~Blocked(SetupOf[u])
  <2> DEFINE said == NodeMessages(CaseRun(c))
             s == told("running") \o said
             t == told(CaseVerdict(u, c))
  <2>1. CaseMessages(u, c) = s \o t
    BY <1>5 DEF CaseMessages
  <2>2. said \in Seq(Progress) /\ ToSet(said) = NodeTold(CaseRun(c))
    BY CaseNodes, NodesSaid, NodesTold
  <2>3. CaseTold(u, c) = ({Msg("case_status", c, "running")} \cup NodeTold(CaseRun(c)))
                           \cup {Msg("case_status", c, CaseVerdict(u, c))}
    BY <1>5 DEF CaseTold
  <2>4. ToSet(told("running")) = {Msg("case_status", c, "running")}
        /\ ToSet(t) = {Msg("case_status", c, CaseVerdict(u, c))}
    BY <1>2
  <2>5. told("running") \in Seq(Progress) /\ t \in Seq(Progress)
    BY <1>1, <1>3
  <2> HIDE DEF told, said, t
  <2>6. s \in Seq(Progress) /\ ToSet(s) = ToSet(told("running")) \cup ToSet(said)
    BY <2>2, <2>5, ConcatMembers
  <2> HIDE DEF s
  <2>7. ToSet(s \o t) = ToSet(s) \cup ToSet(t)
    BY <2>5, <2>6, ConcatMembers
  <2> QED BY <2>1, <2>2, <2>3, <2>4, <2>6, <2>7
<1> QED BY <1>4, <1>5

\* and those of a suite what is told of the suite.
LEMMA SuitesTold ==
  ASSUME outcome \in Outcome, NEW u \in Suites
  PROVE  ToSet(SuiteMessages(u)) = SuiteTold(u)
<1> DEFINE told(st) == <<Msg("suite_status", u, st)>>
           before == NodeMessages(Ran(SetupOf[u]))
           after  == NodeMessages(Ran(TeardownOf[u]))
           cases  == [i \in DOMAIN CasesOf[u] |-> CaseMessages(u, CasesOf[u][i])]
           middle == FlattenSeq(cases)
           inner  == UNION {CaseTold(u, c) : c \in ToSet(CasesOf[u])}
<1>1. \A st \in ParentReports : told(st) \in Seq(Progress)
  BY DEF Progress, ParentMessages
<1>2. \A st : ToSet(told(st)) = {Msg("suite_status", u, st)}
  BY DEF ToSet
<1>3. SuiteVerdict(u) \in ParentReports /\ "running" \in ParentReports
  BY RunVerdicts, Reportable DEF Ranked
<1>4. before \in Seq(Progress) /\ ToSet(before) = NodeTold(Ran(SetupOf[u]))
  BY PhasesTyped, NodesSaid, NodesTold
<1>5. after \in Seq(Progress) /\ ToSet(after) = NodeTold(Ran(TeardownOf[u]))
  BY PhasesTyped, NodesSaid, NodesTold
<1>6. middle \in Seq(Progress) /\ ToSet(middle) = inner
  <2>1. CasesOf[u] \in Seq(Cases)
    BY PhasesTyped
  <2>2. DOMAIN CasesOf[u] = 1 .. Len(CasesOf[u]) /\ Len(CasesOf[u]) \in Nat
    BY <2>1
  <2>3. \A i \in DOMAIN CasesOf[u] : CasesOf[u][i] \in Cases
    BY <2>1
  <2>4. \A i \in DOMAIN CasesOf[u] : cases[i] \in Seq(Progress) /\ ToSet(cases[i]) = CaseTold(u, CasesOf[u][i])
    BY <2>3, CaseSaid, CasesTold
  <2>5. cases \in [1 .. Len(CasesOf[u]) -> Seq(Progress)]
    BY <2>2, <2>4
  <2>6. cases \in Seq(Seq(Progress)) /\ DOMAIN cases = DOMAIN CasesOf[u]
    BY <2>2, <2>5
  <2> HIDE DEF cases
  <2>7. /\ middle \in Seq(Progress)
        /\ \A m \in Progress : m \in ToSet(middle) <=> \E i \in DOMAIN cases : m \in ToSet(cases[i])
    BY <2>6, FlattenMembers
  <2>8. ToSet(middle) \subseteq Progress
    BY <2>7 DEF ToSet
  <2>9. \A i \in DOMAIN cases : ToSet(cases[i]) \subseteq Progress
    BY <2>4, <2>6 DEF ToSet
  <2>10. ASSUME NEW m \in ToSet(middle) PROVE m \in inner
    <3>1. PICK i \in DOMAIN cases : m \in ToSet(cases[i])
      BY <2>7, <2>8
    <3>2. CasesOf[u][i] \in ToSet(CasesOf[u])
      BY <2>6, <3>1 DEF ToSet
    <3> QED BY <2>4, <2>6, <3>1, <3>2
  <2>11. ASSUME NEW m \in inner PROVE m \in ToSet(middle)
    <3>1. PICK c \in ToSet(CasesOf[u]) : m \in CaseTold(u, c)
      OBVIOUS
    <3>2. PICK i \in DOMAIN CasesOf[u] : CasesOf[u][i] = c
      BY DEF ToSet
    <3>3. m \in ToSet(cases[i])
      BY <2>4, <3>1, <3>2
    <3> QED BY <2>6, <2>7, <2>9, <3>2, <3>3
  <2> QED BY <2>7, <2>10, <2>11
<1>7. SuiteMessages(u) = told("running") \o before \o middle \o after \o told(SuiteVerdict(u))
  BY DEF SuiteMessages
<1>8. SuiteTold(u) = ToSet(told("running")) \cup ToSet(before) \cup ToSet(middle) \cup ToSet(after) \cup ToSet(told(SuiteVerdict(u)))
  <2>1. SuiteTold(u) = {Msg("suite_status", u, "running"), Msg("suite_status", u, SuiteVerdict(u))}
                         \cup NodeTold(Ran(SetupOf[u])) \cup NodeTold(Ran(TeardownOf[u])) \cup inner
    BY DEF SuiteTold
  <2>2. /\ ToSet(told("running")) = {Msg("suite_status", u, "running")}
        /\ ToSet(told(SuiteVerdict(u))) = {Msg("suite_status", u, SuiteVerdict(u))}
    BY <1>2
  <2> HIDE DEF told, before, after, middle, inner
  <2> QED BY <1>4, <1>5, <1>6, <2>1, <2>2
<1>9. told("running") \in Seq(Progress) /\ told(SuiteVerdict(u)) \in Seq(Progress)
  BY <1>1, <1>3
<1> HIDE DEF told, before, after, middle
<1> DEFINE s1 == told("running") \o before
           s2 == s1 \o middle
           s3 == s2 \o after
<1>10. s1 \in Seq(Progress) /\ ToSet(s1) = ToSet(told("running")) \cup ToSet(before)
  BY <1>4, <1>9, ConcatMembers
<1> HIDE DEF s1
<1>11. s2 \in Seq(Progress) /\ ToSet(s2) = ToSet(s1) \cup ToSet(middle)
  BY <1>6, <1>10, ConcatMembers
<1> HIDE DEF s2
<1>12. s3 \in Seq(Progress) /\ ToSet(s3) = ToSet(s2) \cup ToSet(after)
  BY <1>5, <1>11, ConcatMembers
<1>13. SuiteMessages(u) = s3 \o told(SuiteVerdict(u))
  BY <1>7 DEF s1, s2
<1> HIDE DEF s3
<1>14. ToSet(s3 \o told(SuiteVerdict(u))) = ToSet(s3) \cup ToSet(told(SuiteVerdict(u)))
  BY <1>9, <1>12, ConcatMembers
<1> QED BY <1>8, <1>10, <1>11, <1>12, <1>13, <1>14

\* The script tells of each suite once and ends with the verdict of them all.
LEMMA ScriptTold ==
  ASSUME outcome \in Outcome
  PROVE  /\ \A m : m \in ToSet(Script) <=> m = Result(Overall) \/ \E u \in Suites : m \in SuiteTold(u)
         /\ \A i \in DOMAIN Script : Script[i].kind = "execution_result" => i = Len(Script)
<1> DEFINE suites == [i \in DOMAIN SuiteOrder |-> SuiteMessages(SuiteOrder[i])]
           told == FlattenSeq(suites)
<1>1. SuiteOrder \in Seq(Suites)
  BY PathAssumption
<1>2. DOMAIN SuiteOrder = 1 .. Len(SuiteOrder) /\ Len(SuiteOrder) \in Nat
  BY <1>1
<1>3. \A i \in DOMAIN SuiteOrder : SuiteOrder[i] \in Suites
  BY <1>1
<1>4. \A i \in DOMAIN SuiteOrder : suites[i] \in Seq(Progress) /\ ToSet(suites[i]) = SuiteTold(SuiteOrder[i])
  BY <1>3, SuiteSaid, SuitesTold
<1>5. suites \in [1 .. Len(SuiteOrder) -> Seq(Progress)]
  BY <1>2, <1>4
<1>6. suites \in Seq(Seq(Progress)) /\ DOMAIN suites = DOMAIN SuiteOrder
  BY <1>2, <1>5
<1>7. Script = told \o <<Result(Overall)>>
  BY DEF Script
<1> HIDE DEF suites
<1>8. /\ told \in Seq(Progress)
      /\ \A m \in Progress : m \in ToSet(told) <=> \E i \in DOMAIN suites : m \in ToSet(suites[i])
  BY <1>6, FlattenMembers
<1>9. ToSet(told) \subseteq Progress /\ \A i \in DOMAIN suites : ToSet(suites[i]) \subseteq Progress
  BY <1>4, <1>6, <1>8 DEF ToSet
<1>10. \A m : m \in ToSet(told) <=> \E u \in Suites : m \in SuiteTold(u)
  <2>1. ASSUME NEW m \in ToSet(told) PROVE \E u \in Suites : m \in SuiteTold(u)
    <3> HIDE DEF told
    <3>1. PICK i \in DOMAIN suites : m \in ToSet(suites[i])
      BY <1>8, <1>9, <2>1
    <3> QED BY <1>3, <1>4, <1>6, <3>1
  <2>2. ASSUME NEW m, NEW u \in Suites, m \in SuiteTold(u) PROVE m \in ToSet(told)
    <3>1. PICK i \in DOMAIN SuiteOrder : SuiteOrder[i] = u
      BY WalkAssumption DEF ToSet
    <3>2. i \in DOMAIN suites /\ m \in ToSet(suites[i])
      BY <1>4, <1>6, <2>2, <3>1
    <3> HIDE DEF told
    <3> QED BY <1>8, <1>9, <3>2
  <2> QED BY <2>1, <2>2
<1>11. Progress \subseteq Messages /\ Result(Overall) \in Messages
  BY OverallVerdict, Reportable DEF Messages
<1> HIDE DEF told
<1>12. ToSet(Script) = ToSet(told) \cup {Result(Overall)}
  <2>1. told \in Seq(Messages) /\ <<Result(Overall)>> \in Seq(Messages)
    BY <1>8, <1>11
  <2>2. ToSet(<<Result(Overall)>>) = {Result(Overall)}
    BY DEF ToSet
  <2>3. ToSet(told \o <<Result(Overall)>>) = ToSet(told) \cup ToSet(<<Result(Overall)>>)
    BY <2>1, ConcatMembers
  <2> QED BY <1>7, <2>2, <2>3
<1>13. \A m \in Progress : m.kind # "execution_result"
  BY DEF Progress, LeafMessages, ParentMessages, Msg
<1>14. ASSUME NEW i \in DOMAIN Script, Script[i].kind = "execution_result" PROVE i = Len(Script)
  <2>1. Len(Script) = Len(told) + 1 /\ DOMAIN Script = 1 .. Len(Script) /\ Len(told) \in Nat
    BY <1>7, <1>8
  <2>2. \A j \in 1 .. Len(told) : Script[j] = told[j] /\ told[j] \in Progress
    BY <1>7, <1>8
  <2> QED BY <1>13, <1>14, <2>1, <2>2
<1> QED BY <1>10, <1>12, <1>14

\* The verdict the runner has of a suite or case.
RowVerdict(r) == IF r \in Cases THEN CaseVerdict(SuiteOf[r], r) ELSE SuiteVerdict(r)

\* The outcomes of a phase, as those of a set of nodes.
LEMMA OutcomesOfNodes ==
  ASSUME outcome \in Outcome, NEW nodes \in Seq(Nodes)
  PROVE  /\ Outcomes(nodes) = {outcome[n] : n \in ToSet(nodes)}
         /\ Outcomes(nodes) \subseteq {"passed", "failed", "error"}
         /\ ToSet(nodes) \subseteq Nodes
BY DEF Outcomes, ToSet, Outcome

\* The nodes of a case's run are the case's own.
LEMMA CaseRunPart ==
  ASSUME NEW c \in Cases
  PROVE  /\ CaseRun(c) \in Seq(Nodes)
         /\ \A n \in ToSet(CaseRun(c)) : n \in Nodes /\ ParentOf[n] = c
<1>1. /\ SetupOf[c] \in Seq(Nodes) /\ MainOf[c] \in Seq(Nodes) /\ TeardownOf[c] \in Seq(Nodes)
  BY PhasesTyped
<1>2. /\ Ran(SetupOf[c]) \in Seq(Nodes) /\ Ran(MainOf[c]) \in Seq(Nodes)
      /\ Ran(TeardownOf[c]) \in Seq(Nodes)
  BY <1>1, RanNodes
<1> DEFINE main == IF Halted(SetupOf[c]) THEN <<>> ELSE Ran(MainOf[c])
<1>3. main \in Seq(Nodes) /\ ToSet(main) \subseteq ToSet(Ran(MainOf[c]))
  <2>1. <<>> \in Seq(Nodes) /\ ToSet(<<>>) = {}
    BY DEF ToSet
  <2> QED BY <1>2, <2>1
<1>4. CaseRun(c) = Ran(SetupOf[c]) \o main \o Ran(TeardownOf[c])
  BY DEF CaseRun
<1> HIDE DEF main
<1>5. /\ Ran(SetupOf[c]) \o main \in Seq(Nodes)
      /\ ToSet(Ran(SetupOf[c]) \o main) = ToSet(Ran(SetupOf[c])) \cup ToSet(main)
  BY <1>2, <1>3, ConcatMembers
<1> DEFINE s == Ran(SetupOf[c]) \o main
<1> HIDE DEF s
<1>6. s \in Seq(Nodes) /\ ToSet(s) = ToSet(Ran(SetupOf[c])) \cup ToSet(main) /\ CaseRun(c) = s \o Ran(TeardownOf[c])
  BY <1>4, <1>5 DEF s
<1>7. CaseRun(c) \in Seq(Nodes) /\ ToSet(CaseRun(c)) = ToSet(s) \cup ToSet(Ran(TeardownOf[c]))
  BY <1>2, <1>6, ConcatMembers
<1>8. ToSet(CaseRun(c)) \subseteq ToSet(SetupOf[c]) \cup ToSet(MainOf[c]) \cup ToSet(TeardownOf[c])
  BY <1>1, <1>3, <1>6, <1>7, RanPart
<1>9. ToSet(SetupOf[c]) \cup ToSet(TeardownOf[c]) \cup ToSet(MainOf[c]) = {n \in Nodes : ParentOf[n] = c}
  BY WalkAssumption DEF Parents
<1> QED BY <1>7, <1>8, <1>9

\* The nodes of a suite's phases are the suite's own.
LEMMA SuiteRunPart ==
  ASSUME NEW u \in Suites
  PROVE  /\ ToSet(SetupOf[u]) \cup ToSet(TeardownOf[u]) = {n \in Nodes : ParentOf[n] = u}
         /\ \A n \in ToSet(Ran(SetupOf[u])) \cup ToSet(Ran(TeardownOf[u])) : n \in Nodes /\ ParentOf[n] = u
<1>1. u \in Parents /\ u \notin Cases
  BY LayoutAssumption DEF Parents
<1>2. ToSet(SetupOf[u]) \cup ToSet(TeardownOf[u]) = {n \in Nodes : ParentOf[n] = u}
  BY <1>1, WalkAssumption
<1>3. /\ ToSet(Ran(SetupOf[u])) \subseteq ToSet(SetupOf[u])
      /\ ToSet(Ran(TeardownOf[u])) \subseteq ToSet(TeardownOf[u])
  BY PhasesTyped, RanPart
<1> QED BY <1>2, <1>3

\* The cases a suite is walked through with are its rows' cases.
LEMMA SuiteCases ==
  /\ \A u \in Suites : \A c \in ToSet(CasesOf[u]) : c \in Cases /\ SuiteOf[c] = u
  /\ \A c \in Cases : SuiteOf[c] \in Suites /\ c \in ToSet(CasesOf[SuiteOf[c]])
  /\ \A u \in Suites : u \notin Cases /\ RowVerdict(u) = SuiteVerdict(u)
  /\ \A u \in Suites : \A c \in ToSet(CasesOf[u]) : RowVerdict(c) = CaseVerdict(u, c)
BY WalkAssumption, LayoutAssumption DEF RowVerdict

\* Where a node the runner got to is run.
RunInSuite(u, n) == n \in ToSet(Ran(SetupOf[u])) \cup ToSet(Ran(TeardownOf[u]))
RunInCase(u, c, n) == c \in ToSet(CasesOf[u]) /\ ~Blocked(SetupOf[u]) /\ n \in ToSet(CaseRun(c))

\* The runner gets to the nodes of the phases it runs, and to no others.
LEMMA SeenWhere ==
  ASSUME outcome \in Outcome, NEW n \in Nodes
  PROVE  n \in Seen <=> \E u \in Suites : RunInSuite(u, n) \/ \E c \in Cases : RunInCase(u, c, n)
<1> DEFINE m == Msg("node_result", n, outcome[n])
<1>1. \A nodes : m \in NodeTold(nodes) <=> n \in ToSet(nodes)
  BY DEF NodeTold, Msg
<1>2. \A k, r, st : k # "node_result" => m # Msg(k, r, st)
  BY DEF Msg
<1>3. \A u, c : m \in CaseTold(u, c) <=> ~Blocked(SetupOf[u]) /\ n \in ToSet(CaseRun(c))
  BY <1>1, <1>2 DEF CaseTold
<1>4. m # Result(Overall)
  BY <1>2 DEF Result
<1>5. n \in Seen <=> m \in ToSet(Script)
  BY DEF Seen
<1> HIDE DEF m
<1>6. \A u : m \in SuiteTold(u) <=> RunInSuite(u, n) \/ \E c \in ToSet(CasesOf[u]) : m \in CaseTold(u, c)
  BY <1>1, <1>2 DEF SuiteTold, RunInSuite
<1>7. \A u \in Suites : m \in SuiteTold(u) <=> RunInSuite(u, n) \/ \E c \in Cases : RunInCase(u, c, n)
  BY <1>3, <1>6, SuiteCases DEF RunInCase
<1>8. m \in ToSet(Script) <=> \E u \in Suites : m \in SuiteTold(u)
  BY <1>4, ScriptTold
<1> QED BY <1>5, <1>7, <1>8

\* Each message of the script tells what the runner knows.
LEMMA ScriptTruth ==
  ASSUME outcome \in Outcome, NEW m \in ToSet(Script)
  PROVE  \/ m.kind = "node_started" /\ m.row \in Seen
         \/ m.kind = "node_result" /\ m.row \in Seen /\ m.status = outcome[m.row]
         \/ m.kind = "case_status" /\ m.row \in Cases /\ m.status \in {"running", RowVerdict(m.row)}
         \/ m.kind = "suite_status" /\ m.row \in Suites /\ m.status \in {"running", RowVerdict(m.row)}
         \/ m.kind = "execution_result" /\ m.status = Overall
<1> DEFINE True ==
         \/ m.kind = "node_started" /\ m.row \in Seen
         \/ m.kind = "node_result" /\ m.row \in Seen /\ m.status = outcome[m.row]
         \/ m.kind = "case_status" /\ m.row \in Cases /\ m.status \in {"running", RowVerdict(m.row)}
         \/ m.kind = "suite_status" /\ m.row \in Suites /\ m.status \in {"running", RowVerdict(m.row)}
         \/ m.kind = "execution_result" /\ m.status = Overall
<1>1. CASE m = Result(Overall)
  BY <1>1 DEF Result, Msg
<1>2. ASSUME NEW nodes, \A n \in ToSet(nodes) : n \in Seen, m \in NodeTold(nodes)
      PROVE  True
  BY <1>2 DEF NodeTold, Msg
<1>3. ASSUME NEW u \in Suites, NEW c \in ToSet(CasesOf[u]), m \in CaseTold(u, c)
      PROVE  True
  <2>1. c \in Cases /\ RowVerdict(c) = CaseVerdict(u, c)
    BY SuiteCases
  <2>2. Blocked(SetupOf[u]) => CaseVerdict(u, c) = "skipped"
    BY DEF CaseVerdict
  <2>3. CASE Blocked(SetupOf[u]) \/ m \notin NodeTold(CaseRun(c))
    BY <1>3, <2>1, <2>2, <2>3 DEF CaseTold, Msg
  <2>4. CASE ~Blocked(SetupOf[u]) /\ m \in NodeTold(CaseRun(c))
    <3>1. \A n \in ToSet(CaseRun(c)) : n \in Seen
      BY <2>1, <2>4, CaseRunPart, SeenWhere DEF RunInCase
    <3> QED BY <1>2, <2>4, <3>1
  <2> QED BY <2>3, <2>4
<1>4. ASSUME NEW u \in Suites, m \in SuiteTold(u) PROVE True
  <2>1. \A n \in ToSet(Ran(SetupOf[u])) \cup ToSet(Ran(TeardownOf[u])) : n \in Seen
    BY SuiteRunPart, SeenWhere DEF RunInSuite
  <2>2. CASE m \in NodeTold(Ran(SetupOf[u])) \cup NodeTold(Ran(TeardownOf[u]))
    BY <1>2, <2>1, <2>2
  <2>3. CASE \E c \in ToSet(CasesOf[u]) : m \in CaseTold(u, c)
    BY <1>3, <2>3
  <2>4. CASE m \in {Msg("suite_status", u, "running"), Msg("suite_status", u, SuiteVerdict(u))}
    BY <2>4, SuiteCases DEF Msg
  <2> QED BY <1>4, <2>2, <2>3, <2>4 DEF SuiteTold
<1>5. CASE \E u \in Suites : m \in SuiteTold(u)
  BY <1>4, <1>5
<1>6. m = Result(Overall) \/ \E u \in Suites : m \in SuiteTold(u)
  BY ScriptTold
<1> QED BY <1>1, <1>5, <1>6

\* The script tells the verdict of each case.
LEMMA CasesAreTold ==
  ASSUME outcome \in Outcome, NEW c \in Cases
  PROVE  Msg("case_status", c, RowVerdict(c)) \in ToSet(Script)
<1> DEFINE u == SuiteOf[c]
<1>1. u \in Suites /\ c \in ToSet(CasesOf[u]) /\ RowVerdict(c) = CaseVerdict(u, c)
  BY SuiteCases
<1>2. Blocked(SetupOf[u]) => CaseVerdict(u, c) = "skipped"
  BY DEF CaseVerdict
<1>3. Msg("case_status", c, RowVerdict(c)) \in CaseTold(u, c)
  BY <1>1, <1>2 DEF CaseTold
<1>4. Msg("case_status", c, RowVerdict(c)) \in SuiteTold(u)
  BY <1>1, <1>3 DEF SuiteTold
<1> QED BY <1>1, <1>4, ScriptTold

\* The verdicts cover what is below them.
LEMMA VerdictsTold ==
  ASSUME outcome \in Outcome
  PROVE  /\ \A r \in Parents : RowVerdict(r) \in Told /\ AtLeast(Overall, RowVerdict(r))
         /\ Overall \in Told \ {"skipped"}
<1>1. ASSUME NEW c \in Cases, NEW u \in Suites PROVE CaseVerdict(u, c) \in Told
  <2>1. Outcomes(CaseRun(c)) \in SUBSET Told
    BY CaseRunPart, OutcomesOfNodes DEF Told
  <2> QED BY <2>1, AggregateTold DEF CaseVerdict, Told
<1>2. ASSUME NEW u \in Suites PROVE SuiteVerdict(u) \in Told
  <2>1. Outcomes(Ran(SetupOf[u])) \cup Outcomes(Ran(TeardownOf[u])) \in SUBSET Told
    BY PhasesTyped, OutcomesOfNodes DEF Told
  <2>2. {CaseVerdict(u, c) : c \in ToSet(CasesOf[u])} \in SUBSET Told
    BY <1>1, SuiteCases
  <2> QED BY <2>1, <2>2, AggregateTold DEF SuiteVerdict
<1>3. ASSUME NEW r \in Parents PROVE RowVerdict(r) \in Told
  BY <1>1, <1>2, SuiteCases DEF RowVerdict, Parents
<1>4. Overall \in Told \ {"skipped"}
  <2>1. {SuiteVerdict(u) : u \in Suites} \in SUBSET Told
    BY <1>2
  <2>2. AggregateStatuses({SuiteVerdict(u) : u \in Suites}) \in Told
    BY <2>1, AggregateTold
  <2> QED BY <2>2 DEF Overall, Told
<1>5. ASSUME NEW u \in Suites PROVE AtLeast(Overall, SuiteVerdict(u))
  <2>1. AtLeast(SuiteVerdict(u), SuiteVerdict(u))
    BY <1>2 DEF AtLeast, Told, AggregateStatuses, AsStopped, Blocking
  <2> QED BY <2>1, OverallCovers
<1>6. ASSUME NEW u \in Suites, NEW c \in ToSet(CasesOf[u]) PROVE AtLeast(Overall, CaseVerdict(u, c))
  <2>1. AtLeast(SuiteVerdict(u), CaseVerdict(u, c))
    BY AggregateCovers DEF SuiteVerdict
  <2> QED BY <2>1, OverallCovers
<1>7. ASSUME NEW r \in Parents PROVE AtLeast(Overall, RowVerdict(r))
  BY <1>5, <1>6, SuiteCases DEF Parents
<1> QED BY <1>3, <1>4, <1>7

\* The verdict of what is above a node covers the node's outcome.
LEMMA SeenCounts ==
  ASSUME outcome \in Outcome, NEW n \in Seen, NEW r \in Above(n)
  PROVE  r \in Parents /\ AtLeast(RowVerdict(r), outcome[n])
<1>1. n \in Nodes
  BY DEF Seen
<1>2. ASSUME NEW u \in Suites, RunInSuite(u, n) PROVE r = u /\ AtLeast(RowVerdict(r), outcome[n])
  <2>1. ParentOf[n] = u /\ u \notin Cases /\ RowVerdict(u) = SuiteVerdict(u)
    BY <1>2, SuiteRunPart, SuiteCases DEF RunInSuite
  <2>2. r = u
    BY <2>1 DEF Above
  <2>3. outcome[n] \in Outcomes(Ran(SetupOf[u])) \cup Outcomes(Ran(TeardownOf[u]))
    BY <1>2, PhasesTyped, OutcomesOfNodes DEF RunInSuite
  <2>4. AtLeast(SuiteVerdict(u), outcome[n])
    BY <2>3, AggregateCovers DEF SuiteVerdict
  <2> QED BY <2>1, <2>2, <2>4
<1>3. ASSUME NEW u \in Suites, NEW c \in Cases, RunInCase(u, c, n)
      PROVE  r \in {u, c} /\ AtLeast(RowVerdict(r), outcome[n])
  <2>1. ParentOf[n] = c /\ SuiteOf[c] = u /\ RowVerdict(c) = CaseVerdict(u, c) /\ RowVerdict(u) = SuiteVerdict(u)
    BY <1>3, CaseRunPart, SuiteCases DEF RunInCase
  <2>2. r \in {u, c}
    BY <2>1 DEF Above
  <2>3. outcome[n] \in Outcomes(CaseRun(c))
    BY <1>3, CaseRunPart, OutcomesOfNodes DEF RunInCase
  <2>4. AtLeast(CaseVerdict(u, c), outcome[n])
    BY <1>3, <2>3, AggregateCovers DEF CaseVerdict, RunInCase
  <2>5. AtLeast(SuiteVerdict(u), CaseVerdict(u, c))
    BY <1>3, AggregateCovers DEF SuiteVerdict, RunInCase
  <2>6. AtLeast(SuiteVerdict(u), outcome[n])
    BY <2>4, <2>5, RunVerdicts, Worse
  <2> QED BY <2>1, <2>2, <2>4, <2>6
<1> QED BY <1>1, <1>2, <1>3, SeenWhere DEF Parents

\* Aggregates that differ in what was skipped after a failure are equal.
LEMMA SkippedAside ==
  ASSUME NEW S \in SUBSET Told, NEW T, S \subseteq T, T \subseteq S \cup {"skipped"},
         "skipped" \in T => "skipped" \in S \/ \E x \in S : x \in {"failed", "error"}
  PROVE  AggregateStatuses(T) = AggregateStatuses(S)
<1>1. T \in SUBSET Told
  BY DEF Told
<1>2. ASSUME NEW X \in SUBSET Told PROVE {AsStopped(s) : s \in X} = X
  BY <1>2 DEF AsStopped, Told
<1>3. {AsStopped(s) : s \in S} = S /\ {AsStopped(s) : s \in T} = T
  BY <1>1, <1>2
<1> QED BY <1>1, <1>3 DEF AggregateStatuses, Told

\* The settlement of a suite left open rebuilds the runner's verdict from what is
\* stored of its nodes and cases.
LEMMA SuiteRebuilt ==
  ASSUME outcome \in Outcome, NEW u \in Suites, NEW nodeRows, NEW caseRows,
         nodeRows = {IF n \in Seen THEN outcome[n] ELSE "skipped" : n \in {x \in Nodes : ParentOf[x] = u}},
         caseRows = {RowVerdict(c) : c \in {d \in Cases : SuiteOf[d] = u}}
  PROVE  AggregateStatuses(nodeRows \cup caseRows) = SuiteVerdict(u)
<1> DEFINE ran == Outcomes(Ran(SetupOf[u])) \cup Outcomes(Ran(TeardownOf[u]))
           S == ran \cup {CaseVerdict(u, c) : c \in ToSet(CasesOf[u])}
           T == nodeRows \cup caseRows
<1>1. SuiteVerdict(u) = AggregateStatuses(S)
  BY DEF SuiteVerdict
<1>2. caseRows = {CaseVerdict(u, c) : c \in ToSet(CasesOf[u])}
  BY SuiteCases, WalkAssumption
<1>3. /\ Outcomes(Ran(SetupOf[u])) = {outcome[n] : n \in ToSet(Ran(SetupOf[u]))}
      /\ Outcomes(Ran(TeardownOf[u])) = {outcome[n] : n \in ToSet(Ran(TeardownOf[u]))}
      /\ ran \subseteq {"passed", "failed", "error"}
  BY PhasesTyped, OutcomesOfNodes
<1>4. S \in SUBSET Told
  <2>1. caseRows \subseteq Told
    BY VerdictsTold DEF Parents
  <2> QED BY <1>2, <1>3, <2>1 DEF Told
<1>5. \A n \in Nodes : RunInSuite(u, n) => n \in Seen /\ ParentOf[n] = u /\ outcome[n] \in nodeRows
  BY SeenWhere, SuiteRunPart DEF RunInSuite
<1>6. S \subseteq T
  BY <1>2, <1>3, <1>5, SuiteRunPart DEF RunInSuite
<1>7. ASSUME NEW n \in Nodes, ParentOf[n] = u, n \in Seen PROVE RunInSuite(u, n) /\ outcome[n] \in ran
  <2>1. ASSUME NEW v \in Suites, RunInSuite(v, n) PROVE v = u
    BY <1>7, <2>1, SuiteRunPart DEF RunInSuite
  <2>2. ASSUME NEW v \in Suites, NEW c \in Cases, RunInCase(v, c, n) PROVE FALSE
    <3>1. ParentOf[n] = c
      BY <2>2, CaseRunPart DEF RunInCase
    <3> QED BY <1>7, <3>1, SuiteCases
  <2>3. RunInSuite(u, n)
    BY <1>7, <2>1, <2>2, SeenWhere
  <2> QED BY <1>3, <2>3 DEF RunInSuite
<1>8. T \subseteq S \cup {"skipped"}
  BY <1>2, <1>7
<1>9. ASSUME NEW n \in Nodes, ParentOf[n] = u, n \notin Seen
      PROVE  \E x \in S : x \in {"failed", "error"}
  <2>1. n \in ToSet(SetupOf[u]) \cup ToSet(TeardownOf[u]) /\ ~RunInSuite(u, n)
    BY <1>9, SuiteRunPart, SeenWhere
  <2>2. PICK nodes \in {SetupOf[u], TeardownOf[u]} : n \in ToSet(nodes) /\ n \notin ToSet(Ran(nodes))
    BY <2>1 DEF RunInSuite
  <2>3. nodes \in Seq(Nodes) /\ Ran(nodes) \in Seq(Nodes)
    BY PhasesTyped
  <2>4. PICK i \in DOMAIN Ran(nodes) : Blocks(Ran(nodes)[i])
    BY <2>2, <2>3, RanPart
  <2>5. outcome[Ran(nodes)[i]] \in ran /\ outcome[Ran(nodes)[i]] # "passed"
    BY <2>4 DEF Outcomes, Blocks
  <2> QED BY <1>3, <2>5
<1>10. "skipped" \in T => "skipped" \in S \/ \E x \in S : x \in {"failed", "error"}
  <2>1. ASSUME "skipped" \in nodeRows PROVE \E x \in S : x \in {"failed", "error"}
    <3>1. PICK n \in {x \in Nodes : ParentOf[x] = u} : "skipped" = IF n \in Seen THEN outcome[n] ELSE "skipped"
      BY <2>1
    <3>2. n \notin Seen
      BY <3>1 DEF Outcome
    <3> QED BY <1>9, <3>1, <3>2
  <2> QED BY <1>2, <2>1
<1> HIDE DEF S, T
<1>11. AggregateStatuses(T) = AggregateStatuses(S)
  BY <1>4, <1>6, <1>8, <1>10, SkippedAside
<1> QED BY <1>1, <1>11 DEF T

-----------------------------------------------------------------------------
\* A status a row may have while the execution runs and nobody asks for a stop.
Fitting(r, x) ==
  IF r \in Parents THEN Fits(x, RowVerdict(r))
  ELSE IF r \in Seen THEN x \in Open \cup {outcome[r]} ELSE x = "pending"

\* What a case or node of the script comes to.
Truth(r) == IF r \in Cases THEN RowVerdict(r) ELSE outcome[r]

\* The half-done suite_status handlers, whatever they have read, fit as well.
ReadsFit ==
  \A k \in Conns : \A m \in read[k] :
    m.status \in {"running", RowVerdict(m.suite)} /\ Fits(m.seen, RowVerdict(m.suite))

\* A message the runner has still to send, or that is on its way.
UnderWay(m) == m \in ToSet(todo) \/ \E k \in Conns : m \in ToSet(wire[k])

\* What was seen is recorded, or the message that says so is under way.
NothingMissing ==
  /\ \A n \in Seen  : row[n] = Truth(n) \/ UnderWay(Msg("node_result", n, outcome[n]))
  /\ \A c \in Cases : row[c] = Truth(c) \/ UnderWay(Msg("case_status", c, RowVerdict(c)))

\* Nothing but the end of the script.
OnlyEnd(s) == \A i \in DOMAIN s : s[i].kind = "execution_result"

\* Nothing but the script is sent, and its end at the end.
OfScript ==
  /\ ToSet(todo) \subseteq ToSet(Script)
  /\ \A k \in Conns : ToSet(wire[k]) \subseteq ToSet(Script)
  /\ verdict \in {"none", Overall}
  /\ \A i \in DOMAIN todo : todo[i].kind = "execution_result" => i = Len(todo)
  /\ verdict # "none" => OnlyEnd(todo)
  /\ \A k \in Conns : \A i \in DOMAIN wire[k] : wire[k][i].kind = "execution_result" => OnlyEnd(todo)

\* The rows when all was recorded: only suites may still be open, or fail for an
\* error.
Complete ==
  /\ \A c \in Cases : row[c] = RowVerdict(c)
  /\ \A u \in Suites : Fits(row[u], RowVerdict(u))
  /\ \A n \in Nodes : row[n] = IF n \in Seen THEN outcome[n] ELSE "pending"

\* Every row fits.
RowsFit == \A r \in Rows : Fitting(r, row[r])

\* The execution runs and nobody has asked for a stop.
Undisturbed ==
  /\ reason = "none" /\ RowsFit /\ ReadsFit /\ OfScript
  /\ lost \/ NothingMissing

\* The inductive invariant: while the execution runs undisturbed the rows fit and
\* nothing is missing, and when it has ended with nothing left behind they are
\* complete, until the settlement makes them agree.
AgreeInv ==
  /\ exec = "running" => Undisturbed
  /\ whole => exec = Overall /\ (final \/ Complete)
  /\ Agreement

-----------------------------------------------------------------------------
\* Nothing but the outcomes decides what a row may be.
LEMMA Unchanging ==
  ASSUME outcome' = outcome
  PROVE  /\ \A r : RowVerdict(r)' = RowVerdict(r)
         /\ \A r : Truth(r)' = Truth(r)
         /\ \A r, x : Fitting(r, x)' = Fitting(r, x)
<1>1. \A r : RowVerdict(r)' = RowVerdict(r)
  BY OutcomesDecide DEF RowVerdict
<1>2. Seen' = Seen
  BY OutcomesDecide
<1> QED BY <1>1, <1>2 DEF Truth, Fitting, Fits

\* What a step does with the rows while the execution runs: they go on to fit,
\* and what has come to its end stays there.
Follows ==
  /\ \A r \in Rows : Fitting(r, row'[r])
  /\ \A r \in Cases \cup Seen : row[r] = Truth(r) => row'[r] = Truth(r)

\* What a seen node passes upwards keeps the rows above it fitting.
LEMMA Raised ==
  ASSUME outcome \in Outcome, RowsFit, NEW n \in Seen, NEW r \in Above(n),
         NEW inc, inc = "running" \/ (inc \in {"failed", "error"} /\ inc = outcome[n])
  PROVE  /\ Fitting(r, MergeRuntimeStatus(row[r], inc))
         /\ row[r] = RowVerdict(r) => MergeRuntimeStatus(row[r], inc) = RowVerdict(r)
<1>1. r \in Parents /\ AtLeast(RowVerdict(r), outcome[n]) /\ RowVerdict(r) \in Told
  BY SeenCounts, VerdictsTold
<1>2. Fits(row[r], RowVerdict(r))
  BY <1>1, Layout DEF RowsFit, Fitting
<1>3. inc = "running" \/ (inc \in {"failed", "error"} /\ Fits(inc, RowVerdict(r)))
  BY <1>1, CoveredFits
<1>4. /\ Fits(MergeRuntimeStatus(row[r], inc), RowVerdict(r))
      /\ row[r] = RowVerdict(r) => MergeRuntimeStatus(row[r], inc) = RowVerdict(r)
  BY <1>1, <1>2, <1>3, FitsMerge
<1> QED BY <1>1, <1>4 DEF Fitting

\* A seen node is open or has its outcome.
LEMMA NodeFits ==
  ASSUME outcome \in Outcome, RowsFit, NEW n \in Seen
  PROVE  /\ n \in Nodes /\ n \in Rows /\ n \notin Parents /\ n \notin Cases
         /\ outcome[n] \in {"passed", "failed", "error"}
         /\ row[n] \in Open \cup {outcome[n]} /\ Truth(n) = outcome[n]
         /\ \A x : Fitting(n, x) <=> x \in Open \cup {outcome[n]}
<1>1. n \in Nodes /\ n \in Rows /\ n \notin Parents /\ n \notin Cases
  BY LayoutAssumption DEF Seen, Rows, Leaves, Parents
<1> QED BY <1>1 DEF RowsFit, Fitting, Truth, Outcome

\* handle_node_started, of a node of the script,
LEMMA NodeStartedFollows ==
  ASSUME outcome \in Outcome, RowsFit, NEW n \in Seen, NodeStarted(n)
  PROVE  Follows
<1>1. row' = [r \in Rows |-> IF r = n \/ (r \in Above(n) /\ row[r] \notin Ended)
                              THEN MergeRuntimeStatus(row[r], "running") ELSE row[r]]
  BY DEF NodeStarted
<1>2. /\ Fitting(n, MergeRuntimeStatus(row[n], "running"))
      /\ row[n] = outcome[n] => MergeRuntimeStatus(row[n], "running") = outcome[n]
  <2>1. CASE row[n] = outcome[n]
    <3>1. MergeRuntimeStatus(row[n], "running") = outcome[n]
      BY <2>1, NodeFits DEF MergeRuntimeStatus, Ended, TerminalStates, AggregateStatuses, AsStopped
    <3> QED BY <3>1, NodeFits
  <2>2. CASE row[n] \in Open
    <3>1. MergeRuntimeStatus(row[n], "running") = "running"
      BY <2>2 DEF MergeRuntimeStatus, Open, Ended, TerminalStates
    <3>2. row[n] # outcome[n]
      BY <2>2, NodeFits DEF Open
    <3> QED BY <3>1, <3>2, NodeFits DEF Open
  <2> QED BY <2>1, <2>2, NodeFits
<1>3. \A r \in Above(n) : /\ Fitting(r, MergeRuntimeStatus(row[r], "running"))
                          /\ row[r] = RowVerdict(r) => MergeRuntimeStatus(row[r], "running") = RowVerdict(r)
  BY Raised
<1>4. \A r \in Rows : Fitting(r, row[r])
  BY DEF RowsFit
<1>5. \A r \in Rows : Fitting(r, row'[r])
  BY <1>1, <1>2, <1>3, <1>4
<1>6. ASSUME NEW r \in Cases \cup Seen, row[r] = Truth(r) PROVE row'[r] = Truth(r)
  <2>1. r \in Rows
    BY NodeFits, Layout
  <2>2. CASE r = n
    BY <1>1, <1>2, <1>6, <2>1, <2>2, NodeFits
  <2>3. CASE r # n /\ r \in Above(n)
    <3>1. r \in Cases
      BY <2>3, NodeFits, SeenCounts
    <3> QED BY <1>1, <1>3, <1>6, <2>1, <2>3, <3>1 DEF Truth
  <2>4. CASE r # n /\ r \notin Above(n)
    BY <1>1, <1>6, <2>1, <2>4
  <2> QED BY <2>2, <2>3, <2>4
<1> QED BY <1>5, <1>6 DEF Follows

\* handle_node_result with the node's outcome,
LEMMA NodeResultFollows ==
  ASSUME outcome \in Outcome, RowsFit, NEW n \in Seen, NodeResult(n, outcome[n])
  PROVE  Follows /\ row'[n] = outcome[n]
<1> DEFINE inc == IF outcome[n] \in Blocking \cup {"skipped"} THEN outcome[n] ELSE "running"
<1>1. MergeStepStatus(row[n], outcome[n]) = outcome[n]
  BY NodeFits, NodeMerge
<1>2. row' = [r \in Rows |-> IF r = n THEN outcome[n]
                              ELSE IF r \in Above(n) /\ (r \in Cases \/ row[r] \notin Ended)
                                THEN MergeRuntimeStatus(row[r], inc) ELSE row[r]]
  BY <1>1 DEF NodeResult
<1>3. inc = "running" \/ (inc \in {"failed", "error"} /\ inc = outcome[n])
  BY NodeFits DEF Blocking
<1> HIDE DEF inc
<1>4. \A r \in Above(n) : /\ Fitting(r, MergeRuntimeStatus(row[r], inc))
                          /\ row[r] = RowVerdict(r) => MergeRuntimeStatus(row[r], inc) = RowVerdict(r)
  BY <1>3, Raised
<1>5. \A r \in Rows : Fitting(r, row[r])
  BY DEF RowsFit
<1>6. Fitting(n, outcome[n])
  BY NodeFits
<1>7. \A r \in Rows : Fitting(r, row'[r])
  BY <1>2, <1>4, <1>5, <1>6
<1>8. ASSUME NEW r \in Cases \cup Seen, row[r] = Truth(r) PROVE row'[r] = Truth(r)
  <2>1. r \in Rows
    BY NodeFits, Layout
  <2>2. CASE r = n
    BY <1>2, <1>8, <2>1, <2>2, NodeFits
  <2>3. CASE r # n /\ r \in Above(n)
    <3>1. r \in Cases
      BY <2>3, NodeFits, SeenCounts
    <3> QED BY <1>2, <1>4, <1>8, <2>1, <2>3, <3>1 DEF Truth
  <2>4. CASE r # n /\ r \notin Above(n)
    BY <1>2, <1>8, <2>1, <2>4
  <2> QED BY <2>2, <2>3, <2>4
<1> QED BY <1>2, <1>7, <1>8, NodeFits DEF Follows

\* handle_case_status with what the runner says of the case,
LEMMA CaseStatusFollows ==
  ASSUME outcome \in Outcome, TypeOK, RowsFit, NEW c \in Cases,
         NEW st \in {"running", RowVerdict(c)}, CaseStatus(c, st)
  PROVE  Follows /\ (st = RowVerdict(c) => row'[c] = RowVerdict(c))
<1>1. c \in Parents /\ c \in Rows /\ RowVerdict(c) \in Told
  BY Layout, VerdictsTold
<1>2. row' = [row EXCEPT ![c] = Reported(row[c], st)] /\ DOMAIN row = Rows
  BY DEF CaseStatus, TypeOK
<1>3. Fits(row[c], RowVerdict(c))
  BY <1>1 DEF RowsFit, Fitting
<1>4. /\ Fits(Reported(row[c], st), RowVerdict(c))
      /\ row[c] = RowVerdict(c) \/ st = RowVerdict(c) => Reported(row[c], st) = RowVerdict(c)
  <2>1. Fits(RowVerdict(c), RowVerdict(c))
    BY DEF Fits
  <2> QED BY <1>1, <1>3, <2>1, FitsReport
<1>5. \A r \in Rows : Fitting(r, row'[r])
  BY <1>1, <1>2, <1>4 DEF RowsFit, Fitting
<1>6. \A r \in Cases \cup Seen : row[r] = Truth(r) => row'[r] = Truth(r)
  <2>1. \A r \in Cases \cup Seen : r \in Rows
    BY NodeFits, Layout
  <2> QED BY <1>2, <1>4, <2>1 DEF Truth
<1> QED BY <1>1, <1>2, <1>4, <1>5, <1>6 DEF Follows

\* and the late half of handle_suite_status keep the rows fitting.
LEMMA WriteSuiteFollows ==
  ASSUME outcome \in Outcome, TypeOK, RowsFit, ReadsFit, NEW k \in Conns, WriteSuite(k)
  PROVE  Follows
<1>1. PICK m \in read[k] : row' = IF Accepting /\ Reported(m.seen, m.status) # m.seen
                                 THEN [row EXCEPT ![m.suite] = Reported(m.seen, m.status)] ELSE row
  BY DEF WriteSuite
<1>2. m.suite \in Suites /\ DOMAIN row = Rows
  BY DEF TypeOK
<1>3. m.suite \in Parents /\ m.suite \notin Cases /\ m.suite \notin Seen
  BY <1>2, Layout, LayoutAssumption DEF Seen
<1>4. Fits(Reported(m.seen, m.status), RowVerdict(m.suite))
  <2>1. RowVerdict(m.suite) \in Told /\ Fits(RowVerdict(m.suite), RowVerdict(m.suite))
    BY <1>3, VerdictsTold DEF Fits
  <2>2. m.status \in {"running", RowVerdict(m.suite)} /\ Fits(m.seen, RowVerdict(m.suite))
    BY DEF ReadsFit
  <2> QED BY <2>1, <2>2, FitsReport
<1> DEFINE new == Reported(m.seen, m.status)
<1>5. row' = row \/ row' = [row EXCEPT ![m.suite] = new]
  BY <1>1
<1>6. Fitting(m.suite, new)
  BY <1>3, <1>4 DEF Fitting
<1> HIDE DEF new
<1>7. \A r \in Rows : Fitting(r, row'[r])
  BY <1>2, <1>5, <1>6 DEF RowsFit
<1>8. \A r \in Rows : r # m.suite => row'[r] = row[r]
  BY <1>2, <1>5
<1>9. \A r \in Cases \cup Seen : r \in Rows /\ r # m.suite
  BY <1>3, NodeFits, Layout
<1> QED BY <1>7, <1>8, <1>9 DEF Follows

-----------------------------------------------------------------------------
(* The messages under way.                                                 *)

\* The members of a sequence are its first and those that are left.
LEMMA HeadAndTail ==
  ASSUME NEW M, NEW s \in Seq(M), s # <<>>
  PROVE  /\ ToSet(s) = {Head(s)} \cup ToSet(Tail(s))
         /\ Head(s) = s[1] /\ 1 \in DOMAIN s
         /\ \A i \in DOMAIN Tail(s) : i + 1 \in DOMAIN s /\ Tail(s)[i] = s[i + 1]
         /\ Len(Tail(s)) = Len(s) - 1
<1>1. /\ Tail(s) \in Seq(M) /\ Len(Tail(s)) = Len(s) - 1
      /\ \A i \in 1 .. Len(Tail(s)) : Tail(s)[i] = s[i + 1]
  BY HeadTailProperties
<1>2. /\ DOMAIN s = 1 .. Len(s) /\ Len(s) \in Nat /\ Len(s) # 0
      /\ DOMAIN Tail(s) = 1 .. Len(Tail(s)) /\ Head(s) = s[1]
  BY <1>1
<1>3. \A i \in DOMAIN s : i = 1 \/ (i - 1 \in DOMAIN Tail(s) /\ Tail(s)[i - 1] = s[i])
  BY <1>1, <1>2
<1>4. \A i \in DOMAIN Tail(s) : i + 1 \in DOMAIN s /\ Tail(s)[i] = s[i + 1]
  BY <1>1, <1>2
<1>5. ASSUME NEW m \in ToSet(s) PROVE m \in {Head(s)} \cup ToSet(Tail(s))
  BY <1>2, <1>3, <1>5 DEF ToSet
<1>6. ASSUME NEW m \in {Head(s)} \cup ToSet(Tail(s)) PROVE m \in ToSet(s)
  BY <1>2, <1>4, <1>6 DEF ToSet
<1>7. ToSet(s) = {Head(s)} \cup ToSet(Tail(s))
  BY <1>5, <1>6
<1> QED BY <1>1, <1>2, <1>4, <1>7

\* A send moves a message of the script onto the connection.
LEMMA SendOfScript ==
  ASSUME PathTyped, OfScript, Send
  PROVE  OfScript' /\ \A m : UnderWay(m) => UnderWay(m)'
<1>1. todo \in Seq(Messages) /\ todo # <<>> /\ wire \in [Conns -> Seq(Messages)] /\ conn \in Conns
  BY DEF PathTyped, Send
<1>2. Overall' = Overall /\ Script' = Script
  BY OutcomesDecide DEF Send
<1> DEFINE h == Head(todo)
<1>3. /\ ToSet(todo) = {h} \cup ToSet(Tail(todo)) /\ h = todo[1] /\ 1 \in DOMAIN todo
      /\ \A i \in DOMAIN Tail(todo) : i + 1 \in DOMAIN todo /\ Tail(todo)[i] = todo[i + 1]
      /\ Len(Tail(todo)) = Len(todo) - 1 /\ h \in Messages /\ Tail(todo) \in Seq(Messages)
  BY <1>1, HeadAndTail, HeadTail
<1>4. /\ todo' = Tail(todo) /\ wire' = [wire EXCEPT ![conn] = Append(wire[conn], h)]
      /\ verdict' = IF h.kind = "execution_result" THEN h.status ELSE verdict
  BY DEF Send
<1>5. ToSet(Append(wire[conn], h)) = ToSet(wire[conn]) \cup {h}
  <2>1. wire[conn] \in Seq(Messages) /\ <<h>> \in Seq(Messages) /\ Append(wire[conn], h) = wire[conn] \o <<h>>
    BY <1>1, <1>3
  <2>2. ToSet(<<h>>) = {h}
    BY DEF ToSet
  <2> HIDE DEF h
  <2>3. ToSet(wire[conn] \o <<h>>) = ToSet(wire[conn]) \cup ToSet(<<h>>)
    BY <2>1, ConcatMembers
  <2> QED BY <2>1, <2>2, <2>3
<1>6. \A i \in DOMAIN Append(wire[conn], h) : \/ i \in DOMAIN wire[conn] /\ Append(wire[conn], h)[i] = wire[conn][i]
                                              \/ Append(wire[conn], h)[i] = h
  <2> wire[conn] \in Seq(Messages) /\ h \in Messages
    BY <1>1, <1>3
  <2> HIDE DEF h
  <2> QED OBVIOUS
<1>7. h \in ToSet(Script) /\ ToSet(todo') \subseteq ToSet(Script)
  BY <1>3, <1>4 DEF OfScript
<1>8. h.kind = "execution_result" => h.status = Overall /\ todo' = <<>>
  <2>1. ASSUME h.kind = "execution_result" PROVE h.status = Overall
    <3>1. outcome \in Outcome
      BY DEF PathTyped
    <3> HIDE DEF h
    <3> QED BY <1>7, <2>1, <3>1, ScriptTruth
  <2>2. ASSUME h.kind = "execution_result" PROVE todo' = <<>>
    <3>1. 1 = Len(todo)
      BY <1>3, <2>2 DEF OfScript
    <3>2. Len(Tail(todo)) = Len(todo) - 1 /\ Tail(todo) \in Seq(Messages)
      BY <1>3
    <3>3. Len(Tail(todo)) = 0
      BY <3>1, <3>2
    <3> QED BY <1>4, <3>2, <3>3, EmptySeq
  <2> QED BY <2>1, <2>2
<1> HIDE DEF h
<1>9. OnlyEnd(todo) => OnlyEnd(todo')
  BY <1>3, <1>4 DEF OnlyEnd
<1>10. \A i \in DOMAIN todo' : todo'[i].kind = "execution_result" => i = Len(todo')
  <2>1. DOMAIN todo' = 1 .. Len(todo') /\ Len(todo') \in Nat /\ Len(todo) \in Nat
    BY <1>1, <1>3, <1>4
  <2> QED BY <1>3, <1>4, <2>1 DEF OfScript
<1>11. OnlyEnd(<<>>)
  BY DEF OnlyEnd
<1>12. verdict' \in {"none", Overall} /\ (verdict' # "none" => OnlyEnd(todo'))
  BY <1>4, <1>8, <1>9, <1>11 DEF OfScript
<1>13. \A k \in Conns : ToSet(wire'[k]) \subseteq ToSet(Script)
  BY <1>1, <1>4, <1>5, <1>7 DEF OfScript
<1>14. ASSUME NEW k \in Conns, NEW i \in DOMAIN wire'[k], wire'[k][i].kind = "execution_result"
       PROVE  OnlyEnd(todo')
  <2>1. CASE i \in DOMAIN wire[k] /\ wire'[k][i] = wire[k][i]
    BY <1>9, <1>14, <2>1 DEF OfScript
  <2>2. CASE wire'[k][i] = h
    BY <1>8, <1>11, <1>14, <2>2
  <2>3. CASE k # conn
    BY <1>1, <1>4, <1>14, <2>1, <2>3
  <2>4. CASE k = conn
    BY <1>1, <1>4, <1>6, <1>14, <2>1, <2>2, <2>4
  <2> QED BY <2>3, <2>4
<1>15. OfScript'
  BY <1>2, <1>7, <1>10, <1>12, <1>13, <1>14 DEF OfScript, OnlyEnd
<1>16. ASSUME NEW m, UnderWay(m) PROVE m \in ToSet(todo') \/ \E k \in Conns : m \in ToSet(wire'[k])
  BY <1>1, <1>3, <1>4, <1>5, <1>16 DEF UnderWay
<1> QED BY <1>15, <1>16 DEF UnderWay

\* A break sends nothing new, and what it does not lose is still to come.
LEMMA BreakOfScript ==
  ASSUME PathTyped, OfScript, Break
  PROVE  /\ OfScript'
         /\ lost => lost'
         /\ ~lost' => \A m : UnderWay(m) /\ m.kind # "execution_result" => UnderWay(m)'
<1>1. todo \in Seq(Messages) /\ wire \in [Conns -> Seq(Messages)] /\ conn \in Conns
  BY DEF PathTyped
<1>2. Overall' = Overall /\ Script' = Script
  BY OutcomesDecide DEF Break
<1>3. PICK last \in {<<>>} \cup (IF todo = <<>> THEN {} ELSE {<<Head(todo)>>}) :
        \E arrives \in Halves(wire[conn] \o last) :
          /\ wire' = [wire EXCEPT ![conn] = arrives]
          /\ lost' = (lost \/ \E i \in DOMAIN wire[conn] :
                                i > Len(arrives) /\ wire[conn][i].kind # "execution_result")
  BY DEF Break
<1>4. PICK arrives \in Halves(wire[conn] \o last) :
          /\ wire' = [wire EXCEPT ![conn] = arrives]
          /\ lost' = (lost \/ \E i \in DOMAIN wire[conn] :
                                i > Len(arrives) /\ wire[conn][i].kind # "execution_result")
  BY <1>3
<1>5. last \in Seq(Messages) /\ ToSet(last) \subseteq ToSet(todo)
  <2>1. CASE last = <<>>
    <3>1. <<>> \in Seq(Messages) /\ ToSet(<<>>) = {}
      BY DEF ToSet
    <3> QED BY <2>1, <3>1
  <2>2. CASE todo # <<>> /\ last = <<Head(todo)>>
    <3>1. Head(todo) \in Messages /\ Head(todo) \in ToSet(todo)
      BY <1>1, <2>2, HeadTail, HeadAndTail
    <3>2. \A m \in Messages : <<m>> \in Seq(Messages) /\ ToSet(<<m>>) = {m}
      BY DEF ToSet
    <3> QED BY <2>2, <3>1, <3>2
  <2> QED BY <1>3, <2>1, <2>2
<1> DEFINE sent == wire[conn] \o last
<1>6. sent \in Seq(Messages) /\ ToSet(sent) = ToSet(wire[conn]) \cup ToSet(last)
  BY <1>1, <1>5, ConcatMembers
<1>7. /\ Len(sent) >= Len(wire[conn]) /\ Len(wire[conn]) \in Nat
      /\ \A i \in DOMAIN wire[conn] : i \in 1 .. Len(wire[conn]) /\ sent[i] = wire[conn][i] /\ i \in DOMAIN sent
  BY <1>1, <1>5
<1> HIDE DEF sent
<1>8. PICK j \in 0 .. Len(sent) : arrives = SubSeq(sent, 1, j)
  BY <1>4 DEF Halves, sent
<1>9. /\ DOMAIN arrives = 1 .. j /\ Len(arrives) = j
      /\ \A i \in 1 .. j : arrives[i] = sent[i] /\ i \in DOMAIN sent
  <2>1. Len(sent) \in Nat /\ DOMAIN sent = 1 .. Len(sent)
    BY <1>6
  <2> QED BY <1>6, <1>8, <2>1
<1>10. ToSet(arrives) \subseteq ToSet(sent)
  BY <1>9 DEF ToSet
<1>11. ToSet(arrives) \subseteq ToSet(Script)
  BY <1>1, <1>5, <1>6, <1>10 DEF OfScript
<1>12. \A k \in Conns : ToSet(wire'[k]) \subseteq ToSet(Script)
  BY <1>1, <1>4, <1>11 DEF OfScript
<1>13. todo' = IF todo = <<>> THEN <<Result(verdict)>> ELSE todo
  BY DEF Break
<1>14. todo = <<>> => verdict = Overall
  BY DEF PathTyped, OfScript
<1>15. outcome \in Outcome
  BY DEF PathTyped
<1>16. Result(Overall) \in ToSet(Script) /\ Result(Overall).kind = "execution_result"
  <2>1. Result(Overall) \in ToSet(Script)
    BY <1>15, ScriptTold
  <2> QED BY <2>1 DEF Result, Msg
<1>17. ToSet(todo') \subseteq ToSet(Script) /\ ToSet(todo) \subseteq ToSet(todo')
  <2>1. CASE todo = <<>>
    <3>1. todo' = <<Result(Overall)>>
      BY <1>13, <1>14, <2>1
    <3>2. \A m : ToSet(<<m>>) = {m}
      BY DEF ToSet
    <3>3. ToSet(todo) = {}
      BY <2>1 DEF ToSet
    <3> QED BY <1>16, <3>1, <3>2, <3>3
  <2>2. CASE todo # <<>>
    BY <1>13, <2>2 DEF OfScript
  <2> QED BY <2>1, <2>2
<1>18. /\ \A i \in DOMAIN todo' : todo'[i].kind = "execution_result" => i = Len(todo')
       /\ OnlyEnd(todo) => OnlyEnd(todo')
  <2>1. CASE todo = <<>>
    <3>1. todo' = <<Result(Overall)>>
      BY <1>13, <1>14, <2>1
    <3>2. DOMAIN todo' = {1} /\ Len(todo') = 1 /\ todo'[1] = Result(Overall)
      BY <3>1
    <3> QED BY <1>16, <3>2 DEF OnlyEnd
  <2>2. CASE todo # <<>>
    BY <1>13, <2>2 DEF OfScript
  <2> QED BY <2>1, <2>2
<1>19. \A m \in ToSet(last) : m.kind = "execution_result" => OnlyEnd(todo)
  <2>1. CASE last = <<>>
    BY <2>1 DEF ToSet
  <2>2. CASE todo # <<>> /\ last = <<Head(todo)>>
    <3>1. ToSet(last) = {todo[1]} /\ 1 \in DOMAIN todo /\ DOMAIN todo = 1 .. Len(todo)
      <4>1. ToSet(last) = {Head(todo)}
        BY <2>2 DEF ToSet
      <4>2. Head(todo) = todo[1] /\ 1 \in DOMAIN todo
        BY <1>1, <2>2, HeadAndTail
      <4> QED BY <1>1, <4>1, <4>2
    <3>2. ASSUME todo[1].kind = "execution_result" PROVE OnlyEnd(todo)
      <4>1. Len(todo) = 1
        BY <3>1, <3>2 DEF OfScript
      <4> QED BY <3>1, <3>2, <4>1 DEF OnlyEnd
    <3> QED BY <3>1, <3>2
  <2> QED BY <1>3, <2>1, <2>2
<1>20. ASSUME NEW k \in Conns, NEW i \in DOMAIN wire'[k], wire'[k][i].kind = "execution_result"
       PROVE  OnlyEnd(todo')
  <2>1. CASE k # conn
    BY <1>1, <1>4, <1>18, <1>20, <2>1 DEF OfScript
  <2>2. CASE k = conn
    <3>1. wire'[k][i] \in ToSet(wire[conn]) \cup ToSet(last)
      BY <1>1, <1>4, <1>6, <1>10, <1>20, <2>2 DEF ToSet
    <3>2. CASE wire'[k][i] \in ToSet(wire[conn])
      <4>1. PICK x \in DOMAIN wire[conn] : wire[conn][x] = wire'[k][i]
        BY <3>2 DEF ToSet
      <4> QED BY <1>1, <1>18, <1>20, <4>1 DEF OfScript
    <3>3. CASE wire'[k][i] \in ToSet(last)
      BY <1>18, <1>19, <1>20, <3>3
    <3> QED BY <3>1, <3>2, <3>3
  <2> QED BY <2>1, <2>2
<1>21. verdict' = verdict
  BY DEF Break
<1>22. OfScript'
  BY <1>2, <1>12, <1>17, <1>18, <1>20, <1>21 DEF OfScript, OnlyEnd
<1>23. ASSUME ~lost', NEW m, UnderWay(m), m.kind # "execution_result"
       PROVE  m \in ToSet(todo') \/ \E k \in Conns : m \in ToSet(wire'[k])
  <2>1. CASE m \in ToSet(todo)
    BY <1>17, <2>1
  <2>2. ASSUME NEW k \in Conns, m \in ToSet(wire[k]), k # conn PROVE m \in ToSet(wire'[k])
    BY <1>1, <1>4, <2>2
  <2>3. CASE m \in ToSet(wire[conn])
    <3>1. PICK i \in DOMAIN wire[conn] : wire[conn][i] = m
      BY <2>3 DEF ToSet
    <3>2. ~(i > Len(arrives))
      BY <1>4, <1>23, <3>1
    <3>3. i \in 1 .. j /\ arrives[i] = m
      BY <1>7, <1>9, <3>1, <3>2
    <3>4. m \in ToSet(arrives)
      BY <1>9, <3>3 DEF ToSet
    <3> QED BY <1>1, <1>4, <3>4
  <2> QED BY <1>23, <2>1, <2>2, <2>3 DEF UnderWay
<1>24. lost => lost'
  BY <1>4
<1> QED BY <1>22, <1>23, <1>24 DEF UnderWay

\* What is left when a message is taken from a connection.
LEMMA HandleOfScript ==
  ASSUME PathTyped, OfScript, NEW k \in Conns, Handle(k)
  PROVE  /\ OfScript'
         /\ Head(wire[k]) \in ToSet(Script)
         /\ \A m : UnderWay(m) => m = Head(wire[k]) \/ UnderWay(m)'
<1>1. wire \in [Conns -> Seq(Messages)] /\ wire[k] # <<>> /\ wire[k] \in Seq(Messages)
  BY DEF PathTyped, Handle
<1>2. Overall' = Overall /\ Script' = Script
  BY OutcomesDecide DEF Handle
<1>3. wire' = [wire EXCEPT ![k] = Tail(wire[k])] /\ todo' = todo /\ verdict' = verdict
  BY DEF Handle
<1>4. /\ ToSet(wire[k]) = {Head(wire[k])} \cup ToSet(Tail(wire[k]))
      /\ \A i \in DOMAIN Tail(wire[k]) : i + 1 \in DOMAIN wire[k] /\ Tail(wire[k])[i] = wire[k][i + 1]
  BY <1>1, HeadAndTail
<1>5. \A j \in Conns : ToSet(wire'[j]) \subseteq ToSet(wire[j])
  BY <1>1, <1>3, <1>4
<1>6. ASSUME NEW j \in Conns, NEW i \in DOMAIN wire'[j], wire'[j][i].kind = "execution_result"
      PROVE  OnlyEnd(todo')
  <2>1. CASE j = k
    BY <1>1, <1>3, <1>4, <1>6, <2>1 DEF OfScript
  <2>2. CASE j # k
    BY <1>1, <1>3, <1>6, <2>2 DEF OfScript
  <2> QED BY <2>1, <2>2
<1>7. \A j \in Conns : ToSet(wire'[j]) \subseteq ToSet(Script)
  BY <1>5 DEF OfScript
<1>8. OfScript'
  BY <1>2, <1>3, <1>6, <1>7 DEF OfScript, OnlyEnd
<1>9. Head(wire[k]) \in ToSet(Script)
  BY <1>4 DEF OfScript
<1>10. ASSUME NEW m, UnderWay(m), m # Head(wire[k])
       PROVE  m \in ToSet(todo') \/ \E j \in Conns : m \in ToSet(wire'[j])
  <2>1. CASE m \in ToSet(todo)
    BY <1>3, <2>1
  <2>2. ASSUME NEW j \in Conns, m \in ToSet(wire[j]) PROVE m \in ToSet(wire'[j])
    BY <1>1, <1>3, <1>4, <1>10, <2>2
  <2> QED BY <1>10, <2>1, <2>2 DEF UnderWay
<1> QED BY <1>8, <1>9, <1>10 DEF UnderWay

\* What the handler of m has done when it is through.
Done(m) ==
  /\ m.kind = "node_result" => row'[m.row] = outcome[m.row]
  /\ m.kind = "case_status" /\ m.status = RowVerdict(m.row) => row'[m.row] = RowVerdict(m.row)

\* A message of the script keeps the rows fitting and does what it says.
LEMMA HandleFollows ==
  ASSUME PathTyped, TypeOK, exec = "running", Undisturbed, NEW k \in Conns, Handle(k),
         Head(wire[k]).kind # "execution_result"
  PROVE  /\ Follows /\ Done(Head(wire[k])) /\ ReadsFit'
         /\ UNCHANGED <<exec, reason, final, outcome, lost, whole>>
<1> DEFINE m == Head(wire[k])
<1>1. outcome \in Outcome /\ outcome' = outcome /\ RowsFit /\ ReadsFit /\ OfScript
  BY DEF PathTyped, Handle, Undisturbed
<1>2. m \in ToSet(Script)
  BY <1>1, HandleOfScript
<1>3. Accepting
  BY DEF Accepting
<1>4. \/ m.kind = "suite_status" /\ ReadSuite(k, m.row, m.status) /\ whole' = whole
      \/ m.kind = "node_started" /\ NodeStarted(m.row) /\ whole' = whole
      \/ m.kind = "node_result" /\ NodeResult(m.row, m.status) /\ whole' = whole
      \/ m.kind = "case_status" /\ CaseStatus(m.row, m.status) /\ whole' = whole
  BY <1>3 DEF Handle
<1> HIDE DEF m
<1>5. m.kind # "execution_result"
  BY DEF m
<1>6. \A r : RowVerdict(r)' = RowVerdict(r)
  BY <1>1, Unchanging
<1>7. read' = read => ReadsFit'
  BY <1>1, <1>6 DEF ReadsFit, Fits
<1>8. row' = row => Follows
  BY <1>1 DEF RowsFit, Follows
<1>9. lost' = lost
  BY DEF Handle
<1>10. CASE m.kind = "suite_status"
  <2>1. m.row \in Suites /\ m.status \in {"running", RowVerdict(m.row)}
    BY <1>1, <1>2, <1>10, ScriptTruth
  <2>2. ReadSuite(k, m.row, m.status) /\ whole' = whole
    BY <1>4, <1>10
  <2>3. Fits(row[m.row], RowVerdict(m.row))
    BY <1>1, <2>1, Layout DEF RowsFit, Fitting
  <2>4. ASSUME NEW j \in Conns, NEW x \in read'[j]
        PROVE  x.status \in {"running", RowVerdict(x.suite)} /\ Fits(x.seen, RowVerdict(x.suite))
    <3>1. read' = [read EXCEPT ![k] = {[suite |-> m.row, status |-> m.status, seen |-> row[m.row]]}]
          /\ read \in [Conns -> SUBSET [suite : Suites, status : ParentReports, seen : RowStatus]]
      BY <2>2 DEF ReadSuite, TypeOK
    <3>2. CASE j = k
      <4>1. x = [suite |-> m.row, status |-> m.status, seen |-> row[m.row]]
        BY <2>4, <3>1, <3>2
      <4> QED BY <2>1, <2>3, <4>1
    <3>3. CASE j # k
      <4>1. x \in read[j]
        BY <2>4, <3>1, <3>3
      <4> QED BY <1>1, <4>1 DEF ReadsFit
    <3> QED BY <3>2, <3>3
  <2>5. ReadsFit'
    BY <1>6, <2>4 DEF ReadsFit, Fits
  <2> QED BY <1>1, <1>8, <1>9, <1>10, <2>2, <2>5 DEF ReadSuite, Done, m
<1>11. CASE m.kind = "node_started"
  <2>1. m.row \in Seen /\ NodeStarted(m.row) /\ whole' = whole
    BY <1>1, <1>2, <1>4, <1>11, ScriptTruth
  <2>2. Follows
    BY <1>1, <2>1, NodeStartedFollows
  <2>3. UNCHANGED <<exec, reason, final, read>>
    BY <2>1 DEF NodeStarted
  <2> QED BY <1>1, <1>7, <1>9, <1>11, <2>1, <2>2, <2>3 DEF Done, m
<1>12. CASE m.kind = "node_result"
  <2>1. m.row \in Seen /\ m.status = outcome[m.row] /\ NodeResult(m.row, m.status) /\ whole' = whole
    BY <1>1, <1>2, <1>4, <1>12, ScriptTruth
  <2>2. Follows /\ row'[m.row] = outcome[m.row]
    BY <1>1, <2>1, NodeResultFollows
  <2>3. UNCHANGED <<exec, reason, final, read>>
    BY <2>1 DEF NodeResult
  <2> QED BY <1>1, <1>7, <1>9, <1>12, <2>1, <2>2, <2>3 DEF Done, m
<1>13. CASE m.kind = "case_status"
  <2>1. m.row \in Cases /\ m.status \in {"running", RowVerdict(m.row)} /\ CaseStatus(m.row, m.status)
        /\ whole' = whole
    BY <1>1, <1>2, <1>4, <1>13, ScriptTruth
  <2>2. Follows /\ (m.status = RowVerdict(m.row) => row'[m.row] = RowVerdict(m.row))
    BY <1>1, <2>1, CaseStatusFollows
  <2>3. UNCHANGED <<exec, reason, final, read>>
    BY <2>1 DEF CaseStatus
  <2> QED BY <1>1, <1>7, <1>9, <1>13, <2>1, <2>2, <2>3 DEF Done, m
<1> QED BY <1>4, <1>10, <1>11, <1>12, <1>13

\* As long as the rows follow, and what is under way stays so or is done, nothing
\* is missing.
LEMMA StillNothingMissing ==
  ASSUME outcome' = outcome, NothingMissing, Follows,
         NEW m, Done(m), \A x : UnderWay(x) /\ x.kind # "execution_result" => x = m \/ UnderWay(x)'
  PROVE  NothingMissing'
<1>1. Seen' = Seen /\ \A r : RowVerdict(r)' = RowVerdict(r) /\ Truth(r)' = Truth(r)
  BY OutcomesDecide, Unchanging
<1>2. ASSUME NEW n \in Seen
      PROVE  row'[n] = Truth(n) \/ UnderWay(Msg("node_result", n, outcome[n]))'
  <2>1. PICK x : x = Msg("node_result", n, outcome[n])
    OBVIOUS
  <2>2. x.kind = "node_result" /\ x.row = n /\ x = Msg("node_result", n, outcome'[n])
    BY <2>1 DEF Msg
  <2>3. Truth(n) = outcome[n]
    BY LayoutAssumption DEF Truth, Seen, Leaves, Parents
  <2>4. CASE row[n] = Truth(n)
    BY <1>2, <2>4 DEF Follows
  <2>5. CASE x = m
    BY <2>2, <2>3, <2>5 DEF Done
  <2>6. CASE x # m /\ UnderWay(x)
    <3>1. UnderWay(x)'
      BY <2>2, <2>6
    <3> QED BY <2>2, <3>1 DEF UnderWay, Msg
  <2> QED BY <2>1, <2>4, <2>5, <2>6 DEF NothingMissing
<1>3. ASSUME NEW c \in Cases
      PROVE  row'[c] = Truth(c) \/ UnderWay(Msg("case_status", c, RowVerdict(c)))'
  <2>1. PICK x : x = Msg("case_status", c, RowVerdict(c))
    OBVIOUS
  <2>2. x.kind = "case_status" /\ x.row = c /\ x.status = RowVerdict(c)
    BY <2>1 DEF Msg
  <2>3. Truth(c) = RowVerdict(c)
    BY DEF Truth
  <2>4. CASE row[c] = Truth(c)
    BY <1>3, <2>4 DEF Follows
  <2>5. CASE x = m
    BY <2>2, <2>3, <2>5 DEF Done
  <2>6. CASE x # m /\ UnderWay(x)
    <3>1. UnderWay(x)'
      BY <2>2, <2>6
    <3> QED BY <1>1, <2>1, <3>1 DEF UnderWay, Msg
  <2> QED BY <2>1, <2>4, <2>5, <2>6 DEF NothingMissing
<1> QED BY <1>1, <1>2, <1>3 DEF NothingMissing, UnderWay, Msg

\* Each step but the verdict leaves an undisturbed execution undisturbed.
LEMMA HandleUndisturbed ==
  ASSUME PathTyped, TypeOK, exec = "running", Undisturbed, NEW k \in Conns, Handle(k),
         Head(wire[k]).kind # "execution_result"
  PROVE  Undisturbed'
<1>1. /\ Follows /\ Done(Head(wire[k])) /\ ReadsFit'
      /\ UNCHANGED <<exec, reason, final, outcome, lost, whole>>
  BY HandleFollows
<1>2. /\ OfScript'
      /\ \A m : UnderWay(m) => m = Head(wire[k]) \/ UnderWay(m)'
  BY HandleOfScript DEF Undisturbed
<1>3. lost \/ NothingMissing'
  BY <1>1, <1>2, StillNothingMissing DEF Undisturbed
<1>4. RowsFit'
  BY <1>1, Unchanging DEF Follows, RowsFit
<1> QED BY <1>1, <1>2, <1>3, <1>4 DEF Undisturbed

\* So do what is sent and what a break does to it,
LEMMA SendBreakUndisturbed ==
  ASSUME PathTyped, Undisturbed, Send \/ Break
  PROVE  Undisturbed'
<1>1. UNCHANGED <<vars, outcome>> /\ UNCHANGED <<reason, row, read>>
  BY DEF Send, Break, vars
<1>2. \A r : RowVerdict(r)' = RowVerdict(r) /\ \A x : Fitting(r, x)' = Fitting(r, x)
  BY <1>1, Unchanging
<1>3. RowsFit' /\ ReadsFit'
  BY <1>1, <1>2 DEF Undisturbed, RowsFit, ReadsFit, Fits
<1>4. Follows
  BY <1>1 DEF Undisturbed, Follows, RowsFit
<1> DEFINE none == Msg("none", "none", "none")
<1>5. Done(none)
  BY DEF Done, Msg
<1> HIDE DEF none
<1>6. OfScript' /\ (lost => lost')
  BY SendOfScript, BreakOfScript DEF Undisturbed, Send
<1>7. ~lost' => NothingMissing'
  <2>1. ASSUME ~lost' PROVE \A m : UnderWay(m) /\ m.kind # "execution_result" => m = none \/ UnderWay(m)'
    BY <2>1, SendOfScript, BreakOfScript DEF Undisturbed
  <2>2. ASSUME ~lost' PROVE NothingMissing
    BY <1>6, <2>2 DEF Undisturbed
  <2> QED BY <1>1, <1>4, <1>5, <2>1, <2>2, StillNothingMissing
<1> QED BY <1>1, <1>3, <1>6, <1>7 DEF Undisturbed

\* and what a half-done suite_status writes.
LEMMA WriteSuiteUndisturbed ==
  ASSUME PathTyped, TypeOK, Undisturbed, NEW k \in Conns, WriteSuite(k), UNCHANGED pathVars
  PROVE  Undisturbed'
<1>1. UNCHANGED <<outcome, todo, verdict, wire, lost, reason>>
  BY DEF pathVars, WriteSuite
<1>2. outcome \in Outcome
  BY DEF PathTyped
<1>3. Follows
  BY <1>2, WriteSuiteFollows DEF Undisturbed
<1>4. RowsFit'
  BY <1>1, <1>3, Unchanging DEF Follows, RowsFit
<1>5. \A j \in Conns : read'[j] \subseteq read[j]
  BY DEF WriteSuite, TypeOK
<1>6. ReadsFit'
  BY <1>1, <1>5, Unchanging DEF Undisturbed, ReadsFit, Fits
<1>7. OfScript'
  BY <1>1, OutcomesDecide DEF Undisturbed, OfScript, OnlyEnd
<1> DEFINE none == Msg("none", "none", "none")
<1>8. Done(none)
  BY DEF Done, Msg
<1> HIDE DEF none
<1>9. \A m : UnderWay(m) => UnderWay(m)'
  BY <1>1 DEF UnderWay
<1>10. NothingMissing => NothingMissing'
  BY <1>1, <1>3, <1>8, <1>9, StillNothingMissing
<1> QED BY <1>1, <1>4, <1>6, <1>7, <1>10 DEF Undisturbed

\* No stored row makes the runner's verdict worse.
LEMMA VerdictStays ==
  ASSUME NEW v \in Told \ {"skipped"}, NEW S, \A x \in S : AtLeast(v, x)
  PROVE  /\ MergeExecutionStatus(v, S) = v
         /\ MergeTerminalStatus(v, IF S \cap Blocking = {} THEN "none"
                                   ELSE AggregateStatuses(S \cap Blocking)) = v
<1>1. \A x \in S \cap Blocking : AggregateStatuses({v, x}) = v
  BY DEF AtLeast, AsStopped, Told
<1>2. CASE v = "passed"
  <2>1. S \cap Blocking = {}
    BY <1>1, <1>2 DEF AggregateStatuses, AsStopped, Blocking
  <2> QED BY <1>2, <2>1 DEF MergeExecutionStatus, MergeTerminalStatus, AggregateStatuses, AsStopped, Blocking
<1>3. CASE v = "failed"
  <2>1. S \cap Blocking \subseteq {"failed", "stopped"}
    BY <1>1, <1>3 DEF AggregateStatuses, AsStopped, Blocking
  <2>2. AggregateStatuses({"failed"} \cup (S \cap Blocking)) = "failed"
    BY <2>1 DEF AggregateStatuses, AsStopped
  <2>3. S \cap Blocking # {} => AggregateStatuses(S \cap Blocking) \in {"failed", "stopped"}
    BY <2>1 DEF AggregateStatuses, AsStopped
  <2>4. \A x \in {"none", "failed", "stopped"} : MergeTerminalStatus("failed", x) = "failed"
    BY DEF MergeTerminalStatus, AggregateStatuses, AsStopped, Blocking
  <2> QED BY <1>3, <2>2, <2>3, <2>4 DEF MergeExecutionStatus, AsStopped
<1>4. CASE v = "error"
  <2>1. AggregateStatuses({"error"} \cup (S \cap Blocking)) = "error"
    BY DEF AggregateStatuses, AsStopped
  <2>2. \A x : MergeTerminalStatus("error", x) = "error"
    BY DEF MergeTerminalStatus, AggregateStatuses, AsStopped, Blocking
  <2> QED BY <1>4, <2>1, <2>2 DEF MergeExecutionStatus, AsStopped
<1> QED BY <1>2, <1>3, <1>4 DEF Told

\* The verdict covers each status that fits.
LEMMA FittingCovered ==
  ASSUME outcome \in Outcome, NEW r \in Rows, NEW x, Fitting(r, x)
  PROVE  AtLeast(Overall, x)
<1>1. Overall \in Told
  BY VerdictsTold
<1>2. \A y : y \in Open => AtLeast(Overall, y)
  BY DEF Open, AtLeast, Blocking
<1>3. CASE r \in Parents
  <2>1. AtLeast(Overall, RowVerdict(r)) /\ Fits(x, RowVerdict(r))
    BY <1>3, VerdictsTold DEF Fitting
  <2>2. CASE x = "failed" /\ RowVerdict(r) = "error"
    BY <1>1, <2>1, <2>2 DEF AtLeast, AggregateStatuses, AsStopped, Blocking, Told
  <2> QED BY <1>2, <2>1, <2>2 DEF Fits
<1>4. CASE r \notin Parents /\ r \in Seen
  BY <1>2, <1>4, ScriptSays DEF Fitting
<1>5. CASE r \notin Parents /\ r \notin Seen
  BY <1>2, <1>5 DEF Fitting, Open
<1> QED BY <1>3, <1>4, <1>5

\* The verdict, handled while the execution runs, becomes that of the execution;
\* when it is the last message and none is missing, all rows are what they are
\* to be.
LEMMA HandleVerdict ==
  ASSUME PathTyped, TypeOK, exec = "running", Undisturbed, ~final, NEW k \in Conns, Handle(k),
         Head(wire[k]).kind = "execution_result"
  PROVE  exec' = Overall /\ outcome' = outcome /\ ~final' /\ (whole' => Complete')
<1> DEFINE m == Head(wire[k])
<1>1. outcome \in Outcome /\ outcome' = outcome /\ RowsFit /\ OfScript /\ (lost \/ NothingMissing)
  BY DEF PathTyped, Handle, Undisturbed
<1>2. m.status = Overall
  <2>1. m \in ToSet(Script) /\ m.kind = "execution_result"
    BY <1>1, HandleOfScript
  <2> HIDE DEF m
  <2> QED BY <1>1, <2>1, ScriptTruth
<1>3. Accepting
  BY DEF Accepting
<1>4. /\ ExecutionResult(Overall)
      /\ whole' => ~lost /\ \A j \in Conns : wire'[j] = <<>>
  BY <1>2, <1>3 DEF Handle
<1> DEFINE S == {row[r] : r \in Parents \cup {l \in Leaves : ParentOf[l] \in Suites}}
<1>5. \A x \in S : AtLeast(Overall, x)
  BY <1>1, FittingCovered, Layout DEF RowsFit
<1>6. StoredTerminal = IF S \cap Blocking = {} THEN "none" ELSE AggregateStatuses(S \cap Blocking)
  BY DEF StoredTerminal
<1>7. Overall \in Told \ {"skipped"}
  BY <1>1, VerdictsTold
<1> HIDE DEF S
<1>8. MergeTerminalStatus(Overall, StoredTerminal) = Overall
  BY <1>5, <1>6, <1>7, VerdictStays
<1>9. /\ exec' = Overall /\ final' = final
      /\ row' = [r \in Rows |-> IF r \in Cases THEN SettledCase(row[r], Overall) ELSE row[r]]
  BY <1>4, <1>8 DEF ExecutionResult
<1>10. ASSUME whole' PROVE Complete'
  <2>1. ~lost /\ NothingMissing /\ \A j \in Conns : wire'[j] = <<>>
    BY <1>1, <1>4, <1>10
  <2>2. OnlyEnd(todo)
    <3>1. wire[k] \in Seq(Messages) /\ wire[k] # <<>>
      BY DEF PathTyped, Handle
    <3>2. 1 \in DOMAIN wire[k] /\ wire[k][1] = m
      BY <3>1, HeadAndTail
    <3>3. wire[k][1].kind = "execution_result"
      BY <3>2
    <3> HIDE DEF m
    <3> QED BY <1>1, <3>2, <3>3 DEF OfScript
  <2>3. ASSUME NEW x, UnderWay(x) PROVE x.kind = "execution_result"
    <3>1. x = m \/ UnderWay(x)'
      BY <1>1, <2>3, HandleOfScript
    <3>2. CASE x \in ToSet(todo')
      <4>1. todo' = todo
        BY DEF Handle
      <4> QED BY <2>2, <3>2, <4>1 DEF OnlyEnd, ToSet
    <3>3. \A j \in Conns : x \notin ToSet(wire'[j])
      BY <2>1 DEF ToSet
    <3> QED BY <3>1, <3>2, <3>3 DEF UnderWay
  <2>4. ASSUME NEW n \in Seen PROVE row[n] = Truth(n)
    <3>1. PICK x : x = Msg("node_result", n, outcome[n])
      OBVIOUS
    <3>2. x.kind # "execution_result"
      BY <3>1 DEF Msg
    <3>3. ~UnderWay(x)
      BY <2>3, <3>2
    <3> QED BY <2>1, <3>1, <3>3 DEF NothingMissing
  <2>5. ASSUME NEW c \in Cases PROVE row[c] = Truth(c)
    <3>1. PICK x : x = Msg("case_status", c, RowVerdict(c))
      OBVIOUS
    <3>2. x.kind # "execution_result"
      BY <3>1 DEF Msg
    <3>3. ~UnderWay(x)
      BY <2>3, <3>2
    <3> QED BY <2>1, <3>1, <3>3 DEF NothingMissing
  <2>6. \A c \in Cases : row'[c] = RowVerdict(c)
    <3> SUFFICES ASSUME NEW c \in Cases PROVE row'[c] = RowVerdict(c)
      OBVIOUS
    <3>1. row[c] = RowVerdict(c) /\ RowVerdict(c) \in Told /\ c \in Rows
      BY <1>1, <2>5, VerdictsTold, Layout DEF Truth
    <3>2. row'[c] = SettledCase(row[c], Overall)
      BY <1>9, <3>1
    <3> QED BY <3>1, <3>2 DEF SettledCase, Told
  <2>7. \A u \in Suites : Fits(row'[u], RowVerdict(u))
    <3> SUFFICES ASSUME NEW u \in Suites PROVE Fits(row'[u], RowVerdict(u))
      OBVIOUS
    <3>1. u \in Parents /\ u \in Rows /\ u \notin Cases
      BY Layout, LayoutAssumption
    <3>2. row'[u] = row[u]
      BY <1>9, <3>1
    <3> QED BY <1>1, <3>1, <3>2 DEF RowsFit, Fitting
  <2>8. \A n \in Nodes : row'[n] = IF n \in Seen THEN outcome[n] ELSE "pending"
    <3> SUFFICES ASSUME NEW n \in Nodes PROVE row'[n] = IF n \in Seen THEN outcome[n] ELSE "pending"
      OBVIOUS
    <3>1. n \notin Parents /\ n \notin Cases /\ n \in Rows
      BY LayoutAssumption DEF Rows, Leaves, Parents
    <3>2. row'[n] = row[n]
      BY <1>9, <3>1
    <3>3. row[n] = IF n \in Seen THEN outcome[n] ELSE "pending"
      BY <1>1, <2>4, <3>1 DEF RowsFit, Fitting, Truth
    <3> QED BY <3>2, <3>3
  <2> QED BY <1>1, <2>6, <2>7, <2>8, Unchanging, OutcomesDecide DEF Complete, Fits
<1> QED BY <1>1, <1>9, <1>10

\* The settlement turns complete rows into those that agree.
LEMMA SettleAgrees ==
  ASSUME outcome \in Outcome, outcome' = outcome, TypeOK, Complete, MarkTerminal(Overall)
  PROVE  exec' = Overall /\ final' /\ Agreement'
<1>1. Overall \in Told \ {"skipped"}
  BY VerdictsTold
<1>2. ASSUME NEW c \in Cases PROVE CaseEnd(c, Overall) = RowVerdict(c)
  <2>1. row[c] = RowVerdict(c) /\ RowVerdict(c) \in Told
    BY <1>2, VerdictsTold, Layout DEF Complete
  <2> QED BY <2>1 DEF CaseEnd, MergeCaseStatus, Told
<1>3. ASSUME NEW n \in Nodes
      PROVE  NormalizeStuckStatus(row[n], Overall) = IF n \in Seen THEN outcome[n] ELSE "skipped"
  <2>1. row[n] = IF n \in Seen THEN outcome[n] ELSE "pending"
    BY <1>3 DEF Complete
  <2>2. outcome[n] \in {"passed", "failed", "error"}
    BY <1>3 DEF Outcome
  <2> QED BY <2>1, <2>2 DEF NormalizeStuckStatus
<1>4. ASSUME NEW u \in Suites PROVE Fits(SuiteEnd(u, Overall), RowVerdict(u)) /\ SuiteEnd(u, Overall) \notin Open
  <2> DEFINE nodes == {n \in Nodes : ParentOf[n] = u}
             items == IF nodes # {} THEN nodes ELSE {s \in Steps : ParentOf[s] = u}
             nodeRows == {NormalizeStuckStatus(row[l], Overall) : l \in items}
             caseRows == {CaseEnd(c, Overall) : c \in {d \in Cases : SuiteOf[d] = u}}
             merged == AggregateStatuses(nodeRows \cup caseRows)
  <2>1. SuiteEnd(u, Overall) = IF row[u] \notin Open THEN row[u] ELSE merged
    BY <1>1 DEF SuiteEnd, Told, Open
  <2>2. items = nodes
    BY WalkAssumption, <1>4
  <2>3. nodeRows = {IF n \in Seen THEN outcome[n] ELSE "skipped" : n \in {x \in Nodes : ParentOf[x] = u}}
    BY <1>3, <2>2
  <2>4. caseRows = {RowVerdict(c) : c \in {d \in Cases : SuiteOf[d] = u}}
    BY <1>2
  <2> HIDE DEF nodeRows, caseRows
  <2>5. merged = SuiteVerdict(u)
    BY <2>3, <2>4, SuiteRebuilt
  <2>6. RowVerdict(u) = SuiteVerdict(u) /\ RowVerdict(u) \in Told
    BY SuiteCases, VerdictsTold, Layout
  <2>7. Fits(row[u], RowVerdict(u))
    BY DEF Complete
  <2> QED BY <2>1, <2>5, <2>6, <2>7 DEF Fits, Told, Open
<1> DEFINE parents == [r \in Parents |-> IF r \in Cases THEN CaseEnd(r, Overall) ELSE SuiteEnd(r, Overall)]
<1>5. /\ final'
      /\ row' = [r \in Rows |-> IF r \in Parents THEN parents[r] ELSE LeafEnd(r, Overall)]
      /\ exec' = MergeExecutionStatus(Overall, {parents[r] : r \in Parents})
  BY DEF MarkTerminal
<1>6. \A r \in Parents : parents[r] = IF r \in Cases THEN CaseEnd(r, Overall) ELSE SuiteEnd(r, Overall)
  OBVIOUS
<1> HIDE DEF parents
<1>7. ASSUME NEW r \in Parents PROVE AtLeast(Overall, parents[r])
  <2>1. Fits(parents[r], RowVerdict(r)) /\ r \in Rows
    BY <1>2, <1>4, <1>6, Layout DEF Fits
  <2> QED BY <2>1, FittingCovered DEF Fitting
<1>8. exec' = Overall
  <2>1. \A x \in {parents[r] : r \in Parents} : AtLeast(Overall, x)
    BY <1>7
  <2> QED BY <1>1, <1>5, <2>1, VerdictStays
<1>9. ASSUME NEW u \in Suites
      PROVE  row'[u] = SuiteVerdict(u) \/ (row'[u] = "failed" /\ SuiteVerdict(u) = "error")
  <2>1. row'[u] = SuiteEnd(u, Overall) /\ RowVerdict(u) = SuiteVerdict(u)
    BY <1>5, <1>6, SuiteCases, Layout
  <2> QED BY <1>4, <2>1 DEF Fits
<1>10. ASSUME NEW u \in Suites, NEW c \in ToSet(CasesOf[u]) PROVE row'[c] = CaseVerdict(u, c)
  <2>1. c \in Cases /\ RowVerdict(c) = CaseVerdict(u, c)
    BY SuiteCases
  <2>2. row'[c] = CaseEnd(c, Overall)
    BY <1>5, <1>6, <2>1, Layout
  <2> QED BY <1>2, <2>1, <2>2
<1>11. ASSUME NEW n \in Nodes PROVE row'[n] \in {outcome[n], "skipped"}
  <2>1. n \notin Parents /\ n \in Rows
    BY LayoutAssumption DEF Rows, Leaves, Parents
  <2>2. row'[n] = NormalizeStuckStatus(row[n], Overall)
    BY <1>5, <2>1 DEF LeafEnd
  <2> QED BY <1>3, <2>2
<1>12. Agreement'
  BY <1>8, <1>9, <1>10, <1>11, OutcomesDecide DEF Agreement
<1> QED BY <1>5, <1>8, <1>12

\* What leaves rows, verdict and outcomes alone.
LEMMA KeptAgrees ==
  ASSUME AgreeInv, exec # "running", UNCHANGED <<exec, final, row, outcome, whole>>
  PROVE  AgreeInv'
<1>1. exec' # "running"
  OBVIOUS
<1>2. Complete => Complete'
  BY OutcomesDecide, Unchanging DEF Complete, Fits
<1>3. Overall' = Overall
  BY OutcomesDecide
<1>4. Agreement'
  BY OutcomesDecide DEF AgreeInv, Agreement
<1> QED BY <1>1, <1>2, <1>3, <1>4 DEF AgreeInv

\* Nothing has come when the execution starts: all of it is still to be sent.
LEMMA AgreeInitially == PathInit => AgreeInv
<1> SUFFICES ASSUME PathInit PROVE AgreeInv
  OBVIOUS
<1>1. /\ outcome \in Outcome /\ todo = Script /\ verdict = "none" /\ exec = "running" /\ reason = "none"
      /\ wire = [k \in Conns |-> <<>>] /\ lost = FALSE /\ whole = FALSE /\ final = FALSE
      /\ row = [r \in Rows |-> "pending"] /\ read = [k \in Conns |-> {}]
  BY DEF PathInit, Outcome, Init
<1>2. RowsFit /\ ReadsFit
  BY <1>1 DEF RowsFit, Fitting, Fits, Open, ReadsFit
<1>3. OfScript
  <2>1. \A k \in Conns : wire[k] = <<>>
    BY <1>1
  <2>2. ToSet(<<>>) = {} /\ DOMAIN <<>> = {}
    BY DEF ToSet
  <2> QED BY <1>1, <2>1, <2>2, ScriptTold DEF OfScript
<1>4. NothingMissing
  <2>1. \A n \in Seen : UnderWay(Msg("node_result", n, outcome[n]))
    BY <1>1 DEF Seen, UnderWay
  <2>2. \A c \in Cases : UnderWay(Msg("case_status", c, RowVerdict(c)))
    BY <1>1, CasesAreTold DEF UnderWay
  <2> QED BY <2>1, <2>2 DEF NothingMissing
<1>5. Undisturbed
  BY <1>1, <1>2, <1>3, <1>4 DEF Undisturbed
<1> QED BY <1>1, <1>5 DEF AgreeInv, Agreement

\* An execution that ended with something left behind promises nothing.
LEMMA NotWhole ==
  ASSUME exec' # "running", ~whole'
  PROVE  AgreeInv'
BY DEF AgreeInv, Agreement

\* One with nothing left behind has the runner's verdict and takes no more.
LEMMA WholeEnded ==
  ASSUME AgreeInv, PathTyped, whole
  PROVE  exec = Overall /\ Overall \in Told \ {"skipped"} /\ ~Accepting /\ exec # "running"
BY VerdictsTold DEF AgreeInv, PathTyped, Accepting, Told

\* A message handled,
LEMMA HandleAgrees ==
  ASSUME PathTyped, TypeOK, AgreeInv, NEW k \in Conns, Handle(k)
  PROVE  AgreeInv'
<1> DEFINE m == Head(wire[k])
<1>1. CASE exec = "running"
  <2>1. Undisturbed /\ ~final /\ ~whole
    BY <1>1, WholeEnded DEF AgreeInv, TypeOK, TerminalStates
  <2>2. CASE m.kind # "execution_result"
    <3>1. UNCHANGED <<exec, reason, final, outcome, lost, whole>>
      BY <1>1, <2>1, <2>2, HandleFollows
    <3>2. Undisturbed'
      BY <1>1, <2>1, <2>2, HandleUndisturbed
    <3> QED BY <1>1, <2>1, <3>1, <3>2 DEF AgreeInv, Agreement
  <2>3. CASE m.kind = "execution_result"
    <3>1. exec' = Overall /\ outcome' = outcome /\ ~final' /\ (whole' => Complete')
      BY <1>1, <2>1, <2>3, HandleVerdict
    <3>2. Overall' = Overall /\ Overall # "running"
      BY <3>1, OutcomesDecide, VerdictsTold DEF PathTyped, Told
    <3> QED BY <3>1, <3>2 DEF AgreeInv, Agreement
  <2> QED BY <2>2, <2>3
<1>2. CASE exec # "running" /\ ~Accepting
  <2>1. UNCHANGED <<exec, final, row, outcome, whole>>
    BY <1>2 DEF Handle, ReadSuite, vars
  <2> QED BY <1>2, <2>1, KeptAgrees
<1>3. CASE exec = "stopping"
  <2>1. ~whole /\ reason # "none"
    BY <1>3, WholeEnded DEF Accepting, TypeOK
  <2>2. ~whole'
    BY <1>3, <2>1 DEF Handle
  <2>3. exec' # "running"
    <3>1. exec' = exec \/ \E st : ExecutionResult(st)
      BY DEF Handle, ReadSuite, NodeStarted, NodeResult, CaseStatus, vars
    <3>2. ASSUME NEW st, ExecutionResult(st) PROVE exec' \in {"error", "stopped"}
      BY <1>3, <3>2 DEF ExecutionResult
    <3> QED BY <1>3, <3>1, <3>2
  <2> QED BY <2>2, <2>3, NotWhole
<1> QED BY <1>1, <1>2, <1>3 DEF Accepting

\* a settlement,
LEMMA SettleKeepsAgreement ==
  ASSUME PathTyped, TypeOK, AgreeInv, NEW st \in TerminalStates, PathSettle(st)
  PROVE  AgreeInv'
<1>1. /\ ~final /\ MarkTerminal(st) /\ outcome' = outcome /\ whole' = (whole /\ st = exec)
  BY DEF PathSettle, Settle
<1>2. exec' # "running"
  <2>1. exec' \in TerminalStates
    BY <1>1, VerdictMerge DEF MarkTerminal
  <2> QED BY <2>1 DEF TerminalStates
<1>3. CASE ~whole'
  BY <1>2, <1>3, NotWhole
<1>4. CASE whole'
  <2>1. whole /\ st = Overall /\ Complete
    BY <1>1, <1>4, WholeEnded DEF AgreeInv
  <2>2. exec' = Overall /\ final' /\ Agreement'
    BY <1>1, <2>1, SettleAgrees DEF PathTyped
  <2>3. Overall' = Overall
    BY <1>1, OutcomesDecide
  <2> QED BY <1>2, <2>2, <2>3 DEF AgreeInv
<1> QED BY <1>3, <1>4

\* and every other step keep the invariant.
LEMMA AgreeStep ==
  PathTyped /\ TypeOK /\ AgreeInv /\ [PathNext]_<<vars, pathVars>> => AgreeInv'
<1> SUFFICES ASSUME PathTyped, TypeOK, AgreeInv, [PathNext]_<<vars, pathVars>>
             PROVE  AgreeInv'
  OBVIOUS
<1>1. CASE Send \/ Break
  <2>1. UNCHANGED <<exec, final, row, outcome, whole>>
    BY <1>1 DEF Send, Break, vars
  <2>2. CASE exec # "running"
    BY <2>1, <2>2, KeptAgrees
  <2>3. CASE exec = "running"
    <3>1. Undisturbed' /\ ~whole
      BY <1>1, <2>3, SendBreakUndisturbed, WholeEnded DEF AgreeInv
    <3> QED BY <2>1, <2>3, <3>1 DEF AgreeInv, Agreement
  <2> QED BY <2>2, <2>3
<1>2. CASE Stop
  <2>1. UNCHANGED <<exec, final, row, outcome, whole>> /\ reason # "none"
    BY <1>2 DEF Stop, vars
  <2>2. exec # "running"
    BY <2>1 DEF AgreeInv, Undisturbed
  <2> QED BY <2>1, <2>2, KeptAgrees
<1>3. ASSUME NEW k \in Conns, Handle(k) PROVE AgreeInv'
  BY <1>3, HandleAgrees
<1>4. ASSUME NEW k \in Conns, WriteSuite(k), UNCHANGED pathVars PROVE AgreeInv'
  <2>1. UNCHANGED <<exec, final, outcome, whole>>
    BY <1>4 DEF WriteSuite, pathVars
  <2>2. CASE exec = "running"
    <3>1. Undisturbed' /\ ~whole
      BY <1>4, <2>2, WriteSuiteUndisturbed, WholeEnded DEF AgreeInv
    <3> QED BY <2>1, <2>2, <3>1 DEF AgreeInv, Agreement
  <2>3. CASE exec = "stopping"
    <3>1. ~whole
      BY <2>3, WholeEnded DEF Accepting
    <3> QED BY <2>1, <2>3, <3>1, NotWhole
  <2>4. CASE ~Accepting /\ exec # "running"
    <3>1. row' = row
      BY <1>4, <2>4 DEF WriteSuite
    <3> QED BY <2>1, <2>4, <3>1, KeptAgrees
  <2> QED BY <2>2, <2>3, <2>4 DEF Accepting
<1>5. ASSUME NEW why \in {"user_stop", "timeout"}, RequestStop(why), UNCHANGED pathVars PROVE AgreeInv'
  <2>1. exec = "running" /\ exec' = "stopping" /\ whole' = whole
    BY <1>5 DEF RequestStop, pathVars
  <2>2. ~whole
    BY <2>1, WholeEnded
  <2> QED BY <2>1, <2>2, NotWhole
<1>6. ASSUME NEW st \in TerminalStates, PathSettle(st) PROVE AgreeInv'
  BY <1>6, SettleKeepsAgreement
<1>7. CASE UNCHANGED <<vars, pathVars>>
  <2>1. UNCHANGED <<exec, final, row, outcome, whole, reason, read, todo, wire, verdict, lost>>
    BY <1>7 DEF vars, pathVars
  <2>2. CASE exec # "running"
    BY <2>1, <2>2, KeptAgrees
  <2>3. CASE exec = "running"
    <3>1. ~whole
      BY <2>3, WholeEnded DEF AgreeInv
    <3>2. Undisturbed
      BY <2>3 DEF AgreeInv
    <3>3. RowsFit' /\ ReadsFit'
      BY <2>1, <3>2, Unchanging DEF Undisturbed, RowsFit, ReadsFit, Fits
    <3>4. OfScript'
      BY <2>1, <3>2, OutcomesDecide DEF Undisturbed, OfScript, OnlyEnd
    <3>5. NothingMissing => NothingMissing'
      BY <2>1, OutcomesDecide, Unchanging DEF NothingMissing, UnderWay, Msg
    <3>6. Undisturbed'
      BY <2>1, <3>2, <3>3, <3>4, <3>5 DEF Undisturbed
    <3> QED BY <2>1, <2>3, <3>1, <3>6 DEF AgreeInv, Agreement
  <2> QED BY <2>2, <2>3
<1> QED BY <1>1, <1>2, <1>3, <1>4, <1>5, <1>6, <1>7 DEF PathNext

\* When no message was lost or left behind and nobody asked for a stop, the rows
\* of a settled execution are what the runner saw, case by case and suite by
\* suite - but for a suite in error that a stale suite_status and a late result
\* may show as failed - however often the connection broke and messages were
\* repeated or overtook one another (_run_suite, the handlers of ws_handlers.py,
\* _mark_terminal).
THEOREM RowsAgree == PathSpec => []Agreement
<1>1. PathSpec => []TypeOK
  BY PathIsRows, RowsTyped, PTL
<1>2. PathSpec => []AgreeInv
  BY <1>1, AgreeInitially, AgreeStep, PathTypedAlways, PTL DEF PathSpec
<1>3. AgreeInv => Agreement
  BY DEF AgreeInv
<1> QED BY <1>2, <1>3, PTL
=============================================================================
