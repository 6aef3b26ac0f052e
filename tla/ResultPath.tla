----------------------------- MODULE ResultPath -----------------------------
(***************************************************************************)
(* The way of the results of one execution: the agent's test runner        *)
(* (agent/executor/test_runner.py, agent/main.py) walks through suites,    *)
(* cases and flow nodes and sends what it sees, message by message; the    *)
(* messages travel over a WebSocket that may break and be replaced         *)
(* (agent/ws_client.py, backend/app/ws/routes.py); the handlers of         *)
(* ResultRows write them down.                                             *)
(***************************************************************************)
EXTENDS ResultRows, Sequences, SequencesExt

CONSTANTS SuiteOrder,      \* suites[] of start_test
          CasesOf,         \* the cases of a suite, in order
          SetupOf, MainOf, TeardownOf,
                           \* flow nodes by phase, in order: SetupOf and
                           \* TeardownOf of suites and cases, MainOf of cases
          Assertions,      \* nodes of kind assertion, the others are actions
          Lenient,         \* nodes with continue_on_failure
          MaxConns,        \* bound: connections made
          MaxWire          \* bound: messages under way on a connection

ASSUME PathAssumption ==
  /\ MaxConns \in Nat \ {0} /\ Conns = 1 .. MaxConns /\ MaxWire \in Nat
  /\ Assertions \cup Lenient \subseteq Nodes
  /\ SuiteOrder \in Seq(Suites)
  /\ CasesOf \in [Suites -> Seq(Cases)]
  /\ SetupOf \in [Parents -> Seq(Nodes)] /\ TeardownOf \in [Parents -> Seq(Nodes)]
  /\ MainOf \in [Cases -> Seq(Nodes)]
  /\ Ended \ {"cancelled"} \subseteq Reports

\* What the runner walks over are the execution's rows: both are written from one
\* snapshot, and a suite with legacy steps has nodes as well.
ASSUME WalkAssumption ==
  /\ ToSet(SuiteOrder) = Suites
  /\ \A u \in Suites : ToSet(CasesOf[u]) = {c \in Cases : SuiteOf[c] = u}
  /\ \A r \in Parents : ToSet(SetupOf[r]) \cup ToSet(TeardownOf[r])
                         \cup (IF r \in Cases THEN ToSet(MainOf[r]) ELSE {})
                       = {n \in Nodes : ParentOf[n] = r}
  /\ \A s \in Steps : ParentOf[s] \in Suites => \E n \in Nodes : ParentOf[n] = ParentOf[s]

VARIABLES outcome,   \* what each node would come to if it is run
          todo,      \* messages the runner has still to send
          verdict,   \* the verdict it has sent and keeps until it is confirmed
          conn,      \* the connection the agent uses
          wire,      \* messages written and not yet handled, by connection
          lost,      \* a message was written and never came
          whole      \* the verdict was the last message to be handled, none is
                     \* missing, and the settlement has taken it over

pathVars == <<outcome, todo, verdict, conn, wire, lost, whole>>

-----------------------------------------------------------------------------
(* The runner: what it sends for given outcomes.                           *)

Msg(kind, r, st) == [kind |-> kind, row |-> r, status |-> st]

\* What may come of a node: an action that fails raises, an assertion fails.
OutcomesOf(n) == IF n \in Assertions THEN {"passed", "failed", "error"} ELSE {"passed", "error"}

\* An assertion that merely fails does not block what follows it.
Blocks(n) == outcome[n] # "passed" /\ ~(n \in Assertions /\ outcome[n] = "failed")

\* _run_flow_nodes: the nodes of a phase up to the one that halts it.
Ran(nodes) ==
  LET halts == {i \in DOMAIN nodes : Blocks(nodes[i]) /\ nodes[i] \notin Lenient}
  IN  IF halts = {} THEN nodes ELSE SubSeq(nodes, 1, Min(halts))

Halted(nodes)  == \E i \in DOMAIN nodes : Blocks(nodes[i]) /\ nodes[i] \notin Lenient
Blocked(nodes) == \E i \in DOMAIN Ran(nodes) : Blocks(nodes[i])

NodeMessages(nodes) ==
  FlattenSeq([i \in DOMAIN nodes |->
    <<Msg("node_started", nodes[i], "running"), Msg("node_result", nodes[i], outcome[nodes[i]])>>])

\* _run_case: a halted setup skips the main phase, the teardown always runs.
CaseRun(c) ==
  Ran(SetupOf[c]) \o (IF Halted(SetupOf[c]) THEN <<>> ELSE Ran(MainOf[c])) \o Ran(TeardownOf[c])

Outcomes(nodes) == {outcome[nodes[i]] : i \in DOMAIN nodes}

CaseVerdict(u, c) ==
  IF Blocked(SetupOf[u]) THEN "skipped" ELSE AggregateStatuses(Outcomes(CaseRun(c)))

\* Mutant: only the cases count.
SuiteVerdictOfCases(u) == AggregateStatuses({CaseVerdict(u, c) : c \in ToSet(CasesOf[u])})

\* _run_suite: a blocked setup skips the cases, the teardown always runs.
SuiteVerdict(u) ==
  AggregateStatuses(Outcomes(Ran(SetupOf[u])) \cup Outcomes(Ran(TeardownOf[u]))
                      \cup {CaseVerdict(u, c) : c \in ToSet(CasesOf[u])})

CaseMessages(u, c) ==
  IF Blocked(SetupOf[u]) THEN <<Msg("case_status", c, "skipped")>>
  ELSE <<Msg("case_status", c, "running")>> \o NodeMessages(CaseRun(c))
         \o <<Msg("case_status", c, CaseVerdict(u, c))>>

SuiteMessages(u) ==
  <<Msg("suite_status", u, "running")>> \o NodeMessages(Ran(SetupOf[u]))
    \o FlattenSeq([i \in DOMAIN CasesOf[u] |-> CaseMessages(u, CasesOf[u][i])])
    \o NodeMessages(Ran(TeardownOf[u])) \o <<Msg("suite_status", u, SuiteVerdict(u))>>

\* Mutant: the last suite decides.
OverallLast ==
  LET last == SuiteVerdict(SuiteOrder[Len(SuiteOrder)])
  IN  IF last = "skipped" THEN "passed" ELSE last

\* _run_execution: the verdict of all suites; an execution is never skipped.
Overall ==
  LET all == AggregateStatuses({SuiteVerdict(u) : u \in Suites})
  IN  IF all = "skipped" THEN "passed" ELSE all

Result(st) == Msg("execution_result", "none", st)

Script ==
  FlattenSeq([i \in DOMAIN SuiteOrder |-> SuiteMessages(SuiteOrder[i])]) \o <<Result(Overall)>>

\* _converge_stopped_suites: what is left to say when a stop cuts the script off
\* before its message m.
Converge(m) ==
  LET left(u) == \E i \in DOMAIN todo : todo[i] \in ToSet(SuiteMessages(u))
      told(u) == IF ~left(u) THEN <<>>
                 ELSE IF m \in ToSet(SuiteMessages(u)) THEN <<Msg("suite_status", u, "stopped")>>
                 ELSE <<Msg("suite_status", u, "skipped")>>
                        \o [i \in DOMAIN CasesOf[u] |-> Msg("case_status", CasesOf[u][i], "skipped")]
  IN  FlattenSeq([i \in DOMAIN SuiteOrder |-> told(SuiteOrder[i])]) \o <<Result("stopped")>>

Halves(s) == {SubSeq(s, 1, i) : i \in 0 .. Len(s)}
-----------------------------------------------------------------------------
PathInit ==
  /\ Init
  /\ outcome \in {o \in [Nodes -> {"passed", "failed", "error"}] :
                    \A n \in Nodes : o[n] \in OutcomesOf(n)}
  /\ todo = Script
  /\ verdict = "none" /\ conn = 1 /\ wire = [k \in Conns |-> <<>>]
  /\ lost = FALSE /\ whole = FALSE

\* AgentWSClient.send: the next message is written.
Send ==
  /\ todo # <<>> /\ Len(wire[conn]) < MaxWire
  /\ wire' = [wire EXCEPT ![conn] = Append(@, Head(todo))]
  /\ todo' = Tail(todo)
  /\ verdict' = IF Head(todo).kind = "execution_result" THEN Head(todo).status ELSE verdict
  /\ UNCHANGED <<vars, outcome, conn, lost, whole>>

\* stop_test cancels the run: the message it was about to send is given up.
Stop ==
  /\ reason # "none" /\ todo # <<>> /\ verdict = "none"
  /\ Result("stopped") \notin ToSet(todo)
  /\ todo' = Converge(Head(todo))
  /\ UNCHANGED <<vars, outcome, verdict, conn, wire, lost, whole>>

\* The connection breaks: the end of what was written is gone with it; the send
\* that meets the break may have written its message before it is repeated on
\* the next connection, and an unconfirmed verdict is sent again there.
Break ==
  /\ conn < MaxConns
  /\ conn' = conn + 1
  /\ \E last \in {<<>>} \cup (IF todo = <<>> THEN {} ELSE {<<Head(todo)>>}) :
       \E arrives \in Halves(wire[conn] \o last) :
         /\ wire' = [wire EXCEPT ![conn] = arrives]
         /\ lost' = (lost \/ \E i \in DOMAIN wire[conn] :
                                i > Len(arrives) /\ wire[conn][i].kind # "execution_result")
  /\ todo' = IF todo = <<>> THEN <<Result(verdict)>> ELSE todo
  /\ UNCHANGED <<vars, outcome, verdict, whole>>

\* One message of a connection is handled; the others may be under way on the
\* connection before or after it.
Handle(k) ==
  /\ wire[k] # <<>> /\ read[k] = {}
  /\ wire' = [wire EXCEPT ![k] = Tail(@)]
  /\ LET m == Head(wire[k])
         last == ~lost /\ \A j \in Conns : wire'[j] = <<>> /\ read[j] = {}
     IN
     IF m.kind = "suite_status" THEN ReadSuite(k, m.row, m.status) /\ UNCHANGED whole
     ELSE IF ~Accepting THEN UNCHANGED <<vars, whole>>
     ELSE \/ m.kind = "node_started"     /\ NodeStarted(m.row)          /\ UNCHANGED whole
          \/ m.kind = "node_result"      /\ NodeResult(m.row, m.status) /\ UNCHANGED whole
          \/ m.kind = "case_status"      /\ CaseStatus(m.row, m.status) /\ UNCHANGED whole
          \/ m.kind = "execution_result" /\ ExecutionResult(m.status)
                                         /\ whole' = (last /\ reason = "none")
  /\ UNCHANGED <<outcome, todo, verdict, conn, lost>>

PathSettle(st) ==
  /\ Settle(st)
  /\ whole' = (whole /\ st = exec)
  /\ UNCHANGED <<outcome, todo, verdict, conn, wire, lost>>

PathNext ==
  \/ Send \/ Stop \/ Break
  \/ \E k \in Conns : Handle(k)
  \/ \E k \in Conns : WriteSuite(k) /\ UNCHANGED pathVars
  \/ \E why \in {"user_stop", "timeout"} : RequestStop(why) /\ UNCHANGED pathVars
  \/ \E st \in TerminalStates : PathSettle(st)

PathSpec == PathInit /\ [][PathNext]_<<vars, pathVars>>
-----------------------------------------------------------------------------
\* When nothing was lost or left behind, the rows of a settled execution are what
\* the runner saw: the handlers' merges and the settlement rebuild, row by row,
\* the verdicts _run_flow_nodes, _run_case and _run_suite reached on their own.
\* With one exception, a suite that ended in error and is shown as failed: a
\* suite_status of an old connection that had read the suite before it waited
\* for the lock reopens the suite, and a late result closes it again.
Agreement ==
  final /\ whole =>
    /\ exec = Overall
    /\ \A u \in Suites :
         \/ row[u] = SuiteVerdict(u)
         \/ row[u] = "failed" /\ SuiteVerdict(u) = "error"
    /\ \A u \in Suites : \A c \in ToSet(CasesOf[u]) : row[c] = CaseVerdict(u, c)
    /\ \A n \in Nodes : row[n] \in {outcome[n], "skipped"}

\* The nodes the runner got to.
Seen == {n \in Nodes : Msg("node_result", n, outcome[n]) \in ToSet(Script)}

\* However messages are lost, repeated or overtaken: an execution nobody stopped
\* does not end better than any node the runner ran (_run_execution, whose
\* verdict makes up for the rows that never came).
NeverBetter == final /\ reason = "none" => \A n \in Seen : AtLeast(exec, outcome[n])

=============================================================================
