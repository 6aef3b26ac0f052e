------------------------- MODULE SessionTokens_proofs -------------------------
(***************************************************************************)
(* Theorems about the session tokens of ExecutionLifecycle: who may        *)
(* dispatch, what is delivered to an agent and how often, and what an      *)
(* agent's run and verdict belong to; for every value of the constants.    *)
(***************************************************************************)
EXTENDS ExecutionLifecycle_proofs

USE ExecsAssumption, DevicesAssumption, WorkersAssumption, BoundAssumption,
    FaultAssumption, StatusAssumption

Sending == {"send", "sendc", "record", "recordc", "undo"}
Unsent  == {"send", "sendc", "undo"}

\* A queued row has no session and no dispatch, an active one has a session;
\* tokens in rows and in tasks are of the claims made so far, so that the
\* next claim draws one that nobody has.
RowSessions ==
  \A e \in Execs : /\ status[e] = "queued" => token[e] = NoToken /\ dispatch[e] = "pending"
                   /\ Active(e) => token[e] # NoToken
                   /\ token[e] <= nclaim

\* A task between its first read and the dispatch has a token, and its
\* payload the same one if that is still the session; a task that has won
\* the dispatch keeps it until it has recorded or undone it, and before it
\* has sent nothing was delivered.
TaskSessions ==
  \A k \in Sessions :
    /\ tok[k] <= nclaim
    /\ pc[k] \in {"payload", "cas", "casfail"} => tok[k] # NoToken
    /\ pc[k] = "cas" /\ token[job[k]] = tok[k] => pay[k] = tok[k]
    /\ pc[k] \in Sending => /\ token[job[k]] = tok[k] /\ pay[k] = tok[k] /\ tok[k] # NoToken
                            /\ dispatch[job[k]] = "dispatching"
    /\ pc[k] \in Unsent => \A m \in sent : m[1] # job[k]

SingleSender ==
  \A j, k \in Sessions : pc[j] \in Sending /\ pc[k] \in Sending /\ job[j] = job[k] => j = k

\* What the agents hold was delivered to them.
AgentSessions ==
  /\ starts \subseteq sent
  /\ \A e \in Execs : /\ run[e] # NoToken => <<e, run[e]>> \in sent
                      /\ result[e] # NoResult => <<e, result[e].token>> \in sent

\* The inductive invariant of the sessions: what rows, tasks and deliveries
\* say of each other, and what the agents hold.
CoreInv ==
  /\ RowSessions /\ TaskSessions /\ SingleSender
  /\ DeliveredOnce /\ NoDispatchAnomaly
SessionInv == CoreInv /\ AgentSessions

-----------------------------------------------------------------------------
(* Steps that change no session: nothing goes back to the queue, starts or  *)
(* is dispatched.                                                           *)
Quiet ==
  /\ UNCHANGED <<token, dispatch>>
  /\ \A e \in Execs : /\ status'[e] \in {"queued", "running"} => status'[e] = status[e]
                      /\ Active(e)' => Active(e)

\* The rows a step leaves alone, and those it settles, are quiet.
LEMMA KeepRowsIsQuiet == UNCHANGED dbVars => Quiet
BY DEF dbVars, rowVars, Quiet, Active

\* A settlement is quiet (_mark_terminal).
LEMMA SettleIsQuiet ==
  ASSUME TypeOK, NEW e \in Execs, NEW v \in TerminalStates, MarkTerminal(e, v)
  PROVE  Quiet
<1>1. CASE finalized[e]
  BY <1>1, KeepRowsIsQuiet DEF MarkTerminal
<1>2. CASE ~finalized[e]
  <2>1. PICK u \in TerminalStates : status' = [status EXCEPT ![e] = u]
    BY <1>2, MergeIsTerminal DEF MarkTerminal
  <2>2. UNCHANGED <<token, dispatch>>
    BY <1>2 DEF MarkTerminal
  <2> QED BY <2>1, <2>2 DEF Quiet, Active, TypeOK, RowsTypeOK, TerminalStates
<1> QED BY <1>1, <1>2

\* The task of a refused dispatch keeps what it knows of its execution.
LEMMA QuietAnomaly ==
  ASSUME TypeOK, TypeOK', CoreInv, Quiet, NEW j \in Sessions, pc[j] = "casfail",
         token[job[j]] = tok[j], status'[job[j]] \notin TerminalStates \cup {"stopping"}
  PROVE  dispatch[job[j]] # "reserved"
<1>1. job[j] \in Execs
  BY DEF TypeOK, TasksTypeOK
<1>2. status'[job[j]] \in {"queued", "running"}
  <2>1. status' \in [Execs -> TerminalStates \cup {"queued", "running", "stopping"}]
    BY DEF TypeOK, RowsTypeOK, TerminalStates
  <2> QED BY <1>1, <2>1
<1> QED BY <1>1, <1>2 DEF CoreInv, NoDispatchAnomaly, Quiet, Terminal, TerminalStates

\* A quiet step that moves no task and delivers nothing keeps the invariant.
LEMMA QuietCore ==
  ASSUME TypeOK, TypeOK', CoreInv, Quiet, UNCHANGED <<nclaim, pc, job, tok, pay, sent>>
  PROVE  CoreInv'
<1>1. RowSessions'
  BY DEF CoreInv, RowSessions, Quiet
<1>2. TaskSessions' /\ SingleSender'
  BY DEF CoreInv, TaskSessions, SingleSender, Quiet
<1>3. DeliveredOnce'
  BY DEF CoreInv, DeliveredOnce, Quiet, TypeOK, AgentsTypeOK
<1>4. NoDispatchAnomaly'
  <2> SUFFICES ASSUME NEW k \in Sessions, pc[k] = "casfail", token[job[k]] = tok[k],
                      status'[job[k]] \notin TerminalStates \cup {"stopping"}
               PROVE  dispatch[job[k]] # "reserved"
    BY DEF NoDispatchAnomaly, Quiet, Terminal
  <2> QED BY QuietAnomaly
<1> QED BY <1>1, <1>2, <1>3, <1>4 DEF CoreInv

\* A quiet step keeps the invariant as far as rows and deliveries go, whatever
\* its task does.
LEMMA QuietRowsCore ==
  ASSUME TypeOK, CoreInv, Quiet, UNCHANGED <<nclaim, sent>>
  PROVE  RowSessions' /\ DeliveredOnce'
<1>1. RowSessions'
  BY DEF CoreInv, RowSessions, Quiet
<1>2. DeliveredOnce'
  BY DEF CoreInv, DeliveredOnce, Quiet, TypeOK, AgentsTypeOK
<1> QED BY <1>1, <1>2

\* So does one whose task leaves its work, or goes on sending or undoing what
\* it has not sent.
LEMMA MoveCore ==
  ASSUME TypeOK, TypeOK', CoreInv, Quiet, UNCHANGED <<nclaim, job, sent>>,
         NEW k \in Sessions, NEW s, Go(k, s),
         s \in {"done", "fail", "observe"} \/ (pc[k] \in Unsent /\ s \in Unsent)
  PROVE  CoreInv'
<1>1. RowSessions' /\ DeliveredOnce'
  BY QuietRowsCore
<1>2. /\ pc' = [pc EXCEPT ![k] = s]
      /\ \A j \in Sessions \ {k} : pc'[j] = pc[j] /\ tok'[j] = tok[j] /\ pay'[j] = pay[j]
      /\ s # "done" => tok' = tok /\ pay' = pay
      /\ tok'[k] \in {tok[k], NoToken}
  BY DEF Go, TypeOK, TasksTypeOK
<1>3. TaskSessions'
  <2> SUFFICES ASSUME NEW j \in Sessions
               PROVE  /\ tok'[j] <= nclaim
                      /\ pc'[j] \in {"payload", "cas", "casfail"} => tok'[j] # NoToken
                      /\ pc'[j] = "cas" /\ token[job[j]] = tok'[j] => pay'[j] = tok'[j]
                      /\ pc'[j] \in Sending => /\ token[job[j]] = tok'[j] /\ pay'[j] = tok'[j]
                                               /\ tok'[j] # NoToken
                                               /\ dispatch[job[j]] = "dispatching"
                      /\ pc'[j] \in Unsent => \A m \in sent : m[1] # job[j]
    BY DEF TaskSessions, Quiet, Sending, Unsent
  <2>1. CASE j # k
    BY <1>2, <2>1 DEF CoreInv, TaskSessions
  <2>2. CASE j = k
    <3>1. tok'[k] <= nclaim
      BY <1>2 DEF CoreInv, TaskSessions, TypeOK, TasksTypeOK, NoToken
    <3>2. CASE s \in {"done", "fail", "observe"}
      BY <1>2, <2>2, <3>1, <3>2 DEF Sending, Unsent, TypeOK, TasksTypeOK
    <3>3. CASE pc[k] \in Unsent /\ s \in Unsent
      BY <1>2, <2>2, <3>1, <3>3 DEF CoreInv, TaskSessions, Sending, Unsent, TypeOK, TasksTypeOK
    <3> QED BY <3>2, <3>3
  <2> QED BY <2>1, <2>2
<1>4. SingleSender'
  BY <1>2 DEF CoreInv, SingleSender, Sending, Unsent, TypeOK, TasksTypeOK
<1>5. NoDispatchAnomaly'
  <2> SUFFICES ASSUME NEW j \in Sessions, pc'[j] = "casfail", token[job[j]] = tok'[j],
                      status'[job[j]] \notin TerminalStates \cup {"stopping"}
               PROVE  dispatch[job[j]] # "reserved"
    BY DEF NoDispatchAnomaly, Quiet, Terminal
  <2>1. j # k
    BY <1>2 DEF Unsent, TypeOK, TasksTypeOK
  <2> QED BY <1>2, <2>1, QuietAnomaly
<1> QED BY <1>1, <1>3, <1>4, <1>5 DEF CoreInv

\* What TaskSessions says of one task.
TaskSession(k) ==
  /\ tok[k] <= nclaim
  /\ pc[k] \in {"payload", "cas", "casfail"} => tok[k] # NoToken
  /\ pc[k] = "cas" /\ token[job[k]] = tok[k] => pay[k] = tok[k]
  /\ pc[k] \in Sending => /\ token[job[k]] = tok[k] /\ pay[k] = tok[k] /\ tok[k] # NoToken
                          /\ dispatch[job[k]] = "dispatching"
  /\ pc[k] \in Unsent => \A m \in sent : m[1] # job[k]

\* A task that reads the session, builds its payload or is refused the
\* dispatch: what it knows afterwards is what it read.
LEMMA ReadCore ==
  ASSUME TypeOK, TypeOK', CoreInv, UNCHANGED dbVars, UNCHANGED <<nclaim, job, sent>>,
         NEW k \in Sessions,
         pc' = [pc EXCEPT ![k] = pc'[k]], tok' = [tok EXCEPT ![k] = tok'[k]],
         pay' = [pay EXCEPT ![k] = pay'[k]],
         pc'[k] \in {"payload", "cas", "casfail"}, TaskSession(k)',
         pc'[k] = "casfail" => \/ token[job[k]] # tok'[k]
                               \/ status[job[k]] # "running" \/ dispatch[job[k]] # "reserved"
                               \/ finalized[job[k]],
         RowsInv, pc[k] # "idle"
  PROVE  CoreInv'
<1>q. Quiet
  BY KeepRowsIsQuiet
<1>1. RowSessions' /\ DeliveredOnce'
  BY <1>q, QuietRowsCore
<1>2. \A j \in Sessions \ {k} : pc'[j] = pc[j] /\ tok'[j] = tok[j] /\ pay'[j] = pay[j]
  BY DEF TypeOK, TasksTypeOK
<1>3. TaskSessions'
  <2> SUFFICES ASSUME NEW j \in Sessions PROVE TaskSession(j)'
    BY DEF TaskSessions, TaskSession, Sending, Unsent
  <2>1. CASE j # k
    BY <1>2, <2>1, <1>q DEF CoreInv, TaskSessions, TaskSession, Quiet, Sending, Unsent
  <2> QED BY <2>1
<1>4. SingleSender'
  BY <1>2 DEF CoreInv, SingleSender, Sending
<1>5. NoDispatchAnomaly'
  <2> SUFFICES ASSUME NEW j \in Sessions, pc'[j] = "casfail", token[job[j]] = tok'[j],
                      status'[job[j]] \notin TerminalStates \cup {"stopping"}
               PROVE  dispatch[job[j]] # "reserved"
    BY DEF NoDispatchAnomaly, dbVars, rowVars, Terminal
  <2>1. CASE j # k
    BY <1>q, <1>2, <2>1, QuietAnomaly
  <2>2. CASE j = k
    <3>1. job[k] \in Execs /\ status'[job[k]] = status[job[k]]
      BY DEF TypeOK, TasksTypeOK, dbVars, rowVars
    <3>2. status[job[k]] \in {"queued", "running"} /\ ~finalized[job[k]]
      <4>1. status[job[k]] \notin TerminalStates \cup {"stopping"}
        BY <2>2, <3>1
      <4>2. status[job[k]] \in TerminalStates \cup {"queued", "running", "stopping"}
        BY <3>1 DEF TypeOK, RowsTypeOK
      <4>3. finalized[job[k]] => status[job[k]] \in TerminalStates
        BY <3>1 DEF RowsInv, Terminal
      <4> QED BY <4>1, <4>2, <4>3
    <3>3. tok'[k] # NoToken
      BY <2>2 DEF TaskSession
    <3>4. status[job[k]] = "running"
      BY <2>2, <3>1, <3>2, <3>3 DEF CoreInv, RowSessions
    <3> QED BY <2>2, <3>2, <3>4
  <2> QED BY <2>1, <2>2
<1> QED BY <1>1, <1>3, <1>4, <1>5 DEF CoreInv

\* The three reading steps of a task.
LEMMA ReadStepsCore ==
  ASSUME TypeOK, TypeOK', RowsInv, CoreInv, NEW k \in Sessions,
         \/ StartPhase(k) /\ Active(job[k])
         \/ BuildPayload(k)
         \/ BeginDispatch(k) /\ pc'[k] = "casfail"
  PROVE  CoreInv'
<1>e. pc[k] # "idle" /\ job[k] \in Execs
  BY DEF StartPhase, BuildPayload, BeginDispatch, TypeOK, TasksTypeOK
<1>1. CASE StartPhase(k) /\ Active(job[k])
  <2>1. /\ UNCHANGED dbVars /\ UNCHANGED <<nclaim, job, pay, sent>>
        /\ pc' = [pc EXCEPT ![k] = "payload"] /\ tok' = [tok EXCEPT ![k] = token[job[k]]]
    BY <1>1 DEF StartPhase, Terminal, Active, TerminalStates, TaskOnly, netVars
  <2>2. pc'[k] = "payload" /\ tok'[k] = token[job[k]] /\ pay' = [pay EXCEPT ![k] = pay'[k]]
    BY <2>1 DEF TypeOK, TasksTypeOK
  <2>3. TaskSession(k)'
    BY <1>e, <1>1, <2>1, <2>2 DEF TaskSession, CoreInv, RowSessions, Sending, Unsent
  <2> QED BY <1>e, <2>1, <2>2, <2>3, ReadCore
<1>2. CASE BuildPayload(k)
  <2>1. /\ UNCHANGED dbVars /\ UNCHANGED <<nclaim, job, tok, sent>> /\ token' = token
        /\ pc' = [pc EXCEPT ![k] = "cas"] /\ pay' = [pay EXCEPT ![k] = token[job[k]]]
    BY <1>2 DEF BuildPayload, TaskOnly, netVars, dbVars, rowVars
  <2>2. pc'[k] = "cas" /\ pay'[k] = token[job[k]] /\ tok' = [tok EXCEPT ![k] = tok'[k]]
    BY <2>1 DEF TypeOK, TasksTypeOK
  <2>3. TaskSession(k)'
    BY <1>e, <1>2, <2>1, <2>2 DEF BuildPayload, TaskSession, CoreInv, TaskSessions, Sending, Unsent
  <2> QED BY <1>e, <2>1, <2>2, <2>3, ReadCore
<1>3. CASE BeginDispatch(k) /\ pc'[k] = "casfail"
  <2>1. /\ UNCHANGED dbVars /\ UNCHANGED <<nclaim, job, tok, pay, sent>>
        /\ pc' = [pc EXCEPT ![k] = "casfail"]
        /\ \/ status[job[k]] # "running" \/ dispatch[job[k]] # "reserved"
           \/ token[job[k]] # tok[k] \/ finalized[job[k]]
    BY <1>3 DEF BeginDispatch, CanDispatch, Go, TaskOnly, netVars, dbVars, rowVars, queueVars, devVars,
       TypeOK, TasksTypeOK
  <2>2. pc'[k] = "casfail" /\ tok' = [tok EXCEPT ![k] = tok'[k]] /\ pay' = [pay EXCEPT ![k] = pay'[k]]
    BY <2>1 DEF TypeOK, TasksTypeOK
  <2>3. TaskSession(k)'
    BY <1>e, <1>3, <2>1, <2>2 DEF BeginDispatch, TaskSession, CoreInv, TaskSessions, Sending, Unsent
  <2> QED BY <1>e, <2>1, <2>2, <2>3, ReadCore
<1> QED BY <1>1, <1>2, <1>3

\* The task that wins the dispatch (begin_dispatch) is the only one that sends
\* for its execution, and nothing was delivered before it.
LEMMA WinCore ==
  ASSUME TypeOK, TypeOK', CoreInv, NEW k \in Sessions, BeginDispatch(k), pc'[k] # "casfail"
  PROVE  CoreInv'
<1> DEFINE e == job[k]
<1>1. /\ pc[k] = "cas" /\ status[e] = "running" /\ dispatch[e] = "reserved" /\ token[e] = tok[k]
      /\ dispatch' = [dispatch EXCEPT ![e] = "dispatching"] /\ pc' = [pc EXCEPT ![k] = "send"]
      /\ UNCHANGED <<status, token, nclaim, job, tok, pay, sent>>
  BY DEF BeginDispatch, CanDispatch, Go, TaskOnly, netVars, TypeOK, TasksTypeOK
<1>2. /\ e \in Execs /\ tok[k] # NoToken /\ pay[k] = tok[k]
      /\ \A m \in sent : m[1] # e
      /\ \A j \in Sessions : pc[j] \in Sending => job[j] # e
  BY <1>1 DEF TypeOK, TasksTypeOK, CoreInv, TaskSessions, DeliveredOnce
<1> HIDE DEF e
<1>3. RowSessions'
  BY <1>1, <1>2 DEF CoreInv, RowSessions, Active, TypeOK, RowsTypeOK
<1>4. TaskSessions'
  <2> SUFFICES ASSUME NEW j \in Sessions PROVE TaskSession(j)'
    BY DEF TaskSessions, TaskSession, Sending, Unsent
  <2>1. CASE j # k
    BY <1>1, <1>2, <2>1 DEF CoreInv, TaskSessions, TaskSession, Sending, Unsent, TypeOK,
       TasksTypeOK, RowsTypeOK
  <2>2. CASE j = k
    BY <1>1, <1>2, <2>2 DEF CoreInv, TaskSessions, TaskSession, Sending, Unsent, TypeOK,
       TasksTypeOK, RowsTypeOK, e
  <2> QED BY <2>1, <2>2
<1>5. SingleSender'
  BY <1>1, <1>2 DEF CoreInv, SingleSender, Sending, TypeOK, TasksTypeOK, e
<1>6. DeliveredOnce'
  BY <1>1, <1>2 DEF CoreInv, DeliveredOnce, TypeOK, RowsTypeOK, AgentsTypeOK
<1>7. NoDispatchAnomaly'
  BY <1>1, <1>2 DEF CoreInv, NoDispatchAnomaly, TypeOK, TasksTypeOK, RowsTypeOK, Terminal
<1> QED BY <1>3, <1>4, <1>5, <1>6, <1>7 DEF CoreInv

\* What is delivered belongs to the session that won the dispatch, and no
\* other task is about to send for the same execution.
LEMMA DeliverCore ==
  ASSUME TypeOK, TypeOK', CoreInv, NEW k \in Sessions, Deliver(k), pc[k] \in {"send", "sendc"},
         NEW s \in {"record", "recordc", "observe"}, Go(k, s),
         UNCHANGED <<dbVars, nclaim, job>>
  PROVE  CoreInv'
<1> DEFINE e == job[k]
<1>1. /\ sent' = sent \cup {<<e, pay[k]>>} /\ pc' = [pc EXCEPT ![k] = s]
      /\ UNCHANGED <<status, token, dispatch, nclaim, job, tok, pay>>
  BY DEF Deliver, Go, dbVars, rowVars
<1>2. /\ e \in Execs /\ token[e] = pay[k] /\ pay[k] # NoToken /\ dispatch[e] = "dispatching"
      /\ status[e] # "queued"
      /\ \A j \in Sessions \ {k} : pc[j] \in Sending => job[j] # e
  <2>1. e \in Execs /\ pc[k] \in Sending
    BY DEF TypeOK, TasksTypeOK, Sending
  <2>2. /\ token[e] = tok[k] /\ pay[k] = tok[k] /\ tok[k] # NoToken
        /\ dispatch[e] = "dispatching"
    BY <2>1 DEF CoreInv, TaskSessions
  <2>3. status[e] # "queued"
    BY <2>1, <2>2 DEF CoreInv, RowSessions
  <2>4. \A j \in Sessions \ {k} : pc[j] \in Sending => job[j] # e
    BY <2>1 DEF CoreInv, SingleSender
  <2> QED BY <2>1, <2>2, <2>3, <2>4
<1> HIDE DEF e
<1>3. RowSessions'
  BY <1>1 DEF CoreInv, RowSessions, Active
<1>4. TaskSessions'
  <2> SUFFICES ASSUME NEW j \in Sessions PROVE TaskSession(j)'
    BY DEF TaskSessions, TaskSession, Sending, Unsent
  <2>1. CASE j # k
    BY <1>1, <1>2, <2>1 DEF CoreInv, TaskSessions, TaskSession, Sending, Unsent, TypeOK, TasksTypeOK
  <2>2. CASE j = k
    BY <1>1, <1>2, <2>2 DEF CoreInv, TaskSessions, TaskSession, Sending, Unsent, TypeOK, TasksTypeOK
  <2> QED BY <2>1, <2>2
<1>5. SingleSender'
  BY <1>1 DEF CoreInv, SingleSender, Sending, TypeOK, TasksTypeOK
<1>6. DeliveredOnce'
  BY <1>1, <1>2 DEF CoreInv, DeliveredOnce
<1>7. NoDispatchAnomaly'
  BY <1>1 DEF CoreInv, NoDispatchAnomaly, TypeOK, TasksTypeOK, Terminal
<1> QED BY <1>3, <1>4, <1>5, <1>6, <1>7 DEF CoreInv

\* Recording the dispatch (mark_dispatched) is no other task's business.
LEMMA RecordCore ==
  ASSUME TypeOK, TypeOK', CoreInv, NEW k \in Sessions, pc[k] \in {"record", "recordc"},
         dispatch' = [dispatch EXCEPT ![job[k]] = "dispatched"],
         NEW s \in {"observe", "done"}, Go(k, s),
         UNCHANGED <<status, token, nclaim, job, sent>>
  PROVE  CoreInv'
<1> DEFINE e == job[k]
<1>1. /\ pc' = [pc EXCEPT ![k] = s] /\ tok'[k] \in {tok[k], NoToken}
      /\ \A j \in Sessions \ {k} : pc'[j] = pc[j] /\ tok'[j] = tok[j] /\ pay'[j] = pay[j]
  BY DEF Go, TypeOK, TasksTypeOK
<1>2. /\ e \in Execs /\ dispatch[e] = "dispatching" /\ status[e] # "queued"
      /\ dispatch' = [dispatch EXCEPT ![e] = "dispatched"]
      /\ \A j \in Sessions \ {k} : pc[j] \in Sending => job[j] # e
  <2>1. e \in Execs /\ pc[k] \in Sending
    BY DEF TypeOK, TasksTypeOK, Sending
  <2>2. /\ token[e] = tok[k] /\ pay[k] = tok[k] /\ tok[k] # NoToken
        /\ dispatch[e] = "dispatching"
    BY <2>1 DEF CoreInv, TaskSessions
  <2>3. status[e] # "queued"
    BY <2>1, <2>2 DEF CoreInv, RowSessions
  <2>4. \A j \in Sessions \ {k} : pc[j] \in Sending => job[j] # e
    BY <2>1 DEF CoreInv, SingleSender
  <2> QED BY <2>1, <2>2, <2>3, <2>4
<1> HIDE DEF e
<1>3. RowSessions'
  BY <1>2 DEF CoreInv, RowSessions, Active, TypeOK, RowsTypeOK
<1>4. TaskSessions'
  <2> SUFFICES ASSUME NEW j \in Sessions PROVE TaskSession(j)'
    BY DEF TaskSessions, TaskSession, Sending, Unsent
  <2>1. CASE j # k
    BY <1>1, <1>2, <2>1 DEF CoreInv, TaskSessions, TaskSession, Sending, Unsent, TypeOK,
       TasksTypeOK, RowsTypeOK
  <2>2. CASE j = k
    BY <1>1, <2>2 DEF CoreInv, TaskSessions, TaskSession, Sending, Unsent, TypeOK, TasksTypeOK, NoToken
  <2> QED BY <2>1, <2>2
<1>5. SingleSender'
  BY <1>1 DEF CoreInv, SingleSender, Sending, TypeOK, TasksTypeOK
<1>6. DeliveredOnce'
  BY <1>2 DEF CoreInv, DeliveredOnce, TypeOK, RowsTypeOK, AgentsTypeOK
<1>7. NoDispatchAnomaly'
  BY <1>1, <1>2 DEF CoreInv, NoDispatchAnomaly, TypeOK, TasksTypeOK, RowsTypeOK, Terminal
<1> QED BY <1>3, <1>4, <1>5, <1>6, <1>7 DEF CoreInv

\* An execution goes back to the queue only when nothing of it was delivered
\* and no task is sending for it.
LEMMA RequeueCore ==
  ASSUME TypeOK, TypeOK', CoreInv, NEW e \in Execs, Requeued(e),
         UNCHANGED <<nclaim, job, sent>>,
         \A j \in Sessions : \/ pc'[j] = pc[j] /\ tok'[j] = tok[j] /\ pay'[j] = pay[j]
                             \/ pc'[j] = "done" /\ tok'[j] = NoToken,
         \A j \in Sessions : pc'[j] \in Sending => job[j] # e,
         \A m \in sent : m[1] # e
  PROVE  CoreInv'
<1>1. /\ status' = [status EXCEPT ![e] = "queued"] /\ token' = [token EXCEPT ![e] = NoToken]
      /\ dispatch' = [dispatch EXCEPT ![e] = "pending"]
  BY DEF Requeued, Restore
<1>2. RowSessions'
  BY <1>1 DEF CoreInv, RowSessions, Active, TypeOK, RowsTypeOK, TasksTypeOK, NoToken
<1>3. TaskSessions'
  <2> SUFFICES ASSUME NEW j \in Sessions PROVE TaskSession(j)'
    BY DEF TaskSessions, TaskSession, Sending, Unsent
  <2>1. CASE pc'[j] = "done" /\ tok'[j] = NoToken
    BY <2>1 DEF TaskSession, Sending, Unsent, TypeOK, TasksTypeOK, NoToken
  <2>2. CASE pc'[j] = pc[j] /\ tok'[j] = tok[j] /\ pay'[j] = pay[j]
    <3>1. pc[j] = "cas" /\ token'[job[j]] = tok[j] => job[j] # e
      BY <1>1 DEF CoreInv, TaskSessions, TypeOK, RowsTypeOK
    <3>2. \A f \in Execs \ {e} : token'[f] = token[f] /\ dispatch'[f] = dispatch[f]
      BY <1>1 DEF TypeOK, RowsTypeOK
    <3>3. pc[j] # "idle" => job[j] \in Execs
      BY DEF TypeOK, TasksTypeOK
    <3>4. pc[j] \in Sending \cup Unsent => job[j] # e
      BY <2>2 DEF Sending, Unsent
    <3>5. TaskSession(j)
      BY DEF CoreInv, TaskSessions, TaskSession
    <3>6. CASE pc[j] = "idle" \/ job[j] = e
      BY <2>2, <3>1, <3>4, <3>5, <3>6 DEF TaskSession, Sending, Unsent
    <3>7. CASE pc[j] # "idle" /\ job[j] # e
      BY <2>2, <3>2, <3>3, <3>5, <3>7 DEF TaskSession, Sending, Unsent
    <3> QED BY <3>6, <3>7
  <2> QED BY <2>1, <2>2
<1>4. SingleSender'
  BY DEF CoreInv, SingleSender, Sending
<1>5. DeliveredOnce'
  BY <1>1 DEF CoreInv, DeliveredOnce, TypeOK, RowsTypeOK, AgentsTypeOK
<1>6. NoDispatchAnomaly'
  <2> SUFFICES ASSUME NEW j \in Sessions, pc'[j] = "casfail", token'[job[j]] = tok'[j],
                      status'[job[j]] \notin TerminalStates \cup {"stopping"}
               PROVE  dispatch'[job[j]] # "reserved"
    BY DEF NoDispatchAnomaly, Terminal
  <2>1. pc[j] = "casfail" /\ tok'[j] = tok[j] /\ tok[j] # NoToken /\ job[j] \in Execs
    BY DEF CoreInv, TaskSessions, TypeOK, TasksTypeOK
  <2>2. job[j] # e
    BY <1>1, <2>1 DEF TypeOK, RowsTypeOK
  <2> QED BY <1>1, <2>1, <2>2 DEF CoreInv, NoDispatchAnomaly, TypeOK, RowsTypeOK, Terminal
<1> QED BY <1>2, <1>3, <1>4, <1>5, <1>6 DEF CoreInv

\* A claim draws a token that no row and no task has.
LEMMA ClaimCore ==
  ASSUME TypeOK, TypeOK', CoreInv, NEW w \in Workers, NEW e \in Execs, Claim(w, e)
  PROVE  CoreInv'
<1> DEFINE k == nclaim + 1
<1>1. /\ status[e] = "queued" /\ status' = [status EXCEPT ![e] = "running"]
      /\ dispatch' = [dispatch EXCEPT ![e] = "reserved"] /\ token' = [token EXCEPT ![e] = k]
      /\ pc' = [pc EXCEPT ![k] = "start"] /\ job' = [job EXCEPT ![k] = e]
      /\ nclaim' = k /\ UNCHANGED <<tok, pay, sent>>
  BY DEF Claim, Runnable, Waiting, netVars
<1>2. k \in Sessions /\ k # NoToken /\ nclaim \in Nat
  BY DEF Claim, TypeOK, TasksTypeOK, Sessions, NoToken
<1>3. /\ \A j \in Sessions : tok[j] <= nclaim /\ tok[j] # k /\ tok[j] <= k
      /\ \A f \in Execs : token[f] <= nclaim /\ token[f] <= k
  <2>1. /\ \A j \in Sessions : tok[j] <= nclaim /\ tok[j] \in Nat
        /\ \A f \in Execs : token[f] <= nclaim /\ token[f] \in Nat
    <3>1. /\ \A j \in Sessions : tok[j] <= nclaim
          /\ \A f \in Execs : token[f] <= nclaim
      BY DEF CoreInv, TaskSessions, RowSessions
    <3>2. /\ \A j \in Sessions : tok[j] \in Sessions \cup {NoToken}
          /\ \A f \in Execs : token[f] \in Sessions \cup {NoToken}
      BY DEF TypeOK, TasksTypeOK, RowsTypeOK
    <3>3. Sessions \cup {NoToken} \subseteq Nat
      BY DEF Sessions, NoToken
    <3> QED BY <3>1, <3>2, <3>3
  <2> QED BY <1>2, <2>1
<1>4. /\ \A j \in Sessions : pc[j] \in Sending => job[j] # e
      /\ \A m \in sent : m[1] # e
  BY <1>1 DEF CoreInv, TaskSessions, RowSessions, DeliveredOnce, Sending
<1>5. \A f \in Execs \ {e} : token'[f] = token[f] /\ dispatch'[f] = dispatch[f] /\ status'[f] = status[f]
  BY <1>1 DEF TypeOK, RowsTypeOK
<1>6. /\ \A j \in Sessions \ {k} : pc'[j] = pc[j] /\ job'[j] = job[j]
      /\ pc'[k] = "start"
      /\ token'[e] = k /\ dispatch'[e] = "reserved" /\ status'[e] = "running"
  BY <1>1, <1>2 DEF TypeOK, TasksTypeOK, RowsTypeOK
<1> HIDE DEF k
<1>7. RowSessions'
  <2> SUFFICES ASSUME NEW f \in Execs
               PROVE  /\ status'[f] = "queued" => token'[f] = NoToken /\ dispatch'[f] = "pending"
                      /\ Active(f)' => token'[f] # NoToken
                      /\ token'[f] <= k
    BY <1>1 DEF RowSessions
  <2>1. CASE f = e
    <3>1. k <= k
      BY <1>2 DEF k
    <3> QED BY <2>1, <3>1, <1>2, <1>6
  <2>2. CASE f # e
    BY <2>2, <1>3, <1>5 DEF CoreInv, RowSessions, Active
  <2> QED BY <2>1, <2>2
<1>8. TaskSessions'
  <2> SUFFICES ASSUME NEW j \in Sessions PROVE TaskSession(j)'
    BY DEF TaskSessions, TaskSession, Sending, Unsent
  <2>1. CASE j = k
    BY <2>1, <1>1, <1>3, <1>6 DEF TaskSession, Sending, Unsent
  <2>2. CASE j # k
    <3>1. pc[j] # "idle" => job[j] \in Execs
      BY DEF TypeOK, TasksTypeOK
    <3> QED BY <2>2, <3>1, <1>1, <1>3, <1>4, <1>5, <1>6
            DEF TaskSession, CoreInv, TaskSessions, Sending, Unsent
  <2> QED BY <2>1, <2>2
<1>9. SingleSender'
  BY <1>6 DEF CoreInv, SingleSender, Sending
<1>10. DeliveredOnce'
  BY <1>1, <1>4, <1>5 DEF CoreInv, DeliveredOnce, TypeOK, AgentsTypeOK
<1>11. NoDispatchAnomaly'
  <2> SUFFICES ASSUME NEW j \in Sessions, pc'[j] = "casfail", token'[job'[j]] = tok[j],
                      status'[job'[j]] \notin TerminalStates \cup {"stopping"}
               PROVE  dispatch'[job'[j]] # "reserved"
    BY <1>1 DEF NoDispatchAnomaly, Terminal
  <2>1. j # k /\ pc[j] = "casfail" /\ job'[j] = job[j] /\ job[j] \in Execs
    BY <1>6 DEF TypeOK, TasksTypeOK
  <2>2. job[j] # e
    BY <2>1, <1>3, <1>6
  <2> QED BY <2>1, <2>2, <1>5 DEF CoreInv, NoDispatchAnomaly, Terminal
<1> QED BY <1>7, <1>8, <1>9, <1>10, <1>11 DEF CoreInv

\* Every step of a worker task keeps the sessions.
LEMMA TaskCore ==
  ASSUME TypeOK, TypeOK', RowsInv, CoreInv, NEW k \in Sessions, TaskStep(k)
  PROVE  CoreInv'
<1>0. pc[k] # "idle" /\ job[k] \in Execs
  BY DEF TaskStep, StartPhase, BuildPayload, TransactionFails, BeginDispatch,
         HandleCasFailure, SendOk, SendRejected, SendUncertain, CancelSend, RecordDispatch,
         Observe, FinalizeError, CancelUnstarted, CancelBeforeDispatch, UndoDispatch, Die,
         TypeOK, TasksTypeOK
<1> DEFINE e == job[k]
<1>t. TaskOnly => UNCHANGED <<nclaim, job, sent>>
  BY DEF TaskOnly, netVars
<1>v. {"error", "stopped"} \subseteq TerminalStates /\ (Terminal(e) => status[e] \in TerminalStates)
  BY DEF TerminalStates, Terminal
\* Tasks that settle, or change no row, and leave their work.
<1>q. ASSUME Quiet, TaskOnly, NEW s \in {"done", "fail", "observe"}, Go(k, s) PROVE CoreInv'
  BY <1>q, <1>t, MoveCore
\* Tasks that give their execution back.
<1>r. ASSUME Requeued(e), TaskOnly, Go(k, "done"),
             dispatch[e] = "reserved" \/ pc[k] = "undo"
      PROVE  CoreInv'
  <2>1. \A j \in Sessions : \/ j # k /\ pc'[j] = pc[j] /\ tok'[j] = tok[j] /\ pay'[j] = pay[j]
                            \/ j = k /\ pc'[j] = "done" /\ tok'[j] = NoToken
    BY <1>r DEF Go, TypeOK, TasksTypeOK
  <2>2. CASE dispatch[e] = "reserved"
    <3>1. /\ \A j \in Sessions : pc[j] \in Sending => job[j] # e
          /\ \A m \in sent : m[1] # e
      BY <2>2 DEF CoreInv, TaskSessions, DeliveredOnce
    <3>2. \A j \in Sessions : pc'[j] \in Sending => job[j] # e
      BY <2>1, <3>1 DEF Sending
    <3> QED BY <1>0, <1>r, <1>t, <2>1, <3>1, <3>2, RequeueCore
  <2>3. CASE pc[k] = "undo"
    <3>1. /\ \A j \in Sessions \ {k} : pc[j] \in Sending => job[j] # e
          /\ \A m \in sent : m[1] # e
      BY <2>3 DEF CoreInv, TaskSessions, SingleSender, Sending, Unsent
    <3>2. \A j \in Sessions : pc'[j] \in Sending => job[j] # e
      BY <2>1, <3>1 DEF Sending
    <3> QED BY <1>0, <1>r, <1>t, <2>1, <3>1, <3>2, RequeueCore
  <2> QED BY <1>r, <2>2, <2>3
<1>1. CASE StartPhase(k)
  <2>1. CASE Active(e)
    BY <1>1, <2>1, ReadStepsCore
  <2>2. CASE ~Active(e)
    BY <1>0, <1>1, <1>q, <1>v, <2>2, SettleIsQuiet, KeepRowsIsQuiet DEF StartPhase
  <2> QED BY <2>1, <2>2
<1>2. CASE BuildPayload(k)
  BY <1>2, ReadStepsCore
<1>3. CASE TransactionFails(k) \/ Die(k)
  BY <1>3, <1>q, KeepRowsIsQuiet DEF TransactionFails, Die
<1>4. CASE BeginDispatch(k)
  BY <1>4, ReadStepsCore, WinCore
<1>5. CASE HandleCasFailure(k)
  <2>1. Quiet
    BY <1>0, <1>5, <1>v, SettleIsQuiet, KeepRowsIsQuiet DEF HandleCasFailure
  <2> QED BY <1>5, <1>q, <2>1 DEF HandleCasFailure
<1>6. CASE SendOk(k)
  BY <1>6, DeliverCore DEF SendOk
<1>7. CASE SendRejected(k)
  <2>1. CASE pc[k] = "send"
    BY <1>7, <2>1, <1>q, KeepRowsIsQuiet DEF SendRejected
  <2>2. CASE pc[k] = "sendc"
    BY <1>7, <2>2, <1>t, MoveCore, KeepRowsIsQuiet DEF SendRejected, Unsent
  <2> QED BY <1>7, <2>1, <2>2 DEF SendRejected
<1>8. CASE SendUncertain(k)
  <2>1. CASE Deliver(k)
    BY <1>8, <2>1, DeliverCore DEF SendUncertain
  <2>2. CASE UNCHANGED netVars
    BY <1>8, <2>2, MoveCore, KeepRowsIsQuiet DEF SendUncertain, netVars
  <2> QED BY <1>8, <2>1, <2>2 DEF SendUncertain
<1>9. CASE CancelSend(k)
  BY <1>9, <1>t, MoveCore, KeepRowsIsQuiet DEF CancelSend, Unsent
<1>10. CASE RecordDispatch(k)
  <2> DEFINE marked == CanMarkDispatched(e, tok[k])
  <2>1. CASE marked
    <3>1. /\ dispatch' = [dispatch EXCEPT ![e] = "dispatched"] /\ UNCHANGED <<status, token>>
          /\ pc[k] \in {"record", "recordc"} /\ TaskOnly
          /\ Go(k, "observe") \/ Go(k, "done")
      BY <1>10, <2>1 DEF RecordDispatch
    <3> QED BY <1>t, <3>1, RecordCore
  <2>2. CASE ~marked
    <3>1. Go(k, "done") /\ TaskOnly
      BY <1>10, <2>2 DEF RecordDispatch
    <3>2. Quiet
      BY <1>0, <1>10, <1>v, <2>2, SettleIsQuiet, KeepRowsIsQuiet DEF RecordDispatch
    <3> QED BY <1>q, <3>1, <3>2
  <2> QED BY <2>1, <2>2
<1>11. CASE Observe(k) \/ FinalizeError(k)
  BY <1>0, <1>11, <1>q, <1>v, SettleIsQuiet DEF Observe, FinalizeError
<1>12. CASE CancelUnstarted(k)
  BY <1>12, <1>r DEF CancelUnstarted, CanRestore, Requeued
<1>13. CASE CancelBeforeDispatch(k)
  <2>1. CASE MarkTerminal(e, "stopped")
    BY <1>0, <1>13, <1>q, <1>v, <2>1, SettleIsQuiet DEF CancelBeforeDispatch
  <2>2. CASE CanRestore(e, tok[k], by[k], "reserved") /\ Restore(e)
    BY <1>13, <1>r, <2>2 DEF CancelBeforeDispatch, CanRestore, Requeued
  <2> QED BY <1>13, <2>1, <2>2 DEF CancelBeforeDispatch
<1>14. CASE UndoDispatch(k)
  <2>1. CASE MarkTerminal(e, "stopped") \/ UNCHANGED dbVars
    BY <1>0, <1>14, <1>q, <1>v, <2>1, SettleIsQuiet, KeepRowsIsQuiet DEF UndoDispatch
  <2>2. CASE CanRestore(e, tok[k], by[k], "dispatching") /\ Restore(e)
    BY <1>14, <1>r, <2>2 DEF UndoDispatch, CanRestore, Requeued
  <2> QED BY <1>14, <2>1, <2>2 DEF UndoDispatch
<1> QED BY <1>1, <1>2, <1>3, <1>4, <1>5, <1>6, <1>7, <1>8, <1>9, <1>10, <1>11, <1>12,
           <1>13, <1>14 DEF TaskStep

\* The endpoints, the scans and the agents keep the sessions: only the
\* reclaim of a stale reservation gives an execution back.
LEMMA RowCore ==
  ASSUME TypeOK, TypeOK', RowsInv, CoreInv, NEW e \in Execs, RowStep(e) \/ AgentStep(e)
  PROVE  CoreInv'
<1>v. {"error", "stopped"} \subseteq TerminalStates /\ (Terminal(e) => status[e] \in TerminalStates)
  BY DEF TerminalStates, Terminal
<1>q. ASSUME Quiet PROVE CoreInv'
  <2>1. UNCHANGED <<nclaim, pc, job, tok, pay, sent>>
    BY DEF RowStep, AgentStep, SettleUnavailable, ReadQueued, StopQueued, CloseQueueRow,
       StopRunning, RequestTimeoutStop, SendStop, ForceEnd, FinalizeScan, ReclaimSelect,
       ReclaimRunning, ReclaimRow, ReclaimWrite, ReclaimTo, ScanOnly, ReceiveStop, ServerResult, Confirm, AgentFinish, taskVars, netVars
  <2> QED BY <1>q, <2>1, QuietCore
<1>1. CASE SettleUnavailable(e) \/ ForceEnd(e) \/ FinalizeScan(e)
  BY <1>1, <1>q, <1>v, SettleIsQuiet DEF SettleUnavailable, ForceEnd, FinalizeScan
<1>2. CASE ReadQueued(e) \/ SendStop(e) \/ Confirm(e) \/ ReceiveStop(e)
           \/ \E s \in AgentStatuses : AgentFinish(e, s)
  BY <1>2, <1>q, KeepRowsIsQuiet DEF ReadQueued, SendStop, Confirm, ReceiveStop, AgentFinish
<1>3. CASE StopQueued(e) \/ CloseQueueRow(e)
  <2>1. UNCHANGED <<token, dispatch>> /\ (status' = status \/ status' = [status EXCEPT ![e] = "cancelled"])
    BY <1>3 DEF StopQueued, CloseQueueRow, rowVars
  <2> QED BY <1>q, <2>1 DEF Quiet, Active, TypeOK, RowsTypeOK
<1>4. CASE StopRunning(e) \/ RequestTimeoutStop(e)
  <2>1. /\ UNCHANGED <<token, dispatch>> /\ status[e] = "running"
        /\ status' = [status EXCEPT ![e] = "stopping"]
    BY <1>4 DEF StopRunning, StopRow, RequestTimeoutStop
  <2> QED BY <1>q, <2>1 DEF Quiet, Active, TypeOK, RowsTypeOK
<1>5. CASE ReclaimRunning(e)
  <2>1. CASE MarkTerminal(e, "error")
    BY <1>q, <1>v, <2>1, SettleIsQuiet
  <2>2. CASE Requeued(e) /\ dispatch[e] = "reserved"
    <3>1. UNCHANGED <<nclaim, pc, job, tok, pay, sent>>
      BY <1>5 DEF ReclaimRunning, ReclaimTo, taskVars
    <3>2. /\ \A j \in Sessions : pc[j] \in Sending => job[j] # e
          /\ \A m \in sent : m[1] # e
      BY <2>2 DEF CoreInv, TaskSessions, DeliveredOnce
    <3> QED BY <2>2, <3>1, <3>2, RequeueCore
  <2>3. CASE UNCHANGED dbVars
    BY <1>q, <2>3, KeepRowsIsQuiet
  <2> QED BY <1>5, <2>1, <2>2, <2>3 DEF ReclaimRunning, CanRestore, Requeued
<1>6. CASE ReclaimSelect(e) \/ ReclaimRow(e) \/ ReclaimWrite(e)
  <2>1. MarkTerminal(e, "error") \/ UNCHANGED rowVars
    BY <1>6 DEF ReclaimSelect, ReclaimRow, ReclaimWrite, dbVars
  <2> QED BY <1>q, <1>v, <2>1, SettleIsQuiet DEF Quiet, rowVars, Active
<1>7. CASE ServerResult(e)
  <2>1. Judged(e) /\ UNCHANGED <<token, dispatch>>
    <3>1. PICK c \in ChildSets :
            status' = [status EXCEPT ![e] =
                    IF status[e] = "stopping" /\ reason[e] = "timeout" THEN "error"
                    ELSE IF status[e] = "stopping" /\ reason[e] = "user_stop" THEN "stopped"
                    ELSE MergeTerminalStatus(result[e].status, WorstOf(c))]
      BY <1>7 DEF ServerResult
    <3>2. MergeTerminalStatus(result[e].status, WorstOf(c)) \in TerminalStates
      BY ServerMergeIsTerminal
    <3>3. UNCHANGED <<token, dispatch, finalized, lock, dev>> /\ Active(e)
      BY <1>7 DEF ServerResult, devVars
    <3> QED BY <3>1, <3>2, <3>3, <1>v DEF Judged
  <2>2. PICK u \in TerminalStates : status' = [status EXCEPT ![e] = u]
    BY <2>1 DEF Judged
  <2>3. Quiet
    BY <2>1, <2>2 DEF Quiet, Active, TypeOK, RowsTypeOK, TerminalStates
  <2> QED BY <1>q, <2>3
<1> QED BY <1>1, <1>2, <1>3, <1>4, <1>5, <1>6, <1>7 DEF RowStep, AgentStep

\* Every step keeps the sessions of rows, tasks and deliveries.
LEMMA NextCore ==
  ASSUME TypeOK, RowsInv, CoreInv, Next
  PROVE  CoreInv'
<1>0. TypeOK'
  BY NextType
<1>1. CASE \E d \in Devices : ForceRelease(d)
  <2>1. PICK d \in Devices : ForceRelease(d)
    BY <1>1
  <2>2. UNCHANGED <<nclaim, pc, job, tok, pay, sent>>
    BY <2>1 DEF ForceRelease, taskVars, netVars
  <2>3. /\ UNCHANGED <<token, dispatch>>
        /\ \/ status' = status
           \/ status[lock[d]] = "running" /\ status' = [status EXCEPT ![lock[d]] = "stopping"]
    BY <2>1 DEF ForceRelease, StopRow, rowVars
  <2>4. Quiet
    BY <2>3 DEF Quiet, Active, TypeOK, RowsTypeOK
  <2> QED BY <1>0, <2>2, <2>4, QuietCore
<1>2. CASE \E a \in Agents : HeartbeatScan(a)
  <2>1. PICK a \in Agents : HeartbeatScan(a)
    BY <1>2
  <2> DEFINE ends == {e \in Lost(a) : ~finalized[e]}
             verdict(e) == IF status[e] = "running" THEN "error" ELSE "stopped"
  <2>2. PICK c \in [ends -> ChildSets] :
          status' = [e \in Execs |-> IF e \notin ends THEN status[e]
                                     ELSE MergeExecutionStatus(verdict(e), c[e])]
    BY <2>1 DEF HeartbeatScan
  <2>3. \A e \in Execs : status'[e] = status[e] \/ status'[e] \in TerminalStates
    <3> TAKE e \in Execs
    <3>1. CASE e \in ends
      <4>1. verdict(e) \in TerminalStates /\ c[e] \in ChildSets
        BY <2>2, <3>1 DEF TerminalStates
      <4>2. MergeExecutionStatus(verdict(e), c[e]) \in TerminalStates
        BY <4>1, MergeIsTerminal
      <4> QED BY <2>2, <3>1, <4>2
    <3>2. CASE e \notin ends
      BY <2>2, <3>2
    <3> QED BY <3>1, <3>2
  <2>4. UNCHANGED <<token, dispatch, nclaim, pc, job, tok, pay, sent>>
    BY <2>1 DEF HeartbeatScan, ScanOnly, taskVars, netVars
  <2>5. Quiet
    BY <2>3, <2>4 DEF Quiet, Active, TerminalStates
  <2> QED BY <1>0, <2>4, <2>5, QuietCore
<1>3. CASE \/ \E d \in Devices : WriteSnapshot(d)
           \/ \E d \in Devices, s \in {"idle", "offline"} : DeviceList(d, s) \/ ReadSnapshot(d, s)
           \/ \E a \in Agents : \/ AgentOnline(a) \/ AgentOffline(a)
                                \/ AgentCrash(a) \/ DeleteAgent(a)
           \/ \E m \in starts : ReceiveStart(m) \/ LoseStart(m)
  <2>1. UNCHANGED <<rowVars, nclaim, pc, job, tok, pay, sent>>
    BY <1>3 DEF WriteSnapshot, DeviceList, ReadSnapshot, AgentOnline, AgentOffline, AgentCrash,
       DeleteAgent, ReceiveStart, LoseStart, dbVars, taskVars, netVars
  <2>2. Quiet
    BY <2>1 DEF Quiet, rowVars, Active
  <2> QED BY <1>0, <2>1, <2>2, QuietCore
<1> QED BY <1>0, <1>1, <1>2, <1>3, ClaimCore, TaskCore, RowCore DEF Next

\* What the agents hold was delivered: by the only steps that put something
\* into their hands.
LEMMA NextAgentSessions ==
  ASSUME TypeOK, AgentSessions, Next
  PROVE  AgentSessions'
<1>d. ASSUME sent \subseteq sent', UNCHANGED agentVars, starts' \ sent' \subseteq starts \ sent
      PROVE  AgentSessions'
  BY <1>d DEF AgentSessions, agentVars
<1>1. CASE \E k \in Sessions : TaskStep(k)
  <2>1. PICK k \in Sessions : TaskStep(k)
    BY <1>1
  <2>2. CASE UNCHANGED <<netVars, agentVars>>
    BY <1>d, <2>2 DEF netVars
  <2>3. CASE Deliver(k) /\ UNCHANGED agentVars
    BY <1>d, <2>3 DEF Deliver
  <2> QED BY <2>1, <2>2, <2>3
          DEF TaskStep, StartPhase, BuildPayload, TransactionFails, BeginDispatch,
              HandleCasFailure, SendOk, SendRejected, SendUncertain, CancelSend, RecordDispatch,
              Observe, FinalizeError, CancelUnstarted, CancelBeforeDispatch, UndoDispatch, Die,
              TaskOnly
<1>2. CASE \E e \in Execs : RowStep(e)
  <2>1. UNCHANGED <<starts, sent, agentVars>>
    BY <1>2 DEF RowStep, SettleUnavailable, ReadQueued, StopQueued, CloseQueueRow,
       StopRunning, RequestTimeoutStop, SendStop, ForceEnd, FinalizeScan, ReclaimSelect,
       ReclaimRunning, ReclaimRow, ReclaimWrite, ReclaimTo, ScanOnly, netVars
  <2> QED BY <1>d, <2>1
<1>3. CASE \E e \in Execs : AgentStep(e)
  <2>1. PICK e \in Execs : AgentStep(e)
    BY <1>3
  <2>2. UNCHANGED <<starts, sent>>
    BY <2>1 DEF AgentStep, ReceiveStop, ServerResult, Confirm, AgentFinish, netVars
  <2>3. ASSUME NEW s, Finish(e, s), run[e] # NoToken PROVE AgentSessions'
    <3>1. /\ result' = [result EXCEPT ![e] = [token |-> run[e], status |-> s]]
          /\ run' = [run EXCEPT ![e] = NoToken] /\ <<e, run[e]>> \in sent
      BY <2>3 DEF Finish, AgentSessions
    <3> QED BY <2>2, <3>1 DEF AgentSessions, TypeOK, AgentsTypeOK
  <2>4. ASSUME run' = [run EXCEPT ![e] = NoToken], result' = result PROVE AgentSessions'
    BY <2>2, <2>4 DEF AgentSessions, TypeOK, AgentsTypeOK
  <2>5. ASSUME run' = run, result' = [result EXCEPT ![e] = NoResult] PROVE AgentSessions'
    BY <2>2, <2>5 DEF AgentSessions, TypeOK, AgentsTypeOK
  <2>6. CASE UNCHANGED agentVars
    BY <1>d, <2>2, <2>6
  <2> QED BY <2>1, <2>3, <2>4, <2>5, <2>6
          DEF AgentStep, ReceiveStop, ServerResult, Confirm, AgentFinish
<1>4. CASE \E m \in starts : ReceiveStart(m) \/ LoseStart(m)
  <2>1. PICK m \in starts : ReceiveStart(m) \/ LoseStart(m)
    BY <1>4
  <2>2. /\ m[1] \in Execs /\ m = <<m[1], m[2]>> /\ m \in sent
        /\ starts' = starts \ {m} /\ sent' = sent /\ result' = result
        /\ run' = run \/ run' = [run EXCEPT ![m[1]] = m[2]]
    BY <2>1 DEF AgentSessions, TypeOK, AgentsTypeOK, ReceiveStart, LoseStart, agentVars
  <2>3. starts' \subseteq sent' /\ \A f \in Execs : result'[f] = result[f]
    BY <2>2 DEF AgentSessions
  <2>4. \A f \in Execs : run'[f] = run[f] \/ (f = m[1] /\ run'[f] = m[2])
    BY <2>2 DEF TypeOK, AgentsTypeOK
  <2> QED BY <2>2, <2>3, <2>4 DEF AgentSessions
<1>5. CASE \E a \in Agents : AgentCrash(a)
  BY <1>5 DEF AgentCrash, AgentSessions, netVars
<1>6. CASE \/ \E w \in Workers, e \in Execs : Claim(w, e)
           \/ \E d \in Devices : ForceRelease(d) \/ WriteSnapshot(d)
           \/ \E d \in Devices, s \in {"idle", "offline"} : DeviceList(d, s) \/ ReadSnapshot(d, s)
           \/ \E a \in Agents : \/ HeartbeatScan(a) \/ AgentOnline(a)
                                \/ AgentOffline(a) \/ DeleteAgent(a)
  <2>1. UNCHANGED <<starts, sent, agentVars>>
    BY <1>6 DEF Claim, ForceRelease, WriteSnapshot, DeviceList, ReadSnapshot, HeartbeatScan,
       AgentOnline, AgentOffline, DeleteAgent, ScanOnly, netVars
  <2> QED BY <1>d, <2>1
<1> QED BY <1>1, <1>2, <1>3, <1>4, <1>5, <1>6 DEF Next

-----------------------------------------------------------------------------
(* Theorems.                                                                *)

\* The sessions keep their invariant in every reachable state.
THEOREM SessionInvariant == Spec => [](TypeOK /\ RowsInv /\ SessionInv)
<1>1. Init => SessionInv
  <2>1. Init => CoreInv
    BY DEF Init, CoreInv, RowSessions, TaskSessions, SingleSender, DeliveredOnce,
       NoDispatchAnomaly, Active, Sending, Unsent, NoToken, NoExec
  <2>2. Init => AgentSessions
    BY DEF Init, AgentSessions, NoToken
  <2> QED BY <2>1, <2>2 DEF SessionInv
<1>2. TypeOK /\ RowsInv /\ SessionInv /\ [Next]_vars => SessionInv'
  <2> SUFFICES ASSUME TypeOK, RowsInv, SessionInv, [Next]_vars PROVE SessionInv'
    OBVIOUS
  <2>1. CASE UNCHANGED vars
    <3>1. TypeOK' /\ Quiet /\ UNCHANGED <<nclaim, pc, job, tok, pay, sent>>
      BY <2>1, NextType, KeepRowsIsQuiet DEF vars, taskVars, netVars
    <3>2. AgentSessions'
      BY <2>1 DEF vars, netVars, agentVars, SessionInv, AgentSessions
    <3> QED BY <3>1, <3>2, QuietCore DEF SessionInv
  <2>2. CASE Next
    BY <2>2, NextCore, NextAgentSessions DEF SessionInv
  <2> QED BY <2>1, <2>2
<1> QED BY <1>1, <1>2, RowsInvariant, PTL DEF Spec

\* start_test of an execution is delivered at most once, and what was
\* delivered stays its session: no shutdown, restore, reclaim, refused or
\* timed-out send ever leads to a second delivery.
THEOREM StartIsDeliveredOnce == Spec => []DeliveredOnce
<1>1. SessionInv => DeliveredOnce
  BY DEF SessionInv, CoreInv
<1> QED BY <1>1, SessionInvariant, PTL

\* At most one task sends for an execution, and it does so under the
\* session of the row.
THEOREM DispatchIsExclusive == Spec => []OneDispatcher
<1>1. SessionInv => OneDispatcher
  <2> SUFFICES ASSUME SessionInv PROVE OneDispatcher
    OBVIOUS
  <2>1. TaskSessions /\ SingleSender
    BY DEF SessionInv, CoreInv
  <2> QED BY <2>1 DEF TaskSessions, SingleSender, OneDispatcher, Sending
<1> QED BY <1>1, SessionInvariant, PTL

\* The verdict an agent has to confirm, and the run it is in, are of the
\* current session of their execution; the server never refuses them as
\* belonging to another session.
THEOREM AgentsAreCurrent == Spec => []AgentIsCurrent
<1>1. SessionInv => AgentIsCurrent
  BY DEF SessionInv, CoreInv, AgentSessions, DeliveredOnce, AgentIsCurrent
<1> QED BY <1>1, SessionInvariant, PTL

\* The anomaly _handle_dispatch_cas_failure guards against cannot happen.
THEOREM NoAnomaly == Spec => []NoDispatchAnomaly
<1>1. SessionInv => NoDispatchAnomaly
  BY DEF SessionInv, CoreInv
<1> QED BY <1>1, SessionInvariant, PTL

\* Two runs meet on one device only after the server has given a verdict for
\* one of them: from the exclusive device and the current sessions.
THEOREM OverlapNeedsVerdict == Spec => []OverlapOnlyAfterVerdict
<1>1. TypeOK /\ RowsInv /\ SessionInv => OverlapOnlyAfterVerdict
  <2> SUFFICES ASSUME TypeOK, RowsInv, SessionInv, NEW e \in Execs, NEW f \in Execs,
                      run[e] # NoToken, run[f] # NoToken, Dev(e) = Dev(f), e # f
               PROVE  Terminal(e) \/ Terminal(f)
    BY DEF OverlapOnlyAfterVerdict
  <2>1. status[e] # "queued" /\ status[f] # "queued"
    BY DEF SessionInv, CoreInv, AgentSessions, DeliveredOnce
  <2>2. Active(e) => lock[Dev(e)] = e
    BY DEF RowsInv, ActiveHoldsDevice
  <2>3. Active(f) => lock[Dev(e)] = f
    BY DEF RowsInv, ActiveHoldsDevice
  <2> QED BY <2>1, <2>2, <2>3 DEF TypeOK, RowsTypeOK, Active, Terminal
<1> QED BY <1>1, SessionInvariant, PTL
=============================================================================
