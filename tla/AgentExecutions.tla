--------------------------- MODULE AgentExecutions ---------------------------
(***************************************************************************)
(* The executions inside one agent: AgentApp of agent/main.py with the     *)
(* Appium driver.  The receive loop turns start_test into an asyncio task  *)
(* and stop_test into its cancellation; each task takes a reference to the *)
(* one Appium server, drives its device, reports its verdict, and gives    *)
(* the reference back in its finally clause.                               *)
(*                                                                         *)
(* One action is what a task does from one await to the next, which        *)
(* nothing interrupts.  A cancellation is thrown at the await where it     *)
(* finds the task; it is caught in the body and not in the finally clause. *)
(***************************************************************************)
EXTENDS Integers, FiniteSets, Sequences, Functions

CONSTANTS
  Execs, NoOne,   \* executions, and the lock nobody holds
  Incompatible,   \* those whose start_test has another protocol version
  Malformed,      \* those whose start_test lacks its suites
  Outcomes,       \* the aggregated verdicts of a run that completes
  Memory,         \* _FINISHED_EXECUTION_MEMORY
  MaxStarts,      \* bound: tasks created for an execution
  MaxStops,       \* bound: stop_test received for an execution that runs
  MaxDrops,       \* bound: how often the connection breaks
  Faults          \* bound: what may go wrong in an instance

ASSUME ExecsAssumption   == IsFiniteSet(Execs) /\ NoOne \notin Execs
ASSUME MessageAssumption == Incompatible \subseteq Execs /\ Malformed \subseteq Execs
ASSUME MemoryAssumption  == Memory \in Nat \ {0}
\* Appium does not start, is not ready in time or dies, an execution raises,
\* the agent process is told to exit.
ASSUME FaultAssumption   == Faults \subseteq {"startfail", "timeout", "crash", "raise", "exit"}
ASSUME OutcomeAssumption == Outcomes \subseteq {"passed", "failed", "error", "stopped"}

VARIABLES
  \* tasks: the await each is at ("none": not in runtimes), those that have a
  \* cancellation pending, those that have a driver, the verdict each reports
  pc, cancelled, drivers, out,
  \* _appium_lock, _appium_refs, the server process, and the start or stop
  \* calls whose threads go on after the awaiting task was cancelled
  lock, refs, server, threads,
  \* _finished_executions, the connection, serve_agent: serving, closing, closed
  finished, registered, phase,
  \* history: executions whose verdict was recorded, and the verdicts written
  \* to the socket; tasks that took a reference they still owe, references
  \* nobody will give back, and what took the server from its users
  recorded, told, held, lost, disturbed,
  \* counters for the bounds
  nstart, nstop, ndrop

taskVars   == <<pc, cancelled, drivers, out>>
appiumVars == <<lock, refs, server, threads>>
resultVars == <<finished, recorded, told>>
refVars    == <<held, lost, disturbed>>
linkVars   == <<registered, phase, ndrop>>
vars == <<taskVars, appiumVars, resultVars, refVars, linkVars, nstart, nstop>>

Verdicts == {"passed", "failed", "error", "stopped"}
Awaits   == {"none", "created", "ensure", "starting", "ready", "setup", "run",
             "converge", "report", "handler", "quit", "release", "stopping"}
Inside   == {"starting", "ready", "stopping"}   \* awaits under _appium_lock
Using    == {"setup", "run"}                    \* awaits that need the server
\* Awaits of an execution that began and has no verdict yet.
Unreported == {"ensure", "starting", "ready", "converge"} \cup Using
Running  == {e \in Execs : pc[e] # "none"}      \* the keys of runtimes

Init ==
  /\ pc = [e \in Execs |-> "none"] /\ cancelled = {} /\ drivers = {}
  /\ out \in [Execs -> {"stopped"}]
  /\ lock = NoOne /\ refs = 0 /\ server = "down" /\ threads = {}
  /\ finished = <<>> /\ registered = TRUE /\ phase = "serving"
  /\ recorded = {} /\ told = [e \in Execs |-> {}]
  /\ held = {} /\ lost = 0 /\ disturbed = {}
  /\ nstart = [e \in Execs |-> 0] /\ nstop = [e \in Execs |-> 0] /\ ndrop = 0

-----------------------------------------------------------------------------
(* Results                                                                 *)

Goto(e, await) == pc' = [pc EXCEPT ![e] = await]

\* Mutant of Remember: the oldest is forgotten one too early.
RememberOneLess(e) ==
  IF e \in Range(finished) THEN finished
  ELSE Append(IF Len(finished) >= Memory - 1 /\ finished # <<>> THEN Tail(finished)
              ELSE finished, e)

\* _remember_finished_execution: a bounded memory that forgets the oldest.
Remember(e) ==
  IF e \in Range(finished) THEN finished
  ELSE Append(IF Len(finished) >= Memory THEN Tail(finished) ELSE finished, e)

\* _send_execution_result_safe up to its send, which is the await "report"
\* inside the try block of _run_execution and "handler" in its handlers.
Record(e, v, await) ==
  /\ Goto(e, await)
  /\ out' = [out EXCEPT ![e] = v]
  /\ recorded' = recorded \cup {e}
  /\ finished' = Remember(e)

Fail(e) == Record(e, "error", "handler")

Written(e) == registered /\ told' = [told EXCEPT ![e] = @ \cup {out[e]}]

-----------------------------------------------------------------------------
(* The reference to the server                                             *)

Waiting == {e \in Execs : pc[e] \in {"ensure", "release"}}
\* asyncio.Lock: a newcomer takes a free lock at once unless somebody waits.
Free == lock = NoOne /\ Waiting \subseteq cancelled
Busy == lock # NoOne \/ Waiting # {}

TakeEnsure(e) ==
  /\ lock' = e
  /\ \/ refs = 0 /\ Goto(e, "starting") /\ UNCHANGED <<refs, held>>
     \/ refs > 0 /\ Goto(e, "ready") /\ refs' = refs + 1 /\ held' = held \cup {e}
  /\ UNCHANGED <<server, threads, lost, disturbed>>

\* One reference less, never below none.
Less == IF refs = 0 THEN 0 ELSE refs - 1

\* Mutant of TakeRelease: the server is stopped whoever still needs it.
TakeReleaseAndStop(e) ==
  /\ refs' = Less
  /\ held' = held \ {e}
  /\ disturbed' = IF e \in held THEN disturbed ELSE disturbed \cup {"release"}
  /\ lock' = e /\ Goto(e, "stopping")
  /\ UNCHANGED <<server, threads, lost>>

\* _release_appium.  It does not know whether the task ever took a reference.
TakeRelease(e) ==
  /\ refs' = Less
  /\ held' = held \ {e}
  /\ disturbed' = IF e \in held THEN disturbed ELSE disturbed \cup {"release"}
  /\ \/ Less = 0 /\ lock' = e /\ Goto(e, "stopping")
     \/ Less > 0 /\ UNCHANGED lock /\ Goto(e, "none")
  /\ UNCHANGED <<server, threads, lost>>

Release(e) ==
  \/ Free /\ TakeRelease(e)
  \/ Busy /\ Goto(e, "release") /\ UNCHANGED <<appiumVars, refVars>>

\* The finally clause: driver.quit, then the reference.
Leave(e) ==
  IF e \in drivers THEN Goto(e, "quit") /\ UNCHANGED <<appiumVars, refVars>>
  ELSE Release(e)

-----------------------------------------------------------------------------
(* The receive loop                                                        *)

Receiving == phase = "serving" /\ registered

\* start_test.  A running or a finished execution is not started again.
StartTest(e) ==
  /\ Receiving /\ nstart[e] < MaxStarts
  /\ e \notin Incompatible /\ pc[e] = "none" /\ e \notin Range(finished)
  /\ nstart' = [nstart EXCEPT ![e] = @ + 1]
  /\ Goto(e, "created")
  /\ UNCHANGED <<cancelled, drivers, out, appiumVars, resultVars, refVars, linkVars, nstop>>

RefuseStart(e) ==
  /\ Receiving /\ nstart[e] < MaxStarts /\ e \in Incompatible
  /\ nstart' = [nstart EXCEPT ![e] = @ + 1]
  /\ recorded' = recorded \cup {e}
  /\ finished' = Remember(e)
  /\ told' = [told EXCEPT ![e] = @ \cup {"error"}]
  /\ UNCHANGED <<taskVars, appiumVars, refVars, linkVars, nstop>>

\* stop_test cancels the task wherever it is.
StopTest(e) ==
  /\ Receiving /\ nstop[e] < MaxStops /\ pc[e] # "none"
  /\ nstop' = [nstop EXCEPT ![e] = @ + 1]
  /\ cancelled' = cancelled \cup {e}
  /\ UNCHANGED <<pc, drivers, out, appiumVars, resultVars, refVars, linkVars, nstart>>

Drop ==
  /\ registered /\ ndrop < MaxDrops
  /\ registered' = FALSE /\ ndrop' = ndrop + 1
  /\ UNCHANGED <<taskVars, appiumVars, resultVars, refVars, phase, nstart, nstop>>

Reconnect ==
  /\ phase = "serving" /\ ~registered
  /\ registered' = TRUE
  /\ UNCHANGED <<taskVars, appiumVars, resultVars, refVars, phase, ndrop, nstart, nstop>>

-----------------------------------------------------------------------------
(* _run_execution, one await to the next.  At(e, a): the task sees the    *)
(* result of await a, and not a cancellation instead of it.                *)

At(e, await) == pc[e] = await /\ e \notin cancelled

Begin(e) ==
  /\ At(e, "created")
  /\ \/ /\ e \in Malformed
        /\ Fail(e)
        /\ UNCHANGED <<appiumVars, refVars>>
     \/ /\ e \notin Malformed
        /\ \/ Free /\ TakeEnsure(e)
           \/ Busy /\ Goto(e, "ensure") /\ UNCHANGED <<appiumVars, refVars>>
        /\ UNCHANGED <<out, recorded, finished>>
  /\ UNCHANGED <<cancelled, drivers, told, linkVars, nstart, nstop>>

EnsureLocked(e) ==
  /\ At(e, "ensure") /\ lock = NoOne
  /\ TakeEnsure(e)
  /\ UNCHANGED <<cancelled, drivers, out, resultVars, linkVars, nstart, nstop>>

\* AppiumServer.start: a server that runs already is used as it is.
Started(e) ==
  /\ At(e, "starting")
  /\ server' = "up" /\ refs' = refs + 1 /\ held' = held \cup {e}
  /\ Goto(e, "ready")
  /\ UNCHANGED <<cancelled, drivers, out, lock, threads, lost, disturbed,
                 resultVars, linkVars, nstart, nstop>>

StartFails(e) ==
  /\ At(e, "starting") /\ "startfail" \in Faults
  /\ lock' = NoOne
  /\ Fail(e)
  /\ UNCHANGED <<cancelled, drivers, refs, server, threads, told, refVars,
                 linkVars, nstart, nstop>>

Ready(e) ==
  /\ At(e, "ready") /\ server = "up"
  /\ lock' = NoOne
  /\ Goto(e, "setup")
  /\ UNCHANGED <<cancelled, drivers, out, refs, server, threads, resultVars,
                 refVars, linkVars, nstart, nstop>>

\* Mutants of NotReady: the reference, or the lock, is not given back.
NotReadyKeepsRef(e) ==
  /\ At(e, "ready") /\ (server = "down" \/ "timeout" \in Faults)
  /\ lock' = NoOne
  /\ held' = held \ {e}
  /\ Fail(e)
  /\ UNCHANGED <<cancelled, drivers, refs, server, threads, told, lost, disturbed,
                 linkVars, nstart, nstop>>

NotReadyKeepsLock(e) ==
  /\ At(e, "ready") /\ (server = "down" \/ "timeout" \in Faults)
  /\ refs' = Less /\ held' = held \ {e}
  /\ Fail(e)
  /\ UNCHANGED <<cancelled, drivers, lock, server, threads, told, lost, disturbed,
                 linkVars, nstart, nstop>>

\* wait_ready raises: the reference is given back on the spot.
NotReady(e) ==
  /\ At(e, "ready") /\ (server = "down" \/ "timeout" \in Faults)
  /\ lock' = NoOne
  /\ refs' = Less /\ held' = held \ {e}
  /\ Fail(e)
  /\ UNCHANGED <<cancelled, drivers, server, threads, told, lost, disturbed,
                 linkVars, nstart, nstop>>

\* heal_offline_emulator and create_driver.
Setup(e) ==
  /\ At(e, "setup")
  /\ \/ Goto(e, "run") /\ drivers' = drivers \cup {e}
        /\ UNCHANGED <<out, recorded, finished>>
     \/ "raise" \in Faults /\ Fail(e) /\ UNCHANGED drivers
  /\ UNCHANGED <<cancelled, appiumVars, told, refVars, linkVars, nstart, nstop>>

\* The suites, and the aggregate of their verdicts.
Run(e) ==
  /\ At(e, "run")
  /\ \/ \E v \in Outcomes : Record(e, v, "report")
     \/ "raise" \in Faults /\ Fail(e)
  /\ UNCHANGED <<cancelled, drivers, appiumVars, told, refVars, linkVars, nstart, nstop>>

Reported(e) ==
  /\ At(e, "report") \/ At(e, "handler")
  /\ Written(e)
  /\ Leave(e)
  /\ UNCHANGED <<cancelled, drivers, out, finished, recorded, linkVars, nstart, nstop>>

\* _converge_stopped_suites tells the server of each unfinished suite.
Converge(e) ==
  /\ At(e, "converge") /\ registered
  /\ Record(e, "stopped", "handler")
  /\ UNCHANGED <<cancelled, drivers, appiumVars, told, refVars, linkVars, nstart, nstop>>

\* Mutant of Quit: runtime.driver is not reset.
QuitKeepsDriver(e) ==
  /\ At(e, "quit")
  /\ Release(e)
  /\ UNCHANGED <<cancelled, drivers, out, resultVars, linkVars, nstart, nstop>>

Quit(e) ==
  /\ At(e, "quit")
  /\ drivers' = drivers \ {e}
  /\ Release(e)
  /\ UNCHANGED <<cancelled, out, resultVars, linkVars, nstart, nstop>>

ReleaseLocked(e) ==
  /\ At(e, "release") /\ lock = NoOne
  /\ TakeRelease(e)
  /\ UNCHANGED <<cancelled, drivers, out, resultVars, linkVars, nstart, nstop>>

Stopped(e) ==
  /\ At(e, "stopping")
  /\ server' = "down" /\ lock' = NoOne
  /\ Goto(e, "none")
  /\ UNCHANGED <<cancelled, drivers, out, refs, threads, resultVars, refVars,
                 linkVars, nstart, nstop>>

-----------------------------------------------------------------------------
(* The same awaits when a cancellation is thrown at them                   *)

Thrown(e, awaits) ==
  /\ pc[e] \in awaits /\ e \in cancelled
  /\ cancelled' = cancelled \ {e}

\* Before its first step a task has no handler yet: it ends without a word.
CancelCreated(e) ==
  /\ Thrown(e, {"created"})
  /\ Goto(e, "none")
  /\ UNCHANGED <<drivers, out, appiumVars, resultVars, refVars, linkVars, nstart, nstop>>

\* In _ensure_appium: the lock is released, a reference already taken stays,
\* and a thread that starts the server goes on.
CancelEnsure(e) ==
  /\ Thrown(e, {"ensure", "starting", "ready"})
  /\ lock' = IF pc[e] = "ensure" THEN lock ELSE NoOne
  /\ \/ /\ pc[e] = "starting"
        /\ threads' = threads \cup {"start"}
        /\ disturbed' = disturbed \cup {"thread"}
     \/ pc[e] # "starting" /\ UNCHANGED <<threads, disturbed>>
  /\ Record(e, "stopped", "handler")
  /\ UNCHANGED <<drivers, refs, server, told, held, lost, linkVars, nstart, nstop>>

\* Mutant of CancelRun: nothing catches the cancellation.
CancelRunUncaught(e) ==
  /\ Thrown(e, Using)
  /\ Leave(e)
  /\ UNCHANGED <<drivers, out, resultVars, linkVars, nstart, nstop>>

\* While the suites run; without a runner there are none to converge.
CancelRun(e) ==
  /\ Thrown(e, Using)
  /\ \/ pc[e] = "run" /\ Goto(e, "converge") /\ UNCHANGED <<out, recorded, finished>>
     \/ Record(e, "stopped", "handler")
  /\ UNCHANGED <<drivers, appiumVars, told, refVars, linkVars, nstart, nstop>>

\* The cancelled send may have written its verdict already.
CancelReport(e) ==
  /\ Thrown(e, {"report"})
  /\ Written(e) \/ UNCHANGED told
  /\ Record(e, "stopped", "handler")
  /\ UNCHANGED <<drivers, appiumVars, refVars, linkVars, nstart, nstop>>

\* A second cancellation, in a handler: what is left of the handler is skipped.
CancelHandler(e) ==
  /\ Thrown(e, {"converge", "handler"})
  /\ UNCHANGED told \/ (pc[e] = "handler" /\ Written(e))
  /\ Leave(e)
  /\ UNCHANGED <<drivers, out, finished, recorded, linkVars, nstart, nstop>>

\* In the finally clause: what is left of that is skipped.
CancelCleanup(e) ==
  /\ Thrown(e, {"quit", "release", "stopping"})
  /\ drivers' = drivers \ {e}
  /\ \/ /\ pc[e] = "stopping"
        /\ lock' = NoOne
        /\ threads' = threads \cup {"stop"}
        /\ disturbed' = disturbed \cup {"thread"}
        /\ UNCHANGED <<held, lost>>
     \/ /\ pc[e] # "stopping"
        /\ held' = held \ {e}
        /\ lost' = IF e \in held THEN lost + 1 ELSE lost
        /\ UNCHANGED <<lock, threads, disturbed>>
  /\ Goto(e, "none")
  /\ UNCHANGED <<out, refs, server, resultVars, linkVars, nstart, nstop>>

-----------------------------------------------------------------------------
(* Threads, the server process, and the end of the agent                   *)

FinishThread(call) ==
  /\ call \in threads
  /\ threads' = threads \ {call}
  /\ \/ server' = IF call = "start" THEN "up" ELSE "down"
     \/ call = "start" /\ "startfail" \in Faults /\ UNCHANGED server
  /\ UNCHANGED <<taskVars, lock, refs, resultVars, refVars, linkVars, nstart, nstop>>

Crash ==
  /\ "crash" \in Faults /\ server = "up"
  /\ server' = "down"
  /\ disturbed' = disturbed \cup {"crash"}
  /\ UNCHANGED <<taskVars, lock, refs, threads, resultVars, held, lost, linkVars, nstart, nstop>>

\* serve_agent: the receive loop is over, and with it the registration;
\* stop_all_executions cancels every task ...
Exit ==
  /\ "exit" \in Faults /\ phase = "serving"
  /\ phase' = "closing" /\ registered' = FALSE
  /\ cancelled' = cancelled \cup Running
  /\ UNCHANGED <<pc, drivers, out, appiumVars, resultVars, refVars, ndrop, nstart, nstop>>

\* ... and waits for all of them; then the server is stopped.
Closed ==
  /\ phase = "closing" /\ Running = {}
  /\ phase' = "closed" /\ server' = "down"
  /\ UNCHANGED <<taskVars, lock, refs, threads, resultVars, refVars, registered,
                 ndrop, nstart, nstop>>

-----------------------------------------------------------------------------
Receive(e) == StartTest(e) \/ RefuseStart(e) \/ StopTest(e)

Continue(e) ==
  \/ Begin(e) \/ EnsureLocked(e) \/ Started(e) \/ StartFails(e) \/ Ready(e) \/ NotReady(e)
  \/ Setup(e) \/ Run(e) \/ Reported(e) \/ Converge(e)
  \/ Quit(e) \/ ReleaseLocked(e) \/ Stopped(e)

Cancel(e) ==
  \/ CancelCreated(e) \/ CancelEnsure(e) \/ CancelRun(e)
  \/ CancelReport(e) \/ CancelHandler(e) \/ CancelCleanup(e)

Next ==
  \/ \E e \in Execs : Receive(e) \/ Continue(e) \/ Cancel(e)
  \/ \E call \in {"start", "stop"} : FinishThread(call)
  \/ Drop \/ Reconnect \/ Crash \/ Exit \/ Closed

Spec == Init /\ [][Next]_vars

\* The event loop runs what can run, threads end, and a lost connection is
\* made anew while the agent serves.  Nobody has to send anything.
FairSpec ==
  /\ Spec
  /\ \A e \in Execs : WF_vars(Continue(e) \/ Cancel(e))
  /\ \A call \in {"start", "stop"} : WF_vars(FinishThread(call))
  /\ WF_vars(Reconnect) /\ WF_vars(Closed)

-----------------------------------------------------------------------------
(* Properties                                                              *)

TypeOK ==
  /\ pc \in [Execs -> Awaits] /\ out \in [Execs -> Verdicts]
  /\ cancelled \in SUBSET Running /\ drivers \in SUBSET Running
  /\ lock \in Execs \cup {NoOne} /\ refs \in Nat /\ server \in {"up", "down"}
  /\ threads \in SUBSET {"start", "stop"}
  /\ finished \in Seq(Execs)
  /\ registered \in BOOLEAN /\ phase \in {"serving", "closing", "closed"}
  /\ recorded \in SUBSET Execs /\ told \in [Execs -> SUBSET Verdicts]
  /\ held \in SUBSET Running /\ lost \in Nat
  /\ disturbed \in SUBSET {"release", "thread", "crash"}
  /\ nstart \in [Execs -> Nat] /\ nstop \in [Execs -> Nat] /\ ndrop \in Nat

\* _appium_lock (main.py:227, 237) is held by exactly the task that is inside
\* _ensure_appium or _release_appium, wherever a cancellation or an exception
\* finds it: no task waits for a lock that nobody will release.
LockIsHeld == \A e \in Execs : lock = e <=> pc[e] \in Inside

\* Every reference counted in _appium_refs belongs to a task that will give
\* it back, except those of tasks cancelled in their finally clause.
RefsAreBacked == refs <= Cardinality(held) + lost

\* What takes the server from an execution that uses it: a release without a
\* reference, a start or stop call that outlives its task, a dead server,
\* and nothing else.
ServerServesRuns ==
  disturbed = {} => \A e \in Execs : pc[e] \in Using => server = "up"

\* An execution whose verdict was recorded never touches a device again
\* (main.py:259), however often its start_test arrives.
NeverRunAgain ==
  [][\A e \in recorded : pc[e] = "none" => pc'[e] = "none"]_vars

\* Every task comes to an end: the lock, the threads and a connection that
\* comes back hold nobody for ever.
EveryTaskEnds == \A e \in Execs : pc[e] # "none" ~> pc[e] = "none"

\* An execution that began has a verdict in the end, however it ends, unless a
\* second stop_test (config.py:61 lets them be repeated) meets it while it
\* converges its suites for the first one: what is left of the handler is
\* skipped, and the verdict with it (main.py:334).
BegunIsRecorded ==
  \A e \in Execs : pc[e] \in Unreported
                     ~> e \in recorded \/ (pc[e] = "converge" /\ e \in cancelled)

\* The agent contradicts itself by a stop alone: the server is told one
\* verdict of an execution, however often it was started, and stopped after it
\* when a stop_test met the send (main.py:330).
OneOutcome == \A e \in Execs : Cardinality(told[e] \ {"stopped"}) <= 1

=============================================================================
