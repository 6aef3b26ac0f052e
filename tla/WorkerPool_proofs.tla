-------------------------- MODULE WorkerPool_proofs --------------------------
(***************************************************************************)
(* The safety properties of WorkerPool for any number of executions,       *)
(* devices, slots, stops and failures.                                     *)
(*                                                                         *)
(* The invariant has four parts beside the types: the table of tasks and   *)
(* what stop() waits for (Table), the room the consumer counts on          *)
(* (Capacity), what the consumer has in its hands (Consumer), and how      *)
(* tasks, rows and stranded claims exclude each other (Tasks).             *)
(***************************************************************************)
EXTENDS WorkerPool, FiniteSetTheorems, TLAPS

Table ==
  /\ slots = {e \in Execs : task[e] # "none"}
  /\ stop \in {"grace", "cancelling"} => slots \subseteq active
  /\ stop \in {"restoring", "down"} => slots = {}

Capacity ==
  /\ Cardinality(slots) <= Concurrency
  /\ loop \in {"claim", "settle", "close"} => Cardinality(slots) < Concurrency

Consumer ==
  /\ item # NoExec <=> loop = "close"
  /\ stop \notin {"up", "consumer"} => loop = "off"
  /\ missed => wake
  /\ item # NoExec => row[item] # "queued" /\ task[item] = "none" /\ item \notin stranded

Stopped ==
  /\ stop \notin {"up", "down"} => nstop > 0
  /\ cancelled # {} => stop = "cancelling"
  /\ \A e \in cancelled : e \in active /\ Live(e)
  /\ stop = "up" => begun \subseteq slots
  /\ \A e \in Execs : task[e] = "created" => e \notin begun
  /\ \A e \in Execs : Live(e) /\ task[e] # "created" => e \in begun
  /\ stop # "cancelling" => \A e \in Execs : task[e] = "ended" => e \in begun
  /\ stop \in {"grace", "cancelling", "restoring"} => started \subseteq begun

Tasks ==
  /\ \A e \in Execs : Live(e) => row[e] # "queued" /\ e \notin stranded
  /\ stop # "cancelling" => \A e \in Execs : task[e] # "none" => row[e] # "queued"
  /\ \A e \in stranded : row[e] # "queued"
  /\ stop \in {"grace", "cancelling", "restoring"} => Unstarted \cap stranded = {}

IInv == TypeOK /\ Table /\ Capacity /\ Consumer /\ Stopped /\ Tasks /\ ClaimsAreHeld
-----------------------------------------------------------------------------
\* The types.
LEMMA TypeStep ==
  ASSUME IInv, [Next]_vars PROVE TypeOK'
<1> USE PoolAssumption
    DEF IInv, TypeOK, LoopStates, TaskStates, StopStates, Unstarted, Consumer,
           vars, dbVars, loopVars, poolVars,
           taskVars, stopVars, boundVars
<1>1. CASE Start BY <1>1 DEF Start
<1>2. CASE CommitClaim BY <1>2 DEF CommitClaim, LoopOnly, Claimable, Oldest
<1>3. CASE NothingToClaim BY <1>3 DEF NothingToClaim, LoopOnly
<1>4. CASE SettleUnavailable BY <1>4 DEF SettleUnavailable, LoopOnly, Check, Hopeless, Oldest
<1>5. CASE NothingToSettle BY <1>5 DEF NothingToSettle, LoopOnly
<1>6. CASE LoopFails
  <2>1. stranded' \in SUBSET Execs BY <1>6 DEF LoopFails
  <2>2. loop' \in LoopStates /\ item' \in Execs \cup {NoExec} /\ nfail' \in Nat BY <1>6 DEF LoopFails
  <2> QED BY <1>6, <2>1, <2>2 DEF LoopFails, LoopOnly
<1>7. CASE Spawn
  <2>1. item \in Execs BY <1>7 DEF Spawn
  <2>2. task' \in [Execs -> TaskStates] BY <1>7, <2>1 DEF Spawn
  <2> QED BY <1>7, <2>1, <2>2 DEF Spawn, Check
<1>8. CASE Woken BY <1>8 DEF Woken, LoopOnly, Look, Check
<1>9. CASE PollTick BY <1>9 DEF PollTick, LoopOnly, Look, Check
<1>10. ASSUME NEW e \in Execs, Begin(e) PROVE TypeOK' BY <1>10 DEF Begin, TaskOnly, Step
<1>11. ASSUME NEW e \in Execs, ReadToken(e) PROVE TypeOK'
  BY <1>11 DEF ReadToken, TaskOnly, Step
<1>12. ASSUME NEW e \in Execs, Dispatch(e) PROVE TypeOK' BY <1>12 DEF Dispatch, TaskOnly, Step
<1>13. ASSUME NEW e \in Execs, SendEnds(e) PROVE TypeOK' BY <1>13 DEF SendEnds, TaskOnly, Step, Fails
<1>14. ASSUME NEW e \in Execs, ObserveEnds(e) PROVE TypeOK'
  BY <1>14 DEF ObserveEnds, TaskOnly, Step
<1>15. ASSUME NEW e \in Execs, Cancelled(e) PROVE TypeOK'
  <2>1. row' \in [Execs -> {"queued", "reserved", "sent", "settled"}] BY <1>15 DEF Cancelled, Fails
  <2>2. /\ stranded' = stranded \/ stranded' = stranded \cup {e}
        /\ nfail' = nfail \/ nfail' = nfail + 1
    BY <1>15 DEF Cancelled, Strand, Fails
  <2>3. task' \in [Execs -> TaskStates] BY <1>15 DEF Cancelled
  <2>4. stranded' \in SUBSET Execs BY <2>2
  <2>5. nfail' \in Nat BY <2>2
  <2>6. cancelled' \in SUBSET Execs BY <1>15 DEF Cancelled
  <2>7. UNCHANGED <<retry, online, loop, item, wake, slots, begun, missed, stop, active, started, nstop, nflap>>
    BY <1>15 DEF Cancelled, TaskOnly
  <2> QED BY <2>1, <2>3, <2>4, <2>5, <2>6, <2>7
<1>16. ASSUME NEW e \in Execs, Collect(e) PROVE TypeOK' BY <1>16 DEF Collect, TaskOnly, Step
<1>17. ASSUME NEW e \in Execs, TaskFails(e) PROVE TypeOK'
  <2>1. row' \in [Execs -> {"queued", "reserved", "sent", "settled"}] BY <1>17 DEF TaskFails
  <2>2. /\ stranded' = stranded \/ stranded' = stranded \cup {e}
        /\ nfail' = nfail \/ nfail' = nfail + 1
    BY <1>17 DEF TaskFails, Strand, Fails
  <2>3. task' \in [Execs -> TaskStates] BY <1>17 DEF TaskFails
  <2>4. stranded' \in SUBSET Execs BY <2>2
  <2>5. nfail' \in Nat BY <2>2
  <2>6. cancelled' \in SUBSET Execs BY <1>17 DEF TaskFails
  <2>7. UNCHANGED <<retry, online, loop, item, wake, slots, begun, missed, stop, active, started, nstop, nflap>>
    BY <1>17 DEF TaskFails, TaskOnly
  <2> QED BY <2>1, <2>3, <2>4, <2>5, <2>6, <2>7
<1>18. ASSUME NEW e \in Execs, Reclaim(e) PROVE TypeOK' BY <1>18 DEF Reclaim, EnvOnly
<1>19. ASSUME NEW e \in Execs, Settles(e) PROVE TypeOK' BY <1>19 DEF Settles, EnvOnly
<1>20. CASE StopCalled BY <1>20 DEF StopCalled, StopOnly
<1>21. CASE ConsumerEnds BY <1>21 DEF ConsumerEnds, StopOnly, Claimable, Oldest
<1>22. CASE Grace BY <1>22 DEF Grace, StopOnly
<1>23. CASE GraceSuffices BY <1>23 DEF GraceSuffices, StopOnly
<1>24. CASE GraceExpires BY <1>24 DEF GraceExpires, StopOnly
<1>25. CASE AllCancelled BY <1>25 DEF AllCancelled, StopOnly
<1>26. ASSUME NEW e \in Execs, RestoreUnstarted(e) PROVE TypeOK'
  <2>1. row' \in [Execs -> {"queued", "reserved", "sent", "settled"}] BY <1>26 DEF RestoreUnstarted
  <2>2. /\ stranded' = stranded \/ stranded' = stranded \cup {e}
        /\ nfail' = nfail \/ nfail' = nfail + 1
    BY <1>26 DEF RestoreUnstarted, Strand, Fails
  <2>3. stranded' \in SUBSET Execs BY <2>2
  <2>4. nfail' \in Nat BY <2>2
  <2>5. active' \in SUBSET Execs BY <1>26 DEF RestoreUnstarted
  <2>6. UNCHANGED <<retry, online, loop, item, wake, slots, begun, missed, task, cancelled, stop, started, nstop, nflap>>
    BY <1>26 DEF RestoreUnstarted, RestoreOnly
  <2> QED BY <2>1, <2>3, <2>4, <2>5, <2>6
<1>27. CASE StopEnds BY <1>27 DEF StopEnds, StopOnly
<1>28. CASE Crash
  <2>1. task' \in [Execs -> TaskStates] BY <1>28 DEF Crash
  <2>2. stranded' \subseteq Execs BY <1>28 DEF Crash
  <2> QED BY <1>28, <2>1, <2>2 DEF Crash, StopOnly
<1>29. ASSUME NEW d \in Devices, Flap(d) PROVE TypeOK' BY <1>29 DEF Flap, EnvOnly
<1>30. CASE UNCHANGED vars BY <1>30
<1>31. ASSUME NEW e \in Execs, ObserveFails(e) PROVE TypeOK'
  BY <1>31 DEF ObserveFails, TaskOnly, Step, Fails
<1> QED
  BY <1>1, <1>2, <1>3, <1>4, <1>5, <1>6, <1>7, <1>8, <1>9, <1>10, <1>11, <1>12, <1>13,
     <1>14, <1>15, <1>16, <1>17, <1>18, <1>19, <1>20, <1>21, <1>22, <1>23, <1>24, <1>25,
     <1>26, <1>27, <1>28, <1>29, <1>30, <1>31 DEF Next, Consume, Advance, Stopping

\* The table of tasks and what stop() waits for.
LEMMA TableStep ==
  ASSUME IInv, [Next]_vars PROVE Table'
<1> USE PoolAssumption
    DEF IInv, Table, TypeOK, Consumer, Live,
           vars, dbVars, loopVars, poolVars,
           taskVars, stopVars, boundVars
<1>1. CASE Start BY <1>1 DEF Start
<1>2. CASE CommitClaim BY <1>2 DEF CommitClaim, LoopOnly, Claimable, Oldest
<1>3. CASE NothingToClaim BY <1>3 DEF NothingToClaim, LoopOnly
<1>4. CASE SettleUnavailable BY <1>4 DEF SettleUnavailable, LoopOnly, Check, Hopeless, Oldest
<1>5. CASE NothingToSettle BY <1>5 DEF NothingToSettle, LoopOnly
<1>6. CASE LoopFails BY <1>6 DEF LoopFails, LoopOnly
<1>7. CASE Spawn
  <2>1. item \in Execs BY <1>7 DEF Spawn
  <2>2. slots' = {e \in Execs : task'[e] # "none"} BY <1>7, <2>1 DEF Spawn
  <2> QED BY <1>7, <2>2 DEF Spawn
<1>8. CASE Woken BY <1>8 DEF Woken, LoopOnly, Look, Check
<1>9. CASE PollTick BY <1>9 DEF PollTick, LoopOnly, Look, Check
<1>10. ASSUME NEW e \in Execs, Begin(e) PROVE Table' BY <1>10 DEF Begin, TaskOnly, Step
<1>11. ASSUME NEW e \in Execs, ReadToken(e) PROVE Table' BY <1>11 DEF ReadToken, TaskOnly, Step
<1>12. ASSUME NEW e \in Execs, Dispatch(e) PROVE Table'
  <2>1. slots' = {o \in Execs : task'[o] # "none"} BY <1>12 DEF Dispatch, TaskOnly, Step
  <2> QED BY <1>12, <2>1 DEF Dispatch, TaskOnly, Step
<1>13. ASSUME NEW e \in Execs, SendEnds(e) PROVE Table'
  <2>1. slots' = {o \in Execs : task'[o] # "none"} BY <1>13 DEF SendEnds, TaskOnly, Step, Fails
  <2> QED BY <1>13, <2>1 DEF SendEnds, TaskOnly, Step, Fails
<1>14. ASSUME NEW e \in Execs, ObserveEnds(e) PROVE Table'
  BY <1>14 DEF ObserveEnds, TaskOnly, Step
<1>15. ASSUME NEW e \in Execs, Cancelled(e) PROVE Table' BY <1>15 DEF Cancelled, TaskOnly, Strand, Fails
<1>16. ASSUME NEW e \in Execs, Collect(e) PROVE Table' BY <1>16 DEF Collect, TaskOnly, Step
<1>17. ASSUME NEW e \in Execs, TaskFails(e) PROVE Table' BY <1>17 DEF TaskFails, TaskOnly, Strand, Fails
<1>18. ASSUME NEW e \in Execs, Reclaim(e) PROVE Table' BY <1>18 DEF Reclaim, EnvOnly
<1>19. ASSUME NEW e \in Execs, Settles(e) PROVE Table' BY <1>19 DEF Settles, EnvOnly
<1>20. CASE StopCalled BY <1>20 DEF StopCalled, StopOnly
<1>21. CASE ConsumerEnds BY <1>21 DEF ConsumerEnds, StopOnly, Claimable, Oldest
<1>22. CASE Grace BY <1>22 DEF Grace, StopOnly
<1>23. CASE GraceSuffices BY <1>23 DEF GraceSuffices, StopOnly
<1>24. CASE GraceExpires BY <1>24 DEF GraceExpires, StopOnly
<1>25. CASE AllCancelled BY <1>25 DEF AllCancelled, StopOnly
<1>26. ASSUME NEW e \in Execs, RestoreUnstarted(e) PROVE Table'
  BY <1>26 DEF RestoreUnstarted, RestoreOnly, Strand, Fails
<1>27. CASE StopEnds BY <1>27 DEF StopEnds, StopOnly
<1>28. CASE Crash BY <1>28 DEF Crash, StopOnly
<1>29. ASSUME NEW d \in Devices, Flap(d) PROVE Table' BY <1>29 DEF Flap, EnvOnly
<1>30. CASE UNCHANGED vars BY <1>30
<1>31. ASSUME NEW e \in Execs, ObserveFails(e) PROVE Table'
  BY <1>31 DEF ObserveFails, TaskOnly, Step, Fails
<1> QED
  BY <1>1, <1>2, <1>3, <1>4, <1>5, <1>6, <1>7, <1>8, <1>9, <1>10, <1>11, <1>12, <1>13,
     <1>14, <1>15, <1>16, <1>17, <1>18, <1>19, <1>20, <1>21, <1>22, <1>23, <1>24, <1>25,
     <1>26, <1>27, <1>28, <1>29, <1>30, <1>31 DEF Next, Consume, Advance, Stopping

\* What the consumer has in its hands.
LEMMA ConsumerStep ==
  ASSUME IInv, [Next]_vars PROVE Consumer'
<1> USE PoolAssumption
    DEF IInv, Consumer, TypeOK, Table, Tasks, Stopped, Live, Waiting,
           vars, dbVars, loopVars, poolVars,
           taskVars, stopVars, boundVars
<1>1. CASE Start BY <1>1 DEF Start
<1>2. CASE CommitClaim BY <1>2 DEF CommitClaim, LoopOnly, Claimable, Oldest
<1>3. CASE NothingToClaim BY <1>3 DEF NothingToClaim, LoopOnly
<1>4. CASE SettleUnavailable BY <1>4 DEF SettleUnavailable, LoopOnly, Check, Hopeless, Oldest
<1>5. CASE NothingToSettle BY <1>5 DEF NothingToSettle, LoopOnly
<1>6. CASE LoopFails BY <1>6 DEF LoopFails, LoopOnly
<1>7. CASE Spawn BY <1>7 DEF Spawn, Check
<1>8. CASE Woken BY <1>8 DEF Woken, LoopOnly, Look, Check
<1>9. CASE PollTick BY <1>9 DEF PollTick, LoopOnly, Look, Check
<1>10. ASSUME NEW e \in Execs, Begin(e) PROVE Consumer' BY <1>10 DEF Begin, TaskOnly, Step
<1>11. ASSUME NEW e \in Execs, ReadToken(e) PROVE Consumer'
  BY <1>11 DEF ReadToken, TaskOnly, Step
<1>12. ASSUME NEW e \in Execs, Dispatch(e) PROVE Consumer'
  BY <1>12 DEF Dispatch, TaskOnly, Step
<1>13. ASSUME NEW e \in Execs, SendEnds(e) PROVE Consumer'
  BY <1>13 DEF SendEnds, TaskOnly, Step, Fails
<1>14. ASSUME NEW e \in Execs, ObserveEnds(e) PROVE Consumer'
  BY <1>14 DEF ObserveEnds, TaskOnly, Step
<1>15. ASSUME NEW e \in Execs, Cancelled(e) PROVE Consumer' BY <1>15 DEF Cancelled, TaskOnly, Strand, Fails
<1>16. ASSUME NEW e \in Execs, Collect(e) PROVE Consumer' BY <1>16 DEF Collect, TaskOnly, Step
<1>17. ASSUME NEW e \in Execs, TaskFails(e) PROVE Consumer' BY <1>17 DEF TaskFails, TaskOnly, Strand, Fails
<1>18. ASSUME NEW e \in Execs, Reclaim(e) PROVE Consumer' BY <1>18 DEF Reclaim, EnvOnly
<1>19. ASSUME NEW e \in Execs, Settles(e) PROVE Consumer' BY <1>19 DEF Settles, EnvOnly
<1>20. CASE StopCalled BY <1>20 DEF StopCalled, StopOnly
<1>21. CASE ConsumerEnds BY <1>21 DEF ConsumerEnds, StopOnly, Claimable, Oldest
<1>22. CASE Grace BY <1>22 DEF Grace, StopOnly
<1>23. CASE GraceSuffices BY <1>23 DEF GraceSuffices, StopOnly
<1>24. CASE GraceExpires BY <1>24 DEF GraceExpires, StopOnly
<1>25. CASE AllCancelled BY <1>25 DEF AllCancelled, StopOnly
<1>26. ASSUME NEW e \in Execs, RestoreUnstarted(e) PROVE Consumer'
  BY <1>26 DEF RestoreUnstarted, RestoreOnly, Strand, Fails
<1>27. CASE StopEnds BY <1>27 DEF StopEnds, StopOnly
<1>28. CASE Crash BY <1>28 DEF Crash, StopOnly
<1>29. ASSUME NEW d \in Devices, Flap(d) PROVE Consumer' BY <1>29 DEF Flap, EnvOnly
<1>30. CASE UNCHANGED vars BY <1>30
<1>31. ASSUME NEW e \in Execs, ObserveFails(e) PROVE Consumer'
  BY <1>31 DEF ObserveFails, TaskOnly, Step, Fails
<1> QED
  BY <1>1, <1>2, <1>3, <1>4, <1>5, <1>6, <1>7, <1>8, <1>9, <1>10, <1>11, <1>12, <1>13,
     <1>14, <1>15, <1>16, <1>17, <1>18, <1>19, <1>20, <1>21, <1>22, <1>23, <1>24, <1>25,
     <1>26, <1>27, <1>28, <1>29, <1>30, <1>31 DEF Next, Consume, Advance, Stopping

\* What stop() knows of the tasks that have begun.
LEMMA StoppedStep ==
  ASSUME IInv, [Next]_vars PROVE Stopped'
<1> USE PoolAssumption
    DEF IInv, Stopped, Table, Consumer, TypeOK, Live,
           vars, dbVars, loopVars, poolVars,
           taskVars, stopVars, boundVars
<1>1. CASE Start BY <1>1 DEF Start
<1>2. CASE CommitClaim BY <1>2 DEF CommitClaim, LoopOnly, Claimable, Oldest
<1>3. CASE NothingToClaim BY <1>3 DEF NothingToClaim, LoopOnly
<1>4. CASE SettleUnavailable BY <1>4 DEF SettleUnavailable, LoopOnly, Check, Hopeless, Oldest
<1>5. CASE NothingToSettle BY <1>5 DEF NothingToSettle, LoopOnly
<1>6. CASE LoopFails BY <1>6 DEF LoopFails, LoopOnly
<1>7. CASE Spawn BY <1>7 DEF Spawn, Check
<1>8. CASE Woken BY <1>8 DEF Woken, LoopOnly, Look, Check
<1>9. CASE PollTick BY <1>9 DEF PollTick, LoopOnly, Look, Check
<1>10. ASSUME NEW e \in Execs, Begin(e) PROVE Stopped' BY <1>10 DEF Begin, TaskOnly, Step
<1>11. ASSUME NEW e \in Execs, ReadToken(e) PROVE Stopped'
  BY <1>11 DEF ReadToken, TaskOnly, Step
<1>12. ASSUME NEW e \in Execs, Dispatch(e) PROVE Stopped' BY <1>12 DEF Dispatch, TaskOnly, Step
<1>13. ASSUME NEW e \in Execs, SendEnds(e) PROVE Stopped' BY <1>13 DEF SendEnds, TaskOnly, Step, Fails
<1>14. ASSUME NEW e \in Execs, ObserveEnds(e) PROVE Stopped'
  BY <1>14 DEF ObserveEnds, TaskOnly, Step
<1>15. ASSUME NEW e \in Execs, Cancelled(e) PROVE Stopped' BY <1>15 DEF Cancelled, TaskOnly, Strand, Fails
<1>16. ASSUME NEW e \in Execs, Collect(e) PROVE Stopped' BY <1>16 DEF Collect, TaskOnly, Step
<1>17. ASSUME NEW e \in Execs, TaskFails(e) PROVE Stopped' BY <1>17 DEF TaskFails, TaskOnly, Strand, Fails
<1>18. ASSUME NEW e \in Execs, Reclaim(e) PROVE Stopped' BY <1>18 DEF Reclaim, EnvOnly
<1>19. ASSUME NEW e \in Execs, Settles(e) PROVE Stopped' BY <1>19 DEF Settles, EnvOnly
<1>20. CASE StopCalled BY <1>20 DEF StopCalled, StopOnly
<1>21. CASE ConsumerEnds BY <1>21 DEF ConsumerEnds, StopOnly, Claimable, Oldest
<1>22. CASE Grace BY <1>22 DEF Grace, StopOnly
<1>23. CASE GraceSuffices BY <1>23 DEF GraceSuffices, StopOnly
<1>24. CASE GraceExpires BY <1>24 DEF GraceExpires, StopOnly
<1>25. CASE AllCancelled
  <2>1. \A e \in active : task[e] = "none" BY <1>25 DEF AllCancelled
  <2>2. cancelled = {} BY <2>1, <1>25 DEF AllCancelled
  <2> QED BY <1>25, <2>2 DEF AllCancelled, StopOnly
<1>26. ASSUME NEW e \in Execs, RestoreUnstarted(e) PROVE Stopped'
  BY <1>26 DEF RestoreUnstarted, RestoreOnly, Strand, Fails
<1>27. CASE StopEnds BY <1>27 DEF StopEnds, StopOnly
<1>28. CASE Crash BY <1>28 DEF Crash, StopOnly
<1>29. ASSUME NEW d \in Devices, Flap(d) PROVE Stopped' BY <1>29 DEF Flap, EnvOnly
<1>30. CASE UNCHANGED vars BY <1>30
<1>31. ASSUME NEW e \in Execs, ObserveFails(e) PROVE Stopped'
  BY <1>31 DEF ObserveFails, TaskOnly, Step, Fails
<1> QED
  BY <1>1, <1>2, <1>3, <1>4, <1>5, <1>6, <1>7, <1>8, <1>9, <1>10, <1>11, <1>12, <1>13,
     <1>14, <1>15, <1>16, <1>17, <1>18, <1>19, <1>20, <1>21, <1>22, <1>23, <1>24, <1>25,
     <1>26, <1>27, <1>28, <1>29, <1>30, <1>31 DEF Next, Consume, Advance, Stopping

\* A task excludes that its execution is queued or stranded.
LEMMA TasksStep ==
  ASSUME IInv, [Next]_vars PROVE Tasks'
<1> USE PoolAssumption
    DEF IInv, Tasks, Table, Consumer, Stopped, TypeOK, Live, Unstarted, Waiting,
           vars, dbVars, loopVars, poolVars,
           taskVars, stopVars, boundVars
<1>1. CASE Start BY <1>1 DEF Start
<1>2. CASE CommitClaim BY <1>2 DEF CommitClaim, LoopOnly, Claimable, Oldest
<1>3. CASE NothingToClaim BY <1>3 DEF NothingToClaim, LoopOnly
<1>4. CASE SettleUnavailable BY <1>4 DEF SettleUnavailable, LoopOnly, Check, Hopeless, Oldest
<1>5. CASE NothingToSettle BY <1>5 DEF NothingToSettle, LoopOnly
<1>6. CASE LoopFails BY <1>6 DEF LoopFails, LoopOnly
<1>7. CASE Spawn BY <1>7 DEF Spawn, Check
<1>8. CASE Woken BY <1>8 DEF Woken, LoopOnly, Look, Check
<1>9. CASE PollTick BY <1>9 DEF PollTick, LoopOnly, Look, Check
<1>10. ASSUME NEW e \in Execs, Begin(e) PROVE Tasks' BY <1>10 DEF Begin, TaskOnly, Step
<1>11. ASSUME NEW e \in Execs, ReadToken(e) PROVE Tasks' BY <1>11 DEF ReadToken, TaskOnly, Step
<1>12. ASSUME NEW e \in Execs, Dispatch(e) PROVE Tasks' BY <1>12 DEF Dispatch, TaskOnly, Step
<1>13. ASSUME NEW e \in Execs, SendEnds(e) PROVE Tasks' BY <1>13 DEF SendEnds, TaskOnly, Step, Fails
<1>14. ASSUME NEW e \in Execs, ObserveEnds(e) PROVE Tasks'
  BY <1>14 DEF ObserveEnds, TaskOnly, Step
<1>15. ASSUME NEW e \in Execs, Cancelled(e) PROVE Tasks'
  <2>1. Live(e) /\ stop = "cancelling" /\ task' = [task EXCEPT ![e] = "ended"] BY <1>15 DEF Cancelled
  <2>2. /\ \A o \in Execs : o # e => row'[o] = row[o]
        /\ row'[e] = row[e] \/ (row[e] = "reserved" /\ e \notin stranded')
    BY <1>15, <2>1 DEF Cancelled
  <2>3. stranded' = stranded \/ (stranded' = stranded \cup {e} /\ row'[e] = "reserved" /\ e \in begun)
    BY <1>15, <2>1 DEF Cancelled, Strand
  <2>4. UNCHANGED <<stop, active, started, begun>> BY <1>15 DEF Cancelled, TaskOnly
  <2> QED BY <2>1, <2>2, <2>3, <2>4
<1>16. ASSUME NEW e \in Execs, Collect(e) PROVE Tasks' BY <1>16 DEF Collect, TaskOnly, Step
<1>17. ASSUME NEW e \in Execs, TaskFails(e) PROVE Tasks'
  <2>1. Live(e) /\ e \in begun /\ task' = [task EXCEPT ![e] = "ended"] BY <1>17 DEF TaskFails
  <2>2. /\ \A o \in Execs : o # e => row'[o] = row[o]
        /\ row'[e] # "queued"
    BY <1>17, <2>1 DEF TaskFails
  <2>3. stranded' = stranded \/ stranded' = stranded \cup {e} BY <1>17 DEF TaskFails, Strand
  <2>4. UNCHANGED <<stop, active, started, begun>> BY <1>17 DEF TaskFails, TaskOnly
  <2>5. \A o \in Execs : Live(o)' => row'[o] # "queued" /\ o \notin stranded' BY <2>1, <2>2, <2>3
  <2>6. stop' # "cancelling" => \A o \in Execs : task'[o] # "none" => row'[o] # "queued"
    BY <2>1, <2>2, <2>4
  <2>7. \A o \in stranded' : row'[o] # "queued" BY <2>2, <2>3
  <2>8. Unstarted' \cap stranded' = Unstarted \cap stranded BY <2>1, <2>3, <2>4
  <2> QED BY <2>4, <2>5, <2>6, <2>7, <2>8
<1>18. ASSUME NEW e \in Execs, Reclaim(e) PROVE Tasks' BY <1>18 DEF Reclaim, EnvOnly
<1>19. ASSUME NEW e \in Execs, Settles(e) PROVE Tasks' BY <1>19 DEF Settles, EnvOnly
<1>20. CASE StopCalled BY <1>20 DEF StopCalled, StopOnly
<1>21. CASE ConsumerEnds
  <2>1. CASE row' = row /\ stranded' = stranded \cup ({item} \ {NoExec})
    BY <1>21, <2>1 DEF ConsumerEnds, StopOnly
  <2>2. ASSUME NEW e \in Execs, Waiting(e), row' = [row EXCEPT ![e] = "reserved"],
               stranded' = stranded \cup {e}
        PROVE  Tasks'
    BY <1>21, <2>2 DEF ConsumerEnds, StopOnly
  <2> QED BY <1>21, <2>1, <2>2 DEF ConsumerEnds, Claimable, Oldest
<1>22. CASE Grace BY <1>22 DEF Grace, StopOnly
<1>23. CASE GraceSuffices BY <1>23 DEF GraceSuffices, StopOnly
<1>24. CASE GraceExpires BY <1>24 DEF GraceExpires, StopOnly
<1>25. CASE AllCancelled BY <1>25 DEF AllCancelled, StopOnly
<1>26. ASSUME NEW e \in Execs, RestoreUnstarted(e) PROVE Tasks'
  BY <1>26 DEF RestoreUnstarted, RestoreOnly, Strand, Fails
<1>27. CASE StopEnds BY <1>27 DEF StopEnds, StopOnly
<1>28. CASE Crash BY <1>28 DEF Crash, StopOnly
<1>29. ASSUME NEW d \in Devices, Flap(d) PROVE Tasks' BY <1>29 DEF Flap, EnvOnly
<1>30. CASE UNCHANGED vars BY <1>30
<1>31. ASSUME NEW e \in Execs, ObserveFails(e) PROVE Tasks'
  BY <1>31 DEF ObserveFails, TaskOnly, Step, Fails
<1> QED
  BY <1>1, <1>2, <1>3, <1>4, <1>5, <1>6, <1>7, <1>8, <1>9, <1>10, <1>11, <1>12, <1>13,
     <1>14, <1>15, <1>16, <1>17, <1>18, <1>19, <1>20, <1>21, <1>22, <1>23, <1>24, <1>25,
     <1>26, <1>27, <1>28, <1>29, <1>30, <1>31 DEF Next, Consume, Advance, Stopping

\* A claim changes hands and is not dropped.
LEMMA HeldStep ==
  ASSUME IInv, [Next]_vars PROVE ClaimsAreHeld'
<1> USE PoolAssumption
    DEF IInv, ClaimsAreHeld, Held, Tasks, Table, Consumer, Stopped, TypeOK, Live, Unstarted,
           Waiting,
           vars, dbVars, loopVars, poolVars,
           taskVars, stopVars, boundVars
<1>1. CASE Start BY <1>1 DEF Start
<1>2. CASE CommitClaim
  <2> PICK e \in Execs : Claimable(e) /\ row' = [row EXCEPT ![e] = "reserved"] /\ item' = e
    BY <1>2 DEF CommitClaim, Oldest
  <2>1. \A o \in Execs : row'[o] = "reserved" => o = e \/ row[o] = "reserved" OBVIOUS
  <2>2. item = NoExec BY <1>2 DEF CommitClaim
  <2>3. stop = "up" /\ stop' = stop /\ task' = task /\ stranded' = stranded
        /\ UNCHANGED <<nstop, nfail>>
    BY <1>2 DEF CommitClaim, LoopOnly
  <2>4. e \notin stranded BY DEF Claimable
  <2>5. \A o \in Execs : row'[o] = "reserved" => (Held(o)' <=> o \notin stranded')
    <3> SUFFICES ASSUME NEW o \in Execs, row'[o] = "reserved" PROVE Held(o)' <=> o \notin stranded'
      OBVIOUS
    <3>1. CASE o = e BY <2>3, <2>4, <3>1
    <3>2. CASE o # e
      <4>1. row[o] = "reserved" BY <2>1, <3>2
      <4>2. item # o /\ item' # o BY <2>2, <3>2
      <4> QED BY <2>3, <4>1, <4>2
    <3> QED BY <3>1, <3>2
  <2>6. stranded' # {} => nstop' + nfail' > 0 BY <2>3
  <2> QED BY <2>5, <2>6 DEF ClaimsAreHeld
<1>3. CASE NothingToClaim BY <1>3 DEF NothingToClaim, LoopOnly
<1>4. CASE SettleUnavailable
  <2>1. \A e \in Execs : row'[e] = "reserved" => row[e] = "reserved"
    BY <1>4 DEF SettleUnavailable, Oldest, Hopeless
  <2> QED BY <1>4, <2>1 DEF SettleUnavailable, LoopOnly
<1>5. CASE NothingToSettle BY <1>5 DEF NothingToSettle, LoopOnly
<1>6. CASE LoopFails BY <1>6 DEF LoopFails, LoopOnly
<1>7. CASE Spawn BY <1>7 DEF Spawn, Check
<1>8. CASE Woken BY <1>8 DEF Woken, LoopOnly, Look, Check
<1>9. CASE PollTick BY <1>9 DEF PollTick, LoopOnly, Look, Check
<1>10. ASSUME NEW e \in Execs, Begin(e) PROVE ClaimsAreHeld' BY <1>10 DEF Begin, TaskOnly, Step
<1>11. ASSUME NEW e \in Execs, ReadToken(e) PROVE ClaimsAreHeld'
  BY <1>11 DEF ReadToken, TaskOnly, Step
<1>12. ASSUME NEW e \in Execs, Dispatch(e) PROVE ClaimsAreHeld'
  BY <1>12 DEF Dispatch, TaskOnly, Step
<1>13. ASSUME NEW e \in Execs, SendEnds(e) PROVE ClaimsAreHeld'
  BY <1>13 DEF SendEnds, TaskOnly, Step, Fails
<1>14. ASSUME NEW e \in Execs, ObserveEnds(e) PROVE ClaimsAreHeld'
  BY <1>14 DEF ObserveEnds, TaskOnly, Step
<1>15. ASSUME NEW e \in Execs, Cancelled(e) PROVE ClaimsAreHeld'
  BY <1>15 DEF Cancelled, TaskOnly, Strand, Fails
<1>16. ASSUME NEW e \in Execs, Collect(e) PROVE ClaimsAreHeld'
  BY <1>16 DEF Collect, TaskOnly, Step
<1>17. ASSUME NEW e \in Execs, TaskFails(e) PROVE ClaimsAreHeld'
  BY <1>17 DEF TaskFails, TaskOnly, Strand, Fails
<1>18. ASSUME NEW e \in Execs, Reclaim(e) PROVE ClaimsAreHeld' BY <1>18 DEF Reclaim, EnvOnly
<1>19. ASSUME NEW e \in Execs, Settles(e) PROVE ClaimsAreHeld' BY <1>19 DEF Settles, EnvOnly
<1>20. CASE StopCalled BY <1>20 DEF StopCalled, StopOnly
<1>21. CASE ConsumerEnds BY <1>21 DEF ConsumerEnds, StopOnly, Claimable, Oldest
<1>22. CASE Grace BY <1>22 DEF Grace, StopOnly
<1>23. CASE GraceSuffices BY <1>23 DEF GraceSuffices, StopOnly
<1>24. CASE GraceExpires BY <1>24 DEF GraceExpires, StopOnly
<1>25. CASE AllCancelled BY <1>25 DEF AllCancelled, StopOnly
<1>26. ASSUME NEW e \in Execs, RestoreUnstarted(e) PROVE ClaimsAreHeld'
  BY <1>26 DEF RestoreUnstarted, RestoreOnly, Strand, Fails
<1>27. CASE StopEnds BY <1>27 DEF StopEnds, StopOnly
<1>28. CASE Crash BY <1>28 DEF Crash, StopOnly
<1>29. ASSUME NEW d \in Devices, Flap(d) PROVE ClaimsAreHeld' BY <1>29 DEF Flap, EnvOnly
<1>30. CASE UNCHANGED vars BY <1>30
<1>31. ASSUME NEW e \in Execs, ObserveFails(e) PROVE ClaimsAreHeld'
  BY <1>31 DEF ObserveFails, TaskOnly, Step, Fails
<1> QED
  BY <1>1, <1>2, <1>3, <1>4, <1>5, <1>6, <1>7, <1>8, <1>9, <1>10, <1>11, <1>12, <1>13,
     <1>14, <1>15, <1>16, <1>17, <1>18, <1>19, <1>20, <1>21, <1>22, <1>23, <1>24, <1>25,
     <1>26, <1>27, <1>28, <1>29, <1>30, <1>31 DEF Next, Consume, Advance, Stopping

\* The consumer claims only where a slot is free, and takes it before it claims
\* again.
LEMMA CapacityStep ==
  ASSUME IInv, [Next]_vars PROVE Capacity'
<1> USE PoolAssumption DEF IInv, Capacity, TypeOK, vars, dbVars, loopVars, poolVars
<1>1. IsFiniteSet(slots) /\ Cardinality(slots) \in Nat
  BY FS_Subset, FS_CardinalityType
<1>2. IsFiniteSet({}) /\ Cardinality({}) = 0 BY FS_EmptySet
<1>3. ASSUME slots' = slots,
             loop' \in {"claim", "settle", "close"} =>
               loop \in {"claim", "settle", "close"} \/ Cardinality(slots) < Concurrency
      PROVE  Capacity'
  BY <1>1, <1>3
<1>4. CASE slots' = {} BY <1>2, <1>4
<1>5. CASE Spawn
  <2>1. item \in Execs /\ item \notin slots BY <1>5 DEF Spawn, Consumer, Table
  <2>2. Cardinality(slots') = Cardinality(slots) + 1 BY <1>1, <1>5, <2>1, FS_AddElement DEF Spawn
  <2> QED BY <1>1, <1>5, <2>2 DEF Spawn, Check
<1>6. ASSUME NEW e \in Execs, Collect(e) PROVE Capacity'
  <2>1. e \in slots BY <1>6 DEF Collect, Step, Table
  <2>2. Cardinality(slots') = Cardinality(slots) - 1 BY <1>1, <1>6, <2>1, FS_RemoveElement DEF Collect
  <2> QED BY <1>1, <1>6, <2>2 DEF Collect, TaskOnly
<1>7. CASE CommitClaim \/ NothingToClaim \/ NothingToSettle \/ LoopFails
  BY <1>3, <1>7 DEF CommitClaim, NothingToClaim, NothingToSettle, LoopFails
<1>8. CASE SettleUnavailable \/ Woken \/ PollTick
  BY <1>3, <1>8 DEF SettleUnavailable, Woken, PollTick, Look, Check
<1>9. ASSUME NEW e \in Execs,
             Begin(e) \/ ReadToken(e) \/ Dispatch(e) \/ SendEnds(e) \/ ObserveEnds(e)
               \/ ObserveFails(e) \/ Cancelled(e) \/ TaskFails(e)
      PROVE  Capacity'
  BY <1>3, <1>9 DEF Begin, ReadToken, Dispatch, SendEnds, ObserveEnds, ObserveFails, Cancelled, TaskFails,
                     TaskOnly
<1>10. ASSUME NEW e \in Execs, Reclaim(e) \/ Settles(e) \/ RestoreUnstarted(e) PROVE Capacity'
  BY <1>3, <1>10 DEF Reclaim, Settles, RestoreUnstarted, RestoreOnly, EnvOnly
<1>11. CASE StopCalled \/ ConsumerEnds \/ Grace \/ GraceSuffices \/ GraceExpires \/ AllCancelled \/ StopEnds
  BY <1>3, <1>11 DEF StopCalled, ConsumerEnds, Grace, GraceSuffices, GraceExpires, AllCancelled, StopEnds
<1>12. ASSUME NEW d \in Devices, Flap(d) PROVE Capacity' BY <1>3, <1>12 DEF Flap, EnvOnly
<1>13. CASE UNCHANGED vars BY <1>3, <1>13
<1> QED
  BY <1>4, <1>5, <1>6, <1>7, <1>8, <1>9, <1>10, <1>11, <1>12, <1>13
     DEF Next, Consume, Advance, Stopping, Start, Crash

-----------------------------------------------------------------------------
LEMMA InitIInv == Init => IInv
<1> SUFFICES ASSUME Init PROVE IInv OBVIOUS
<1> USE PoolAssumption
<1>1. TypeOK
  <2>1. row \in [Execs -> {"queued", "reserved", "sent", "settled"}] BY DEF Init
  <2>2. retry \in [Execs -> 0 .. MaxRetries] BY DEF Init
  <2>3. task \in [Execs -> TaskStates] BY DEF Init, TaskStates
  <2> QED BY <2>1, <2>2, <2>3 DEF Init, TypeOK, LoopStates, StopStates
<1>2. Capacity BY FS_EmptySet DEF Init, Capacity
<1>3. Table /\ Consumer BY DEF Init, Table, Consumer
<1>4. Stopped /\ Tasks BY DEF Init, Stopped, Tasks, Live
<1>5. ClaimsAreHeld BY DEF Init, ClaimsAreHeld
<1> QED BY <1>1, <1>2, <1>3, <1>4, <1>5 DEF IInv

LEMMA StepIInv == IInv /\ [Next]_vars => IInv'
BY TypeStep, TableStep, CapacityStep, ConsumerStep, StoppedStep, TasksStep, HeldStep DEF IInv

THEOREM PoolInvariant == Spec => []IInv
BY InitIInv, StepIInv, PTL DEF Spec

\* The types, with the bound on how often a claim is queued again.
THEOREM PoolTyped == Spec => []TypeOK
BY PoolInvariant, PTL DEF IInv

\* worker_concurrency bounds the executions that run, and every one of them is
\* in the table stop() waits for (_claim_loop, _execution_done).
THEOREM PoolStaysBounded == Spec => []PoolIsBounded
<1>1. IInv => PoolIsBounded BY DEF IInv, Table, Capacity, PoolIsBounded
<1> QED BY <1>1, PoolInvariant, PTL

\* stop() returns only when no task is left (worker_runtime.py:107-120).
THEOREM StoppedPoolIsEmpty == Spec => []StopLeavesNoTask
<1>1. IInv => StopLeavesNoTask BY DEF IInv, Table, StopLeavesNoTask
<1> QED BY <1>1, PoolInvariant, PTL

\* A claim has somebody who will dispatch it or give it back exactly until it is
\* stranded, and only a stop, a crash or a failed transaction strands one: what
\* the scan of stale claims takes back is nobody's (worker_service.py:408-446,
\* worker_runtime.py:107-137).
THEOREM ClaimsStayHeld == Spec => []ClaimsAreHeld
BY PoolInvariant, PTL DEF IInv

\* A wakeup between the capacity check and the wait is not lost.
THEOREM WakeupsArrive == Spec => []NoLostWakeup
<1>1. IInv => NoLostWakeup BY DEF IInv, Consumer, NoLostWakeup
<1> QED BY <1>1, PoolInvariant, PTL

=============================================================================
