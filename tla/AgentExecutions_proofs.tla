----------------------- MODULE AgentExecutions_proofs -----------------------
(* Theorems about AgentExecutions for every set of executions, every memory *)
(* and all faults.                                                          *)
EXTENDS AgentExecutions, FiniteSetTheorems, TLAPS

USE ExecsAssumption, MessageAssumption, MemoryAssumption, FaultAssumption, OutcomeAssumption

(***************************************************************************)
(* The invariant.  Which awaits come with a reference and which without;   *)
(* at the others both occur, since a task gets there with and without one. *)
(***************************************************************************)
WithRef    == {"ready", "setup", "run"}
WithoutRef == {"none", "created", "ensure", "starting", "stopping"}

Holding == \A e \in Execs : /\ pc[e] \in WithRef => e \in held
                            /\ pc[e] \in WithoutRef => e \notin held

\* Only a task that is driving or leaving has a driver.
DriversDrive ==
  \A e \in drivers : pc[e] \in {"run", "converge", "report", "handler", "quit"}

\* The server is started and stopped at a count of zero, which the lock keeps.
AtZero == \A e \in Execs : pc[e] \in {"starting", "stopping"} => refs = 0

\* As long as nothing took the server from its users, the count is exact and
\* the server runs whenever it is not zero.
Exact ==
  disturbed = {} =>
    /\ threads = {} /\ refs = Cardinality(held) + lost
    /\ refs > 0 /\ phase # "closed" => server = "up"

ClosedIsOver == phase = "closed" => Running = {}

RefInv == LockIsHeld /\ Holding /\ AtZero /\ RefsAreBacked /\ Exact /\ ClosedIsOver
IInv   == TypeOK /\ DriversDrive /\ RefInv

(***************************************************************************)
(* Facts about the pieces of the actions.                                  *)
(***************************************************************************)

\* A move of one task: its await, and what becomes of the set of runtimes.
LEMMA Moved ==
  ASSUME TypeOK, NEW e \in Execs, NEW a \in Awaits, Goto(e, a)
  PROVE  /\ pc' \in [Execs -> Awaits] /\ pc'[e] = a
         /\ \A x \in Execs \ {e} : pc'[x] = pc[x]
         /\ a # "none" => Running' = Running \cup {e}
         /\ a = "none" => Running' = Running \ {e}
<1>1. /\ pc' \in [Execs -> Awaits] /\ pc'[e] = a
      /\ \A x \in Execs \ {e} : pc'[x] = pc[x]
  BY DEF TypeOK, Goto
<1> QED BY <1>1 DEF Running

\* The set of tasks that owe a reference is finite.
LEMMA HeldIsFinite ==
  ASSUME TypeOK
  PROVE  IsFiniteSet(held) /\ Cardinality(held) \in Nat
<1>1. held \subseteq Execs
  BY DEF TypeOK, Running
<1> QED BY <1>1, FS_Subset, FS_CardinalityType

\* Taking and giving back a reference counts exactly one task.
LEMMA HeldCounts ==
  ASSUME TypeOK, NEW e \in Execs
  PROVE  /\ e \notin held => Cardinality(held \cup {e}) = Cardinality(held) + 1
         /\ e \in held => Cardinality(held \ {e}) = Cardinality(held) - 1
         /\ e \notin held => held \ {e} = held
         /\ e \in held => Cardinality(held) >= 1
<1>1. IsFiniteSet(held) /\ Cardinality(held) \in Nat
  BY HeldIsFinite
<1>2. Cardinality(held \cup {e}) = IF e \in held THEN Cardinality(held) ELSE Cardinality(held) + 1
  BY <1>1, FS_AddElement
<1>3. /\ IsFiniteSet(held \ {e})
      /\ Cardinality(held \ {e}) = IF e \in held THEN Cardinality(held) - 1 ELSE Cardinality(held)
  BY <1>1, FS_RemoveElement
<1>4. Cardinality(held \ {e}) \in Nat
  BY <1>3, FS_CardinalityType
<1> QED BY <1>1, <1>2, <1>3, <1>4

\* The bounded memory stays a sequence of executions.
LEMMA RememberType ==
  ASSUME finished \in Seq(Execs), NEW e \in Execs
  PROVE  Remember(e) \in Seq(Execs)
<1>1. Len(finished) >= Memory => finished # <<>>
  OBVIOUS
<1>2. finished # <<>> => Tail(finished) \in Seq(Execs)
  OBVIOUS
<1> QED BY <1>1, <1>2 DEF Remember

\* Recording a verdict moves the task and touches nothing of the server.
LEMMA RecordType ==
  ASSUME TypeOK, NEW e \in Execs, NEW v \in Verdicts, NEW a \in Awaits, Record(e, v, a)
  PROVE  /\ Goto(e, a) /\ out' \in [Execs -> Verdicts]
         /\ recorded' \in SUBSET Execs /\ finished' \in Seq(Execs)
BY RememberType DEF Record, TypeOK

\* One reference less is a count again.
LEMMA LessIsLess ==
  ASSUME refs \in Nat
  PROVE  Less \in Nat /\ (refs > 0 => Less = refs - 1) /\ (refs = 0 => Less = 0)
BY DEF Less

(***************************************************************************)
(* Steps that leave the server, the lock and the references alone.         *)
(***************************************************************************)

\* A task that moves outside the lock, to an await that fits what it holds.
LEMMA QuietMove ==
  ASSUME IInv, NEW e \in Execs, NEW a \in Awaits, Goto(e, a),
         UNCHANGED <<appiumVars, refVars, phase>>,
         pc[e] \notin Inside, a \notin Inside, phase # "closed",
         a \in WithRef => e \in held, a \in WithoutRef => e \notin held
  PROVE  RefInv'
<1>1. /\ pc'[e] = a /\ \A x \in Execs \ {e} : pc'[x] = pc[x]
  BY Moved DEF IInv
<1>2. UNCHANGED <<lock, refs, server, threads, held, lost, disturbed, phase>>
  BY DEF appiumVars, refVars
<1>3. LockIsHeld'
  BY <1>1, <1>2 DEF IInv, RefInv, LockIsHeld
<1>4. Holding'
  BY <1>1, <1>2 DEF IInv, RefInv, Holding
<1>5. AtZero'
  BY <1>1, <1>2 DEF IInv, RefInv, AtZero, Inside
<1>6. RefsAreBacked' /\ Exact' /\ ClosedIsOver'
  BY <1>2 DEF IInv, RefInv, RefsAreBacked, Exact, ClosedIsOver
<1> QED BY <1>3, <1>4, <1>5, <1>6 DEF RefInv

\* No task moves: the receive loop, the connection, the exit.
LEMMA QuietStep ==
  ASSUME IInv, UNCHANGED <<pc, appiumVars, refVars>>,
         phase' = phase \/ (phase # "closed" /\ phase' # "closed")
  PROVE  RefInv'
<1>1. UNCHANGED <<pc, lock, refs, server, threads, held, lost, disturbed>>
  BY DEF appiumVars, refVars
<1>2. LockIsHeld' /\ Holding' /\ AtZero'
  BY <1>1 DEF IInv, RefInv, LockIsHeld, Holding, AtZero
<1>3. phase' = "closed" => phase = "closed"
  OBVIOUS
<1>4. ClosedIsOver'
  BY <1>1, <1>3 DEF IInv, RefInv, ClosedIsOver, Running
<1>5. RefsAreBacked'
  BY <1>1 DEF IInv, RefInv, RefsAreBacked
<1>6. Exact'
  <2>1. phase' # "closed" => phase # "closed"
    OBVIOUS
  <2> QED BY <1>1, <2>1 DEF IInv, RefInv, Exact
<1> QED BY <1>2, <1>4, <1>5, <1>6 DEF RefInv

(***************************************************************************)
(* Steps that take a reference or give it back.                            *)
(***************************************************************************)

\* Nobody is inside while the lock is free.
LEMMA FreeIsEmpty ==
  ASSUME IInv, lock = NoOne
  PROVE  \A x \in Execs : pc[x] \notin Inside
BY DEF IInv, RefInv, LockIsHeld

\* _ensure_appium with the lock just taken.
LEMMA TakeEnsureStep ==
  ASSUME IInv, NEW e \in Execs, TakeEnsure(e), lock = NoOne, phase' = phase,
         pc[e] \in {"created", "ensure"}
  PROVE  /\ RefInv'
         /\ \E a \in {"starting", "ready"} : Goto(e, a)
         /\ lock' \in Execs /\ refs' \in Nat /\ held' \subseteq held \cup {e}
         /\ UNCHANGED <<server, threads, lost, disturbed>>
<1>1. e \notin held /\ phase # "closed"
  BY DEF IInv, RefInv, Holding, WithoutRef, ClosedIsOver, Running
<1>2. refs \in Nat /\ lost \in Nat /\ Cardinality(held) \in Nat
  BY HeldIsFinite DEF IInv, TypeOK
<1>3. /\ lock' = e /\ UNCHANGED <<server, threads, lost, disturbed>>
      /\ \/ refs = 0 /\ Goto(e, "starting") /\ refs' = refs /\ held' = held
         \/ refs > 0 /\ Goto(e, "ready") /\ refs' = refs + 1 /\ held' = held \cup {e}
  BY DEF TakeEnsure
<1>4. PICK a \in {"starting", "ready"} : Goto(e, a)
  BY <1>3
<1>5. pc'[e] = a /\ \A x \in Execs \ {e} : pc'[x] = pc[x]
  BY <1>4, Moved DEF IInv, Awaits
<1>6. a = "starting" => refs' = 0 /\ refs = 0 /\ held' = held
  BY <1>3, <1>5, Moved DEF IInv, Awaits
<1>7. a = "ready" => refs' = refs + 1 /\ held' = held \cup {e} /\ refs > 0
  BY <1>3, <1>5, Moved DEF IInv, Awaits
<1>8. \A x \in Execs : pc[x] \notin Inside
  BY FreeIsEmpty
<1>9. LockIsHeld'
  BY <1>3, <1>5, <1>8 DEF LockIsHeld, Inside
<1>10. Holding'
  BY <1>1, <1>5, <1>6, <1>7 DEF IInv, RefInv, Holding, WithRef, WithoutRef
<1>11. AtZero'
  BY <1>5, <1>6, <1>8 DEF AtZero, Inside
<1>12. Cardinality(held \cup {e}) = Cardinality(held) + 1
  BY <1>1, HeldCounts DEF IInv
<1>13. refs <= Cardinality(held) + lost
  BY DEF IInv, RefInv, RefsAreBacked
<1>14. RefsAreBacked' /\ Exact'
  <2>1. CASE a = "starting"
    <3>1. refs' = 0 /\ refs = 0 /\ held' = held
      BY <1>6, <2>1
    <3>2. RefsAreBacked'
      BY <1>2, <1>3, <1>13, <3>1 DEF RefsAreBacked
    <3>3. Exact'
      BY <1>2, <1>3, <3>1 DEF IInv, RefInv, Exact
    <3> QED BY <3>2, <3>3
  <2>2. CASE a = "ready"
    <3>1. refs' = refs + 1 /\ held' = held \cup {e} /\ refs > 0
      BY <1>7, <2>2
    <3>2. RefsAreBacked'
      BY <1>2, <1>3, <1>12, <1>13, <3>1 DEF RefsAreBacked
    <3>3. Exact'
      BY <1>1, <1>2, <1>3, <1>12, <3>1 DEF IInv, RefInv, Exact
    <3> QED BY <3>2, <3>3
  <2> QED BY <2>1, <2>2
<1>15. ClosedIsOver'
  BY <1>1 DEF ClosedIsOver
<1> QED
  BY <1>2, <1>3, <1>4, <1>6, <1>7, <1>9, <1>10, <1>11, <1>14, <1>15 DEF RefInv

\* _release_appium with the lock just taken.
LEMMA TakeReleaseStep ==
  ASSUME IInv, NEW e \in Execs, TakeRelease(e), lock = NoOne, phase' = phase,
         pc[e] \in {"report", "converge", "handler", "quit", "release"}
  PROVE  /\ RefInv'
         /\ \E a \in {"stopping", "none"} : Goto(e, a)
         /\ lock' \in Execs \cup {NoOne} /\ refs' \in Nat /\ held' = held \ {e}
         /\ disturbed' \in {disturbed, disturbed \cup {"release"}}
         /\ UNCHANGED <<server, threads, lost>>
<1>1. phase # "closed"
  BY DEF IInv, RefInv, ClosedIsOver, Running
<1>2. refs \in Nat /\ lost \in Nat /\ Cardinality(held) \in Nat
  BY HeldIsFinite DEF IInv, TypeOK
<1>3. /\ Less \in Nat /\ (refs > 0 => Less = refs - 1) /\ (refs = 0 => Less = 0)
  BY <1>2, LessIsLess
<1>4. /\ refs' = Less /\ held' = held \ {e} /\ UNCHANGED <<server, threads, lost>>
      /\ disturbed' = IF e \in held THEN disturbed ELSE disturbed \cup {"release"}
      /\ \/ Less = 0 /\ lock' = e /\ Goto(e, "stopping")
         \/ Less > 0 /\ lock' = lock /\ Goto(e, "none")
  BY DEF TakeRelease
<1>5. PICK a \in {"stopping", "none"} : Goto(e, a)
  BY <1>4
<1>6. pc'[e] = a /\ \A x \in Execs \ {e} : pc'[x] = pc[x]
  BY <1>5, Moved DEF IInv, Awaits
<1>7. /\ a = "stopping" => Less = 0 /\ lock' = e
      /\ a = "none" => Less > 0 /\ lock' = NoOne
  BY <1>4, <1>6, Moved DEF IInv, Awaits
<1>8. \A x \in Execs : pc[x] \notin Inside
  BY FreeIsEmpty
<1>9. LockIsHeld'
  BY <1>6, <1>7, <1>8 DEF LockIsHeld, Inside
<1>10. Holding'
  BY <1>4, <1>6 DEF IInv, RefInv, Holding, WithRef, WithoutRef
<1>11. AtZero'
  BY <1>4, <1>6, <1>7, <1>8 DEF AtZero, Inside
<1>12. /\ e \in held => Cardinality(held \ {e}) = Cardinality(held) - 1 /\ Cardinality(held) >= 1
       /\ e \notin held => held \ {e} = held
  BY HeldCounts DEF IInv
<1>13. RefsAreBacked'
  <2>1. refs <= Cardinality(held) + lost
    BY DEF IInv, RefInv, RefsAreBacked
  <2>2. Less <= Cardinality(held \ {e}) + lost
    <3>1. CASE e \in held
      <4>1. Cardinality(held \ {e}) = Cardinality(held) - 1 /\ Cardinality(held) >= 1
        BY <1>12, <3>1
      <4>2. CASE refs = 0
        BY <1>2, <1>3, <4>1, <4>2
      <4>3. CASE refs > 0
        <5>1. Less = refs - 1
          BY <1>3, <4>3
        <5> QED BY <1>2, <2>1, <4>1, <5>1
      <4> QED BY <1>2, <4>2, <4>3
    <3>2. CASE e \notin held
      <4>1. Cardinality(held \ {e}) = Cardinality(held)
        BY <1>12, <3>2
      <4>2. Less <= refs
        BY <1>2, <1>3
      <4> QED BY <1>2, <1>3, <2>1, <4>1, <4>2
    <3> QED BY <3>1, <3>2
  <2> QED BY <1>4, <2>2 DEF RefsAreBacked
<1>14. Exact'
  <2>1. CASE e \in held
    BY <1>1, <1>2, <1>3, <1>4, <1>12, <2>1 DEF IInv, RefInv, Exact
  <2>2. CASE e \notin held
    BY <1>4, <2>2 DEF Exact
  <2> QED BY <2>1, <2>2
<1>15. ClosedIsOver'
  BY <1>1 DEF ClosedIsOver
<1> QED
  BY <1>3, <1>4, <1>5, <1>7, <1>6, <1>9, <1>10, <1>11, <1>13, <1>14, <1>15 DEF RefInv

\* What the finally clause may do, whichever await it ends at.
Left(e) ==
  /\ \E a \in {"quit", "release", "stopping", "none"} : Goto(e, a)
  /\ lock' \in Execs \cup {NoOne} /\ refs' \in Nat /\ UNCHANGED <<server, threads, lost>>
  /\ held' \subseteq held /\ disturbed' \in {disturbed, disturbed \cup {"release"}}
  /\ pc'[e] = "none" => e \notin held'

\* Asking for the lock of _release_appium, whether it is free or not.
LEMMA ReleaseStep ==
  ASSUME IInv, NEW e \in Execs, Release(e), phase' = phase,
         pc[e] \in {"report", "converge", "handler", "quit"}
  PROVE  RefInv' /\ Left(e) /\ pc'[e] # "quit"
<1>1. CASE Free /\ TakeRelease(e)
  <2>1. /\ RefInv'
        /\ \E a \in {"stopping", "none"} : Goto(e, a)
        /\ lock' \in Execs \cup {NoOne} /\ refs' \in Nat /\ held' = held \ {e}
        /\ disturbed' \in {disturbed, disturbed \cup {"release"}}
        /\ UNCHANGED <<server, threads, lost>>
    BY <1>1, TakeReleaseStep DEF Free
  <2>2. pc'[e] \in {"stopping", "none"}
    BY <2>1, Moved DEF IInv, Awaits
  <2> QED BY <2>1, <2>2 DEF Left
<1>2. CASE Busy /\ Goto(e, "release") /\ UNCHANGED <<appiumVars, refVars>>
  <2>1. phase # "closed"
    BY DEF IInv, RefInv, ClosedIsOver, Running
  <2>2. RefInv'
    BY <1>2, <2>1, QuietMove DEF Inside, WithRef, WithoutRef, Awaits
  <2>3. pc'[e] = "release"
    BY <1>2, Moved DEF IInv, Awaits
  <2> QED BY <1>2, <2>2, <2>3 DEF Left, appiumVars, refVars, IInv, TypeOK
<1> QED BY <1>1, <1>2 DEF Release

\* The finally clause from its start to its first await.
LEMMA LeaveStep ==
  ASSUME IInv, NEW e \in Execs, Leave(e), phase' = phase,
         pc[e] \in {"report", "converge", "handler"}
  PROVE  RefInv' /\ Left(e) /\ (e \in drivers => pc'[e] = "quit")
<1>1. CASE e \in drivers
  <2>1. Goto(e, "quit") /\ UNCHANGED <<appiumVars, refVars>>
    BY <1>1 DEF Leave
  <2>2. phase # "closed"
    BY DEF IInv, RefInv, ClosedIsOver, Running
  <2>3. RefInv'
    BY <2>1, <2>2, QuietMove DEF Inside, WithRef, WithoutRef, Awaits
  <2>4. pc'[e] = "quit"
    BY <2>1, Moved DEF IInv, Awaits
  <2> QED BY <2>1, <2>3, <2>4 DEF Left, appiumVars, refVars, IInv, TypeOK
<1>2. CASE e \notin drivers
  BY <1>2, ReleaseStep DEF Leave
<1> QED BY <1>1, <1>2

\* A task that is inside has the lock to itself, and gives it up as a whole.
LEMMA LeavesLock ==
  ASSUME IInv, NEW e \in Execs, NEW a \in Awaits \ Inside, Goto(e, a),
         pc[e] \in Inside, lock' = NoOne
  PROVE  LockIsHeld' /\ AtZero' /\ phase # "closed"
<1>1. pc'[e] = a /\ \A x \in Execs \ {e} : pc'[x] = pc[x]
  BY Moved DEF IInv
<1>2. lock = e /\ \A x \in Execs \ {e} : pc[x] \notin Inside
  BY DEF IInv, RefInv, LockIsHeld
<1>3. phase # "closed"
  BY DEF IInv, RefInv, ClosedIsOver, Running, Inside
<1> QED BY <1>1, <1>2, <1>3 DEF LockIsHeld, AtZero, Inside

(***************************************************************************)
(* Every step keeps RefInv.                                                *)
(***************************************************************************)

\* What a task does from one await to the next keeps the references.
LEMMA ContinueKeepsRefs ==
  ASSUME IInv, NEW e \in Execs, Continue(e)
  PROVE  RefInv'
<1> USE DEF At
<1>0. /\ phase' = phase
      /\ pc[e] # "none" => phase # "closed"
      /\ refs \in Nat /\ lost \in Nat /\ Cardinality(held) \in Nat
  BY HeldIsFinite DEF IInv, RefInv, ClosedIsOver, Running, TypeOK, Continue, linkVars, Begin,
     EnsureLocked, Started, StartFails, Ready, NotReady, Setup, Run, Reported, Converge,
     Quit, ReleaseLocked, Stopped
<1>1. CASE Begin(e)
  <2>1. CASE e \in Malformed
    <3>1. Goto(e, "handler") /\ UNCHANGED <<appiumVars, refVars>>
      BY <1>1, <2>1 DEF Begin, Fail, Record
    <3> QED BY <1>0, <1>1, <3>1, QuietMove DEF Begin, Inside, WithRef, WithoutRef, Awaits
  <2>2. CASE Free /\ TakeEnsure(e)
    BY <1>0, <1>1, <2>2, TakeEnsureStep DEF Begin, Free
  <2>3. CASE Busy /\ Goto(e, "ensure") /\ UNCHANGED <<appiumVars, refVars>>
    <3>1. e \notin held
      BY <1>1 DEF Begin, IInv, RefInv, Holding, WithoutRef
    <3> QED BY <1>0, <1>1, <2>3, <3>1, QuietMove DEF Begin, Inside, WithRef, WithoutRef, Awaits
  <2> QED BY <1>1, <2>1, <2>2, <2>3 DEF Begin
<1>2. CASE EnsureLocked(e)
  BY <1>0, <1>2, TakeEnsureStep DEF EnsureLocked
<1>3. CASE Started(e)
  <2>1. /\ Goto(e, "ready") /\ refs' = refs + 1 /\ held' = held \cup {e} /\ server' = "up"
        /\ UNCHANGED <<lock, threads, lost, disturbed>>
    BY <1>3 DEF Started
  <2>2. pc'[e] = "ready" /\ \A x \in Execs \ {e} : pc'[x] = pc[x]
    BY <2>1, Moved DEF IInv, Awaits
  <2>3. pc[e] = "starting" /\ lock = e /\ e \notin held
    BY <1>3 DEF Started, IInv, RefInv, LockIsHeld, Inside, Holding, WithoutRef
  <2>4. \A x \in Execs \ {e} : pc[x] \notin Inside
    BY <2>3 DEF IInv, RefInv, LockIsHeld
  <2>5. Cardinality(held \cup {e}) = Cardinality(held) + 1
    BY <2>3, HeldCounts DEF IInv
  <2>6. LockIsHeld' /\ AtZero'
    BY <2>1, <2>2, <2>3, <2>4 DEF LockIsHeld, AtZero, Inside
  <2>7. Holding'
    BY <2>1, <2>2 DEF IInv, RefInv, Holding, WithRef, WithoutRef
  <2>8. RefsAreBacked' /\ Exact' /\ ClosedIsOver'
    BY <1>0, <2>1, <2>3, <2>5 DEF IInv, RefInv, RefsAreBacked, Exact, ClosedIsOver
  <2> QED BY <2>6, <2>7, <2>8 DEF RefInv
<1>4. CASE StartFails(e)
  <2>1. /\ Goto(e, "handler") /\ lock' = NoOne /\ pc[e] = "starting"
        /\ UNCHANGED <<refs, server, threads, held, lost, disturbed>>
    BY <1>4 DEF StartFails, Fail, Record, refVars
  <2>2. LockIsHeld' /\ AtZero' /\ phase # "closed"
    BY <2>1, LeavesLock DEF Inside, Awaits
  <2>3. Holding'
    BY <2>1, Moved DEF IInv, RefInv, Holding, WithRef, WithoutRef, Awaits
  <2>4. RefsAreBacked' /\ Exact' /\ ClosedIsOver'
    BY <1>0, <2>1, <2>2 DEF IInv, RefInv, RefsAreBacked, Exact, ClosedIsOver
  <2> QED BY <2>2, <2>3, <2>4 DEF RefInv
<1>5. CASE Ready(e)
  <2>1. /\ Goto(e, "setup") /\ lock' = NoOne /\ pc[e] = "ready"
        /\ UNCHANGED <<refs, server, threads, held, lost, disturbed>>
    BY <1>5 DEF Ready, refVars
  <2>2. LockIsHeld' /\ AtZero' /\ phase # "closed"
    BY <2>1, LeavesLock DEF Inside, Awaits
  <2>3. Holding'
    BY <2>1, Moved DEF IInv, RefInv, Holding, WithRef, WithoutRef, Awaits
  <2>4. RefsAreBacked' /\ Exact' /\ ClosedIsOver'
    BY <1>0, <2>1, <2>2 DEF IInv, RefInv, RefsAreBacked, Exact, ClosedIsOver
  <2> QED BY <2>2, <2>3, <2>4 DEF RefInv
<1>6. CASE NotReady(e)
  <2>1. /\ Goto(e, "handler") /\ lock' = NoOne /\ pc[e] = "ready"
        /\ refs' = Less /\ held' = held \ {e}
        /\ UNCHANGED <<server, threads, lost, disturbed>>
    BY <1>6 DEF NotReady, Fail, Record
  <2>2. LockIsHeld' /\ AtZero' /\ phase # "closed"
    BY <2>1, LeavesLock DEF Inside, Awaits
  <2>3. Holding'
    BY <2>1, Moved DEF IInv, RefInv, Holding, WithRef, WithoutRef, Awaits
  <2>4. e \in held
    BY <2>1 DEF IInv, RefInv, Holding, WithRef
  <2>5. Cardinality(held \ {e}) = Cardinality(held) - 1 /\ Cardinality(held) >= 1
    BY <2>4, HeldCounts DEF IInv
  <2>6. (refs > 0 => Less = refs - 1) /\ (refs = 0 => Less = 0)
    BY <1>0, LessIsLess
  <2>7. RefsAreBacked'
    BY <1>0, <2>1, <2>5, <2>6 DEF IInv, RefInv, RefsAreBacked
  <2>8. Exact'
    BY <1>0, <2>1, <2>5, <2>6 DEF IInv, RefInv, Exact
  <2> QED BY <1>0, <2>1, <2>2, <2>3, <2>7, <2>8 DEF RefInv, ClosedIsOver
<1>7. CASE Setup(e)
  <2>1. PICK a \in {"run", "handler"} : Goto(e, a)
    BY <1>7 DEF Setup, Fail, Record
  <2>2. e \in held /\ UNCHANGED <<appiumVars, refVars>>
    BY <1>7 DEF Setup, IInv, RefInv, Holding, WithRef
  <2> QED BY <1>0, <1>7, <2>1, <2>2, QuietMove DEF Setup, Inside, WithRef, WithoutRef, Awaits
<1>8. CASE Run(e)
  <2>1. PICK a \in {"report", "handler"} : Goto(e, a)
    BY <1>8 DEF Run, Fail, Record
  <2> QED BY <1>0, <1>8, <2>1, QuietMove DEF Run, Inside, WithRef, WithoutRef, Awaits
<1>9. CASE Reported(e)
  BY <1>0, <1>9, LeaveStep DEF Reported
<1>10. CASE Converge(e)
  BY <1>0, <1>10, QuietMove DEF Converge, Record, Inside, WithRef, WithoutRef, Awaits
<1>11. CASE Quit(e)
  BY <1>0, <1>11, ReleaseStep DEF Quit
<1>12. CASE ReleaseLocked(e)
  BY <1>0, <1>12, TakeReleaseStep DEF ReleaseLocked
<1>13. CASE Stopped(e)
  <2>1. /\ Goto(e, "none") /\ lock' = NoOne /\ pc[e] = "stopping" /\ server' = "down"
        /\ UNCHANGED <<refs, threads, held, lost, disturbed>>
    BY <1>13 DEF Stopped, refVars
  <2>2. LockIsHeld' /\ AtZero' /\ phase # "closed" /\ refs = 0
    BY <2>1, LeavesLock DEF Inside, Awaits, IInv, RefInv, AtZero
  <2>3. Holding'
    BY <2>1, Moved DEF IInv, RefInv, Holding, WithRef, WithoutRef, Awaits
  <2>4. RefsAreBacked' /\ Exact' /\ ClosedIsOver'
    BY <1>0, <2>1, <2>2 DEF IInv, RefInv, RefsAreBacked, Exact, ClosedIsOver
  <2> QED BY <2>2, <2>3, <2>4 DEF RefInv
<1> QED
  BY <1>1, <1>2, <1>3, <1>4, <1>5, <1>6, <1>7, <1>8, <1>9, <1>10, <1>11, <1>12, <1>13 DEF Continue

\* So does a cancellation, wherever it is thrown.
LEMMA CancelKeepsRefs ==
  ASSUME IInv, NEW e \in Execs, Cancel(e)
  PROVE  RefInv'
<1> USE DEF Thrown
<1>0. /\ phase' = phase /\ phase # "closed"
      /\ refs \in Nat /\ lost \in Nat /\ Cardinality(held) \in Nat
  BY HeldIsFinite DEF IInv, RefInv, ClosedIsOver, Running, TypeOK, Cancel, linkVars,
     CancelCreated, CancelEnsure, CancelRun, CancelReport, CancelHandler, CancelCleanup, Using
<1>1. CASE CancelCreated(e)
  <2>1. e \notin held
    BY <1>1 DEF CancelCreated, IInv, RefInv, Holding, WithoutRef
  <2> QED BY <1>0, <1>1, <2>1, QuietMove DEF CancelCreated, Inside, WithRef, WithoutRef, Awaits
<1>2. CASE CancelEnsure(e)
  <2>1. /\ Goto(e, "handler") /\ pc[e] \in {"ensure", "starting", "ready"}
        /\ lock' = IF pc[e] = "ensure" THEN lock ELSE NoOne
        /\ UNCHANGED <<refs, server, held, lost>>
    BY <1>2 DEF CancelEnsure, Record
  <2>2. CASE pc[e] = "ensure"
    <3>1. UNCHANGED <<appiumVars, refVars>>
      BY <1>2, <2>1, <2>2 DEF CancelEnsure, appiumVars, refVars
    <3> QED BY <1>0, <2>1, <2>2, <3>1, QuietMove DEF Inside, WithRef, WithoutRef, Awaits
  <2>3. CASE pc[e] # "ensure"
    <3>1. LockIsHeld' /\ AtZero'
      BY <2>1, <2>3, LeavesLock DEF Inside, Awaits
    <3>2. Holding'
      BY <2>1, Moved DEF IInv, RefInv, Holding, WithRef, WithoutRef, Awaits
    <3>3. RefsAreBacked' /\ ClosedIsOver'
      BY <1>0, <2>1 DEF IInv, RefInv, RefsAreBacked, ClosedIsOver
    <3>4. disturbed' = {} => disturbed = {} /\ threads' = threads
      BY <1>2 DEF CancelEnsure
    <3>5. Exact'
      BY <1>0, <2>1, <3>4 DEF IInv, RefInv, Exact
    <3> QED BY <3>1, <3>2, <3>3, <3>5 DEF RefInv
  <2> QED BY <2>2, <2>3
<1>3. CASE CancelRun(e)
  <2>1. PICK a \in {"converge", "handler"} : Goto(e, a)
    BY <1>3 DEF CancelRun, Record
  <2> QED BY <1>0, <1>3, <2>1, QuietMove DEF CancelRun, Using, Inside, WithRef, WithoutRef, Awaits
<1>4. CASE CancelReport(e)
  BY <1>0, <1>4, QuietMove DEF CancelReport, Record, Inside, WithRef, WithoutRef, Awaits
<1>5. CASE CancelHandler(e)
  BY <1>0, <1>5, LeaveStep DEF CancelHandler
<1>6. CASE CancelCleanup(e)
  <2>1. Goto(e, "none") /\ pc[e] \in {"quit", "release", "stopping"} /\ UNCHANGED <<refs, server>>
    BY <1>6 DEF CancelCleanup
  <2>2. pc'[e] = "none" /\ \A x \in Execs \ {e} : pc'[x] = pc[x]
    BY <2>1, Moved DEF IInv, Awaits
  <2>3. CASE pc[e] = "stopping"
    <3>1. lock' = NoOne /\ disturbed' # {} /\ UNCHANGED <<held, lost>>
      BY <1>6, <2>3 DEF CancelCleanup
    <3>2. LockIsHeld' /\ AtZero'
      BY <2>1, <2>3, <3>1, LeavesLock DEF Inside, Awaits
    <3>3. Holding'
      BY <2>2, <2>3, <3>1 DEF IInv, RefInv, Holding, WithRef, WithoutRef
    <3>4. RefsAreBacked' /\ Exact' /\ ClosedIsOver'
      BY <1>0, <2>1, <3>1 DEF IInv, RefInv, RefsAreBacked, Exact, ClosedIsOver
    <3> QED BY <3>2, <3>3, <3>4 DEF RefInv
  <2>4. CASE pc[e] # "stopping"
    <3>1. /\ held' = held \ {e} /\ lost' = IF e \in held THEN lost + 1 ELSE lost
          /\ UNCHANGED <<lock, threads, disturbed>>
      BY <1>6, <2>4 DEF CancelCleanup
    <3>2. LockIsHeld' /\ AtZero'
      BY <2>1, <2>2, <2>4, <3>1 DEF IInv, RefInv, LockIsHeld, AtZero, Inside
    <3>3. Holding'
      BY <2>2, <3>1 DEF IInv, RefInv, Holding, WithRef, WithoutRef
    <3>4. Cardinality(held \ {e}) + lost' = Cardinality(held) + lost
      <4>1. CASE e \in held
        <5>1. Cardinality(held \ {e}) = Cardinality(held) - 1
          BY <4>1, HeldCounts DEF IInv
        <5> QED BY <1>0, <3>1, <4>1, <5>1
      <4>2. CASE e \notin held
        <5>1. held \ {e} = held /\ lost' = lost
          BY <3>1, <4>2
        <5> QED BY <5>1
      <4> QED BY <4>1, <4>2
    <3>5. RefsAreBacked' /\ Exact' /\ ClosedIsOver'
      BY <1>0, <2>1, <3>1, <3>4 DEF IInv, RefInv, RefsAreBacked, Exact, ClosedIsOver
    <3> QED BY <3>2, <3>3, <3>5 DEF RefInv
  <2> QED BY <2>3, <2>4
<1> QED BY <1>1, <1>2, <1>3, <1>4, <1>5, <1>6 DEF Cancel

\* The steps that move no task but StartTest.
LEMMA OthersKeepRefs ==
  ASSUME IInv,
         \/ \E e \in Execs : Receive(e)
         \/ \E call \in {"start", "stop"} : FinishThread(call)
         \/ Drop \/ Reconnect \/ Crash \/ Exit \/ Closed
  PROVE  RefInv'
<1>1. ASSUME NEW e \in Execs, StartTest(e) PROVE RefInv'
  <2>1. e \notin held
    BY <1>1 DEF StartTest, IInv, RefInv, Holding, WithoutRef
  <2> QED BY <1>1, <2>1, QuietMove DEF StartTest, Receiving, linkVars, Inside, WithRef, WithoutRef, Awaits
<1>2. ASSUME NEW e \in Execs, RefuseStart(e) \/ StopTest(e) PROVE RefInv'
  BY <1>2, QuietStep DEF RefuseStart, StopTest, taskVars, linkVars
<1>3. CASE Drop \/ Reconnect \/ Exit
  BY <1>3, QuietStep DEF Drop, Reconnect, Exit, taskVars
<1>4. ASSUME NEW call \in {"start", "stop"}, FinishThread(call) PROVE RefInv'
  <2>1. UNCHANGED <<pc, lock, refs, held, lost, disturbed, phase>> /\ threads # {}
    BY <1>4 DEF FinishThread, taskVars, refVars, linkVars
  <2>2. disturbed # {}
    BY <2>1 DEF IInv, RefInv, Exact
  <2> QED BY <2>1, <2>2 DEF IInv, RefInv, LockIsHeld, Holding, AtZero, RefsAreBacked, Exact,
                            ClosedIsOver, Running
<1>5. CASE Crash
  <2>1. UNCHANGED <<pc, lock, refs, held, lost, phase>> /\ disturbed' # {}
    BY <1>5 DEF Crash, taskVars, linkVars
  <2> QED BY <2>1 DEF IInv, RefInv, LockIsHeld, Holding, AtZero, RefsAreBacked, Exact,
                      ClosedIsOver, Running
<1>6. CASE Closed
  <2>1. /\ UNCHANGED <<pc, lock, refs, threads, held, lost, disturbed>>
        /\ phase' = "closed" /\ Running = {}
    BY <1>6 DEF Closed, taskVars, refVars
  <2>2. LockIsHeld' /\ Holding' /\ AtZero' /\ RefsAreBacked' /\ ClosedIsOver'
    BY <2>1 DEF IInv, RefInv, LockIsHeld, Holding, AtZero, RefsAreBacked, ClosedIsOver, Running
  <2>3. Exact'
    BY <2>1 DEF IInv, RefInv, Exact
  <2> QED BY <2>2, <2>3 DEF RefInv
<1> QED BY <1>1, <1>2, <1>3, <1>4, <1>5, <1>6 DEF Receive

(***************************************************************************)
(* Every step keeps the types.  TypeOK in two halves: the sets of tasks,   *)
(* and the rest.                                                           *)
(***************************************************************************)
Driving == {"run", "converge", "report", "handler", "quit"}

TaskSetsOK ==
  /\ pc \in [Execs -> Awaits]
  /\ cancelled \in SUBSET Running /\ drivers \in SUBSET Running /\ held \in SUBSET Running
  /\ DriversDrive

ServerOK ==
  /\ lock \in Execs \cup {NoOne} /\ refs \in Nat /\ server \in {"up", "down"}
  /\ threads \in SUBSET {"start", "stop"}
  /\ lost \in Nat /\ disturbed \in SUBSET {"release", "thread", "crash"}

ResultsOK ==
  /\ out \in [Execs -> Verdicts] /\ finished \in Seq(Execs)
  /\ recorded \in SUBSET Execs /\ told \in [Execs -> SUBSET Verdicts]

BoundsOK ==
  /\ registered \in BOOLEAN /\ phase \in {"serving", "closing", "closed"}
  /\ nstart \in [Execs -> Nat] /\ nstop \in [Execs -> Nat] /\ ndrop \in Nat

\* The halves together are the type invariant, before a step and after it.
LEMMA TypeParts ==
  /\ TypeOK /\ DriversDrive => TaskSetsOK /\ ServerOK /\ ResultsOK /\ BoundsOK
  /\ (TaskSetsOK /\ ServerOK /\ ResultsOK /\ BoundsOK)' => (TypeOK /\ DriversDrive)'
BY DEF TypeOK, TaskSetsOK, ServerOK, ResultsOK, BoundsOK

\* A task that moves keeps the sets of tasks in their types; one that ends
\* has to leave all of them.
LEMMA TaskSetsMove ==
  ASSUME TaskSetsOK, NEW e \in Execs, NEW a \in Awaits, Goto(e, a),
         cancelled' \subseteq cancelled, held' \subseteq held \cup {e},
         drivers' \subseteq drivers \cup {e},
         a = "none" => e \notin cancelled' /\ e \notin held',
         e \in drivers' => a \in Driving
  PROVE  TaskSetsOK'
<1>1. /\ pc' \in [Execs -> Awaits] /\ pc'[e] = a
      /\ \A x \in Execs \ {e} : pc'[x] = pc[x]
  BY DEF TaskSetsOK, Goto
<1>2. \A x \in Execs \ {e} : x \in Running <=> x \in Running'
  BY <1>1 DEF Running
<1>3. a # "none" => e \in Running'
  BY <1>1 DEF Running
<1>4. a = "none" => e \notin cancelled' \cup held' \cup drivers'
  BY DEF Driving
<1>5. cancelled \cup held \cup drivers \subseteq Execs
  BY DEF TaskSetsOK, Running
<1>6. cancelled' \subseteq Running' /\ held' \subseteq Running' /\ drivers' \subseteq Running'
  BY <1>2, <1>3, <1>4, <1>5 DEF TaskSetsOK
<1>7. DriversDrive'
  BY <1>1, <1>5 DEF TaskSetsOK, DriversDrive, Driving
<1> QED BY <1>1, <1>6, <1>7 DEF TaskSetsOK

\* What a written verdict and a recorded one do to the types.
LEMMA WrittenType ==
  ASSUME ResultsOK, NEW e \in Execs, Written(e)
  PROVE  told' \in [Execs -> SUBSET Verdicts]
BY DEF ResultsOK, Written

LEMMA RecordedType ==
  ASSUME ResultsOK, NEW e \in Execs, NEW v \in Verdicts, NEW a, Record(e, v, a)
  PROVE  /\ out' \in [Execs -> Verdicts] /\ recorded' \in SUBSET Execs
         /\ finished' \in Seq(Execs) /\ Goto(e, a)
<1>1. Remember(e) \in Seq(Execs)
  BY RememberType DEF ResultsOK
<1> QED BY <1>1 DEF Record, ResultsOK

\* What a task does from one await to the next keeps the types.
LEMMA ContinueKeepsTypes ==
  ASSUME IInv, NEW e \in Execs, Continue(e)
  PROVE  TypeOK' /\ DriversDrive'
<1> USE DEF At
<1>0. /\ TaskSetsOK /\ ServerOK /\ ResultsOK /\ BoundsOK
      /\ UNCHANGED <<cancelled, linkVars, nstart, nstop>> /\ e \notin cancelled
  BY TypeParts DEF IInv, Continue, Begin, EnsureLocked, Started, StartFails, Ready, NotReady,
     Setup, Run, Reported, Converge, Quit, ReleaseLocked, Stopped
<1>1. BoundsOK'
  BY <1>0 DEF BoundsOK, linkVars
<1>2. "error" \in Verdicts /\ "stopped" \in Verdicts /\ Outcomes \subseteq Verdicts
  BY DEF Verdicts
<1>3. Less \in Nat
  BY <1>0, LessIsLess DEF ServerOK
<1>4. e \in held \/ e \notin held
  OBVIOUS
<1>5. pc[e] \notin Driving => e \notin drivers
  BY DEF IInv, DriversDrive, Driving
<1>6. SUFFICES TaskSetsOK' /\ ServerOK' /\ ResultsOK'
  BY <1>1, TypeParts
<1>7. CASE Begin(e)
  <2>1. CASE e \in Malformed
    <3>1. /\ Record(e, "error", "handler") /\ UNCHANGED <<drivers, told, appiumVars, refVars>>
      BY <1>7, <2>1 DEF Begin, Fail
    <3>2. ResultsOK' /\ Goto(e, "handler")
      BY <1>0, <1>2, <3>1, RecordedType DEF ResultsOK
    <3>3. ServerOK' /\ held' = held
      BY <1>0, <3>1 DEF ServerOK, appiumVars, refVars
    <3>4. TaskSetsOK'
      BY <1>0, <3>1, <3>2, <3>3, TaskSetsMove DEF Awaits, Driving
    <3> QED BY <3>2, <3>3, <3>4
  <2>2. CASE e \notin Malformed
    <3>1. UNCHANGED <<out, recorded, finished, told, drivers>> /\ pc[e] = "created"
      BY <1>7, <2>2 DEF Begin
    <3>2. ResultsOK'
      BY <1>0, <3>1 DEF ResultsOK
    <3>3. CASE Free /\ TakeEnsure(e)
      <4>1. /\ \E a \in {"starting", "ready"} : Goto(e, a)
            /\ lock' \in Execs /\ refs' \in Nat /\ held' \subseteq held \cup {e}
            /\ UNCHANGED <<server, threads, lost, disturbed>>
        BY <1>0, <3>1, <3>3, TakeEnsureStep DEF Free, linkVars
      <4>2. PICK a \in {"starting", "ready"} : Goto(e, a)
        BY <4>1
      <4>3. TaskSetsOK'
        BY <1>0, <1>5, <3>1, <4>1, <4>2, TaskSetsMove DEF Awaits, Driving
      <4> QED BY <1>0, <3>2, <4>1, <4>3 DEF ServerOK
    <3>4. CASE Busy /\ Goto(e, "ensure") /\ UNCHANGED <<appiumVars, refVars>>
      <4>1. TaskSetsOK'
        BY <1>0, <1>5, <3>1, <3>4, TaskSetsMove DEF Awaits, Driving, refVars
      <4> QED BY <1>0, <3>2, <3>4, <4>1 DEF ServerOK, appiumVars, refVars
    <3> QED BY <1>7, <2>2, <3>3, <3>4 DEF Begin
  <2> QED BY <2>1, <2>2
<1>8. CASE EnsureLocked(e)
  <2>1. /\ UNCHANGED <<out, resultVars, drivers>> /\ pc[e] = "ensure" /\ lock = NoOne
        /\ TakeEnsure(e)
    BY <1>8 DEF EnsureLocked
  <2>2. /\ \E a \in {"starting", "ready"} : Goto(e, a)
        /\ lock' \in Execs /\ refs' \in Nat /\ held' \subseteq held \cup {e}
        /\ UNCHANGED <<server, threads, lost, disturbed>>
    BY <1>0, <2>1, TakeEnsureStep DEF linkVars
  <2>3. PICK a \in {"starting", "ready"} : Goto(e, a)
    BY <2>2
  <2>4. TaskSetsOK'
    BY <1>0, <1>5, <2>1, <2>2, <2>3, TaskSetsMove DEF Awaits, Driving
  <2> QED BY <1>0, <2>1, <2>2, <2>4 DEF ServerOK, ResultsOK, resultVars
<1>9. CASE Started(e) \/ Ready(e)
  <2>1. PICK a \in {"ready", "setup"} : Goto(e, a)
    BY <1>9 DEF Started, Ready
  <2>2. /\ held' \subseteq held \cup {e} /\ pc[e] \in {"starting", "ready"}
        /\ UNCHANGED <<out, resultVars, drivers, threads, lost, disturbed>>
        /\ server' \in {server, "up"} /\ lock' \in {lock, NoOne} /\ refs' \in {refs, refs + 1}
    BY <1>9 DEF Started, Ready, refVars
  <2>3. TaskSetsOK'
    BY <1>0, <1>5, <2>1, <2>2, TaskSetsMove DEF Awaits, Driving
  <2> QED BY <1>0, <2>2, <2>3 DEF ServerOK, ResultsOK, resultVars
<1>10. CASE StartFails(e) \/ NotReady(e)
  <2>1. /\ Record(e, "error", "handler") /\ UNCHANGED <<drivers, told, server, threads, lost, disturbed>>
        /\ held' \subseteq held /\ lock' = NoOne /\ refs' \in {refs, Less}
    BY <1>10 DEF StartFails, NotReady, Fail, refVars
  <2>2. ResultsOK' /\ Goto(e, "handler")
    BY <1>0, <1>2, <2>1, RecordedType DEF ResultsOK
  <2>3. TaskSetsOK'
    BY <1>0, <2>1, <2>2, TaskSetsMove DEF Awaits, Driving
  <2> QED BY <1>0, <1>3, <2>1, <2>2, <2>3 DEF ServerOK
<1>11. CASE Setup(e)
  <2>1. /\ UNCHANGED <<appiumVars, told, refVars>> /\ drivers' \subseteq drivers \cup {e}
        /\ \/ Goto(e, "run") /\ UNCHANGED <<out, recorded, finished>>
           \/ Record(e, "error", "handler")
    BY <1>11 DEF Setup, Fail
  <2>2. ResultsOK' /\ \E a \in {"run", "handler"} : Goto(e, a)
    BY <1>0, <1>2, <2>1, RecordedType DEF ResultsOK
  <2>3. PICK a \in {"run", "handler"} : Goto(e, a)
    BY <2>2
  <2>4. TaskSetsOK'
    BY <1>0, <2>1, <2>3, TaskSetsMove DEF Awaits, Driving, refVars
  <2> QED BY <1>0, <2>1, <2>2, <2>4 DEF ServerOK, appiumVars, refVars
<1>12. CASE Run(e) \/ Converge(e)
  <2>1. /\ UNCHANGED <<drivers, appiumVars, told, refVars>>
        /\ \E v \in Verdicts : \E a \in {"report", "handler"} : Record(e, v, a)
    BY <1>2, <1>12 DEF Run, Converge, Fail
  <2>2. PICK v \in Verdicts, a \in {"report", "handler"} : Record(e, v, a)
    BY <2>1
  <2>3. ResultsOK' /\ Goto(e, a)
    BY <1>0, <2>1, <2>2, RecordedType DEF ResultsOK
  <2>4. TaskSetsOK'
    BY <1>0, <2>1, <2>3, TaskSetsMove DEF Awaits, Driving, refVars
  <2> QED BY <1>0, <2>1, <2>3, <2>4 DEF ServerOK, appiumVars, refVars
<1>13. CASE Reported(e)
  <2>1. /\ Leave(e) /\ Written(e) /\ pc[e] \in {"report", "handler"}
        /\ UNCHANGED <<drivers, out, finished, recorded>>
    BY <1>13 DEF Reported
  <2>2. Left(e) /\ (e \in drivers => pc'[e] = "quit")
    BY <1>0, <2>1, LeaveStep DEF linkVars
  <2>3. PICK a \in {"quit", "release", "stopping", "none"} : Goto(e, a)
    BY <2>2 DEF Left
  <2>4. pc'[e] = a
    BY <2>3, Moved DEF Awaits, IInv
  <2>5. TaskSetsOK'
    BY <1>0, <2>1, <2>2, <2>3, <2>4, TaskSetsMove DEF Awaits, Driving, Left
  <2> QED BY <1>0, <2>1, <2>2, <2>5, WrittenType DEF ServerOK, ResultsOK, Left
<1>14. CASE Quit(e)
  <2>1. /\ Release(e) /\ pc[e] = "quit" /\ drivers' = drivers \ {e}
        /\ UNCHANGED <<out, resultVars>>
    BY <1>14 DEF Quit
  <2>2. Left(e)
    BY <1>0, <2>1, ReleaseStep DEF linkVars
  <2>3. PICK a \in {"quit", "release", "stopping", "none"} : Goto(e, a)
    BY <2>2 DEF Left
  <2>4. pc'[e] = a
    BY <2>3, Moved DEF Awaits, IInv
  <2>5. TaskSetsOK'
    BY <1>0, <2>1, <2>2, <2>3, <2>4, TaskSetsMove DEF Awaits, Left
  <2> QED BY <1>0, <2>1, <2>2, <2>5 DEF ServerOK, ResultsOK, resultVars, Left
<1>15. CASE ReleaseLocked(e)
  <2>1. /\ TakeRelease(e) /\ pc[e] = "release" /\ lock = NoOne
        /\ UNCHANGED <<drivers, out, resultVars>>
    BY <1>15 DEF ReleaseLocked
  <2>2. /\ \E a \in {"stopping", "none"} : Goto(e, a)
        /\ lock' \in Execs \cup {NoOne} /\ refs' \in Nat /\ held' = held \ {e}
        /\ disturbed' \in {disturbed, disturbed \cup {"release"}}
        /\ UNCHANGED <<server, threads, lost>>
    BY <1>0, <2>1, TakeReleaseStep DEF linkVars
  <2>3. PICK a \in {"stopping", "none"} : Goto(e, a)
    BY <2>2
  <2>4. TaskSetsOK'
    BY <1>0, <1>5, <2>1, <2>2, <2>3, TaskSetsMove DEF Awaits, Driving
  <2> QED BY <1>0, <2>1, <2>2, <2>4 DEF ServerOK, ResultsOK, resultVars
<1>16. CASE Stopped(e)
  <2>1. /\ Goto(e, "none") /\ pc[e] = "stopping" /\ lock' = NoOne /\ server' = "down"
        /\ UNCHANGED <<drivers, out, refs, threads, resultVars, refVars>>
    BY <1>16 DEF Stopped
  <2>2. e \notin held
    BY <2>1 DEF IInv, RefInv, Holding, WithoutRef
  <2>3. TaskSetsOK'
    BY <1>0, <1>5, <2>1, <2>2, TaskSetsMove DEF Awaits, Driving, refVars
  <2> QED BY <1>0, <2>1, <2>3 DEF ServerOK, ResultsOK, resultVars, refVars
<1> QED
  BY <1>7, <1>8, <1>9, <1>10, <1>11, <1>12, <1>13, <1>14, <1>15, <1>16 DEF Continue

\* A cancelled task that ends has left every set of tasks.
LEMMA CancelKeepsTypes ==
  ASSUME IInv, NEW e \in Execs, Cancel(e)
  PROVE  TypeOK' /\ DriversDrive'
<1> USE DEF Thrown
<1>0. /\ TaskSetsOK /\ ServerOK /\ ResultsOK /\ BoundsOK
      /\ UNCHANGED <<linkVars, nstart, nstop>> /\ cancelled' = cancelled \ {e}
  BY TypeParts DEF IInv, Cancel, CancelCreated, CancelEnsure, CancelRun, CancelReport,
     CancelHandler, CancelCleanup
<1>1. BoundsOK' /\ phase' = phase
  BY <1>0 DEF BoundsOK, linkVars
<1>2. "stopped" \in Verdicts
  BY DEF Verdicts
<1>3. pc[e] \notin Driving => e \notin drivers
  BY DEF IInv, DriversDrive, Driving
<1>4. SUFFICES TaskSetsOK' /\ ServerOK' /\ ResultsOK'
  BY <1>1, TypeParts
<1>5. CASE CancelCreated(e)
  <2>1. /\ Goto(e, "none") /\ pc[e] = "created"
        /\ UNCHANGED <<drivers, out, appiumVars, resultVars, refVars>>
    BY <1>5 DEF CancelCreated
  <2>2. e \notin held
    BY <2>1 DEF IInv, RefInv, Holding, WithoutRef
  <2>3. TaskSetsOK'
    BY <1>0, <1>3, <2>1, <2>2, TaskSetsMove DEF Awaits, Driving, refVars
  <2> QED BY <1>0, <2>1, <2>3 DEF ServerOK, ResultsOK, appiumVars, resultVars, refVars
<1>6. CASE CancelEnsure(e)
  <2>1. /\ Record(e, "stopped", "handler") /\ UNCHANGED <<drivers, refs, server, told, held, lost>>
        /\ lock' \in {lock, NoOne} /\ threads' \in {threads, threads \cup {"start"}}
        /\ disturbed' \in {disturbed, disturbed \cup {"thread"}}
    BY <1>6 DEF CancelEnsure
  <2>2. ResultsOK' /\ Goto(e, "handler")
    BY <1>0, <1>2, <2>1, RecordedType DEF ResultsOK
  <2>3. TaskSetsOK'
    BY <1>0, <2>1, <2>2, TaskSetsMove DEF Awaits, Driving
  <2> QED BY <1>0, <2>1, <2>2, <2>3 DEF ServerOK
<1>7. CASE CancelRun(e)
  <2>1. /\ UNCHANGED <<drivers, appiumVars, told, refVars>>
        /\ \/ Goto(e, "converge") /\ UNCHANGED <<out, recorded, finished>>
           \/ Record(e, "stopped", "handler")
    BY <1>7 DEF CancelRun
  <2>2. ResultsOK' /\ \E a \in {"converge", "handler"} : Goto(e, a)
    BY <1>0, <1>2, <2>1, RecordedType DEF ResultsOK
  <2>3. PICK a \in {"converge", "handler"} : Goto(e, a)
    BY <2>2
  <2>4. TaskSetsOK'
    BY <1>0, <2>1, <2>3, TaskSetsMove DEF Awaits, Driving, refVars
  <2> QED BY <1>0, <2>1, <2>2, <2>4 DEF ServerOK, appiumVars, refVars
<1>8. CASE CancelReport(e)
  <2>1. /\ UNCHANGED <<drivers, appiumVars, refVars>> /\ Record(e, "stopped", "handler")
        /\ Written(e) \/ told' = told
    BY <1>8 DEF CancelReport
  <2>2. told' \in [Execs -> SUBSET Verdicts]
    BY <1>0, <2>1, WrittenType DEF ResultsOK
  <2>3. ResultsOK' /\ Goto(e, "handler")
    BY <1>0, <1>2, <2>1, <2>2, RecordedType DEF ResultsOK
  <2>4. TaskSetsOK'
    BY <1>0, <2>1, <2>3, TaskSetsMove DEF Awaits, Driving, refVars
  <2> QED BY <1>0, <2>1, <2>3, <2>4 DEF ServerOK, appiumVars, refVars
<1>9. CASE CancelHandler(e)
  <2>1. /\ Leave(e) /\ pc[e] \in {"converge", "handler"}
        /\ UNCHANGED <<drivers, out, finished, recorded>>
        /\ Written(e) \/ told' = told
    BY <1>9 DEF CancelHandler
  <2>2. Left(e) /\ (e \in drivers => pc'[e] = "quit")
    BY <1>1, <2>1, LeaveStep
  <2>3. PICK a \in {"quit", "release", "stopping", "none"} : Goto(e, a)
    BY <2>2 DEF Left
  <2>4. pc'[e] = a
    BY <2>3, Moved DEF Awaits, IInv
  <2>5. TaskSetsOK'
    BY <1>0, <2>1, <2>2, <2>3, <2>4, TaskSetsMove DEF Awaits, Driving, Left
  <2>6. told' \in [Execs -> SUBSET Verdicts]
    BY <1>0, <2>1, WrittenType DEF ResultsOK
  <2> QED BY <1>0, <2>1, <2>2, <2>5, <2>6 DEF ServerOK, ResultsOK, Left
<1>10. CASE CancelCleanup(e)
  <2>1. /\ Goto(e, "none") /\ pc[e] \in {"quit", "release", "stopping"}
        /\ drivers' = drivers \ {e} /\ UNCHANGED <<out, refs, server, resultVars>>
        /\ lock' \in {lock, NoOne} /\ threads' \in {threads, threads \cup {"stop"}}
        /\ disturbed' \in {disturbed, disturbed \cup {"thread"}} /\ lost' \in {lost, lost + 1}
        /\ held' = held \ {e} \/ (pc[e] = "stopping" /\ held' = held)
    BY <1>10 DEF CancelCleanup
  <2>2. held' \subseteq held /\ e \notin held'
    BY <2>1 DEF IInv, RefInv, Holding, WithoutRef
  <2>3. TaskSetsOK'
    BY <1>0, <2>1, <2>2, TaskSetsMove DEF Awaits
  <2> QED BY <1>0, <2>1, <2>3 DEF ServerOK, ResultsOK, resultVars
<1> QED BY <1>5, <1>6, <1>7, <1>8, <1>9, <1>10 DEF Cancel

\* The receive loop, the threads, the connection and the end of the agent.
LEMMA OthersKeepTypes ==
  ASSUME IInv,
         \/ \E e \in Execs : Receive(e)
         \/ \E call \in {"start", "stop"} : FinishThread(call)
         \/ Drop \/ Reconnect \/ Crash \/ Exit \/ Closed
  PROVE  TypeOK' /\ DriversDrive'
<1>0. TaskSetsOK /\ ServerOK /\ ResultsOK /\ BoundsOK
  BY TypeParts DEF IInv
<1>1. SUFFICES TaskSetsOK' /\ ServerOK' /\ ResultsOK' /\ BoundsOK'
  BY TypeParts
<1>2. ASSUME NEW e \in Execs, StartTest(e)
      PROVE  TaskSetsOK' /\ ServerOK' /\ ResultsOK' /\ BoundsOK'
  <2>1. /\ Goto(e, "created") /\ pc[e] = "none" /\ nstart' = [nstart EXCEPT ![e] = @ + 1]
        /\ UNCHANGED <<cancelled, drivers, out, appiumVars, resultVars, refVars, linkVars, nstop>>
    BY <1>2 DEF StartTest
  <2>2. e \notin drivers
    BY <2>1 DEF IInv, DriversDrive
  <2>3. TaskSetsOK'
    BY <1>0, <2>1, <2>2, TaskSetsMove DEF Awaits, refVars
  <2> QED BY <1>0, <2>1, <2>3 DEF ServerOK, ResultsOK, BoundsOK, appiumVars, resultVars,
                                  refVars, linkVars
<1>3. ASSUME NEW e \in Execs, RefuseStart(e)
      PROVE  TaskSetsOK' /\ ServerOK' /\ ResultsOK' /\ BoundsOK'
  <2>1. /\ nstart' = [nstart EXCEPT ![e] = @ + 1] /\ recorded' = recorded \cup {e}
        /\ finished' = Remember(e) /\ told' = [told EXCEPT ![e] = @ \cup {"error"}]
        /\ UNCHANGED <<taskVars, appiumVars, refVars, linkVars, nstop>>
    BY <1>3 DEF RefuseStart
  <2>2. Remember(e) \in Seq(Execs)
    BY <1>0, RememberType DEF ResultsOK
  <2>3. ResultsOK'
    BY <1>0, <2>1, <2>2 DEF ResultsOK, taskVars, Verdicts
  <2> QED BY <1>0, <2>1, <2>3 DEF TaskSetsOK, Running, DriversDrive, ServerOK, BoundsOK,
                                  taskVars, appiumVars, refVars, linkVars
<1>4. ASSUME NEW e \in Execs, StopTest(e)
      PROVE  TaskSetsOK' /\ ServerOK' /\ ResultsOK' /\ BoundsOK'
  <2>1. /\ pc[e] # "none" /\ nstop' = [nstop EXCEPT ![e] = @ + 1]
        /\ cancelled' = cancelled \cup {e}
        /\ UNCHANGED <<pc, drivers, out, appiumVars, resultVars, refVars, linkVars, nstart>>
    BY <1>4 DEF StopTest
  <2>2. TaskSetsOK'
    BY <1>0, <2>1 DEF TaskSetsOK, Running, DriversDrive, refVars
  <2> QED BY <1>0, <2>1, <2>2 DEF ServerOK, ResultsOK, BoundsOK, appiumVars, resultVars,
                                  refVars, linkVars
<1>5. CASE Drop \/ Reconnect
  <2>1. /\ UNCHANGED <<taskVars, appiumVars, resultVars, refVars, phase, nstart, nstop>>
        /\ registered' \in BOOLEAN /\ ndrop' \in {ndrop, ndrop + 1}
    BY <1>5 DEF Drop, Reconnect
  <2> QED BY <1>0, <2>1 DEF TaskSetsOK, Running, DriversDrive, ServerOK, ResultsOK, BoundsOK,
                            taskVars, appiumVars, resultVars, refVars
<1>6. CASE Exit
  <2>1. /\ UNCHANGED <<pc, drivers, out, appiumVars, resultVars, refVars, ndrop, nstart, nstop>>
        /\ phase' = "closing" /\ registered' = FALSE /\ cancelled' = cancelled \cup Running
    BY <1>6 DEF Exit
  <2> QED BY <1>0, <2>1 DEF TaskSetsOK, Running, DriversDrive, ServerOK, ResultsOK, BoundsOK,
                            appiumVars, resultVars, refVars
<1>7. ASSUME NEW call \in {"start", "stop"}, FinishThread(call)
      PROVE  TaskSetsOK' /\ ServerOK' /\ ResultsOK' /\ BoundsOK'
  <2>1. /\ UNCHANGED <<taskVars, lock, refs, resultVars, refVars, linkVars, nstart, nstop>>
        /\ threads' \subseteq threads /\ server' \in {server, "up", "down"}
    BY <1>7 DEF FinishThread
  <2> QED BY <1>0, <2>1 DEF TaskSetsOK, Running, DriversDrive, ServerOK, ResultsOK, BoundsOK,
                            taskVars, resultVars, refVars, linkVars
<1>8. CASE Crash \/ Closed
  <2>1. /\ UNCHANGED <<taskVars, lock, refs, threads, resultVars, held, lost, registered,
                       ndrop, nstart, nstop>>
        /\ server' = "down" /\ phase' \in {phase, "closed"}
        /\ disturbed' \in {disturbed, disturbed \cup {"crash"}}
    BY <1>8 DEF Crash, Closed, refVars, linkVars
  <2> QED BY <1>0, <2>1 DEF TaskSetsOK, Running, DriversDrive, ServerOK, ResultsOK, BoundsOK,
                            taskVars, resultVars
<1> QED BY <1>2, <1>3, <1>4, <1>5, <1>6, <1>7, <1>8 DEF Receive

(***************************************************************************)
(* The theorems.                                                           *)
(***************************************************************************)
\* The agent starts with no task, no reference and no server.
LEMMA InitInv == Init => IInv
<1> SUFFICES ASSUME Init PROVE IInv
  OBVIOUS
<1>1. Running = {} /\ \A e \in Execs : pc[e] = "none"
  BY DEF Init, Running
<1>2. TypeOK /\ DriversDrive
  BY <1>1 DEF Init, TypeOK, DriversDrive, Awaits, Verdicts
<1>3. Cardinality({}) = 0
  BY FS_EmptySet
<1>4. RefInv
  BY <1>1, <1>3 DEF Init, RefInv, LockIsHeld, Holding, WithRef, WithoutRef, AtZero, RefsAreBacked,
     Exact, ClosedIsOver, Inside
<1> QED BY <1>2, <1>4 DEF IInv

\* The invariant is inductive.
LEMMA StepInv == IInv /\ [Next]_vars => IInv'
<1> SUFFICES ASSUME IInv, [Next]_vars PROVE IInv'
  OBVIOUS
<1>1. CASE UNCHANGED vars
  <2>1. UNCHANGED <<pc, cancelled, drivers, out, lock, refs, server, threads, finished, recorded,
                    told, held, lost, disturbed, registered, phase, ndrop, nstart, nstop>>
    BY <1>1 DEF vars, taskVars, appiumVars, resultVars, refVars, linkVars
  <2>2. TypeOK' /\ DriversDrive'
    BY <2>1 DEF IInv, TypeOK, DriversDrive, Running
  <2>3. RefInv'
    BY <2>1, QuietStep DEF appiumVars, refVars
  <2> QED BY <2>2, <2>3 DEF IInv
<1>2. ASSUME NEW e \in Execs, Continue(e) PROVE IInv'
  BY <1>2, ContinueKeepsRefs, ContinueKeepsTypes DEF IInv
<1>3. ASSUME NEW e \in Execs, Cancel(e) PROVE IInv'
  BY <1>3, CancelKeepsRefs, CancelKeepsTypes DEF IInv
<1>4. CASE \/ \E e \in Execs : Receive(e)
           \/ \E call \in {"start", "stop"} : FinishThread(call)
           \/ Drop \/ Reconnect \/ Crash \/ Exit \/ Closed
  BY <1>4, OthersKeepRefs, OthersKeepTypes DEF IInv
<1> QED BY <1>1, <1>2, <1>3, <1>4 DEF Next

\* It holds in every reachable state.
LEMMA Inductive == Spec => []IInv
BY InitInv, StepInv, PTL DEF Spec

\* The tasks, the memory, the counters and the history keep their types: a
\* task that has ended owes no reference and has no driver and no
\* cancellation pending.
THEOREM TasksTyped == Spec => []TypeOK
<1>1. IInv => TypeOK
  BY DEF IInv
<1> QED BY <1>1, Inductive, PTL

\* However many executions run, fail, and are cancelled in whatever await,
\* _appium_lock is held exactly while a task is inside.
THEOREM LockIsExclusive == Spec => []LockIsHeld
<1>1. IInv => LockIsHeld
  BY DEF IInv, RefInv
<1> QED BY <1>1, Inductive, PTL

\* _appium_refs never counts more than the references that tasks owe and
\* those that cancelled finally clauses have lost.
THEOREM ReferencesAreBacked == Spec => []RefsAreBacked
<1>1. IInv => RefsAreBacked
  BY DEF IInv, RefInv
<1> QED BY <1>1, Inductive, PTL

\* Unless a release without a reference, an outliving thread or a crash
\* interferes, the server runs under every execution that uses it: the count
\* is exact, and a task that uses the server is one of those counted.
THEOREM RunsKeepServer == Spec => []ServerServesRuns
<1>1. IInv => ServerServesRuns
  <2> SUFFICES ASSUME IInv, disturbed = {}, NEW e \in Execs, pc[e] \in Using
               PROVE  server = "up"
    BY DEF ServerServesRuns
  <2>1. e \in held /\ phase # "closed"
    BY DEF IInv, RefInv, Holding, WithRef, Using, ClosedIsOver, Running
  <2>2. Cardinality(held) >= 1 /\ Cardinality(held) \in Nat /\ lost \in Nat
    BY <2>1, HeldCounts, HeldIsFinite DEF IInv, TypeOK
  <2>3. refs > 0
    BY <2>2 DEF IInv, RefInv, Exact
  <2> QED BY <2>1, <2>3 DEF IInv, RefInv, Exact
<1> QED BY <1>1, Inductive, PTL

(***************************************************************************)
(* What the agent remembers and what it has told.  Both theorems are about *)
(* an agent that forgets none of its executions: the memory is bounded,    *)
(* and a forgotten execution could indeed run and report again.            *)
(***************************************************************************)
MemorySuffices == Cardinality(Execs) <= Memory

\* Awaits before the verdict is recorded, and those of the finally clause.
Unrecorded == {"created", "ensure", "starting", "ready", "setup", "run", "converge"}
Leaving    == {"quit", "release", "stopping", "none"}

\* The memory is the set of recorded executions, each in it once.
Remembered == IsInjective(finished) /\ recorded = Range(finished)

ToldInv ==
  \A e \in Execs :
    /\ e \notin recorded => told[e] = {}
    /\ pc[e] \in Unrecorded => e \notin recorded
    /\ pc[e] \in {"report", "handler"} => e \in recorded
    /\ pc[e] = "report" => told[e] = {}
    /\ pc[e] = "handler" => out[e] = "stopped" \/ told[e] = {}
    /\ e \in Incompatible => pc[e] = "none" /\ told[e] \subseteq {"error"}
    /\ \E v \in Verdicts : told[e] \subseteq {v, "stopped"}

MemInv == Remembered /\ ToldInv

\* An execution that is not in the memory finds room there.
LEMMA RoomToRemember ==
  ASSUME MemorySuffices, finished \in Seq(Execs), IsInjective(finished),
         NEW e \in Execs, e \notin Range(finished)
  PROVE  Len(finished) < Memory
<1>1. IsFiniteSet(Execs \ {e}) /\ Cardinality(Execs \ {e}) = Cardinality(Execs) - 1
  BY FS_RemoveElement
<1>2. finished \in Injection(1 .. Len(finished), Execs \ {e})
  BY DEF Injection, IsInjective, Range
<1>3. Cardinality(1 .. Len(finished)) <= Cardinality(Execs \ {e})
  BY <1>1, <1>2, FS_Injection
<1>4. Cardinality(1 .. Len(finished)) = Len(finished)
  BY FS_Interval
<1>5. Cardinality(Execs) \in Nat /\ Len(finished) \in Nat
  BY FS_CardinalityType
<1> QED BY <1>1, <1>3, <1>4, <1>5 DEF MemorySuffices

\* Remembering an execution adds it and forgets none.
LEMMA RememberAdds ==
  ASSUME MemorySuffices, finished \in Seq(Execs), IsInjective(finished), NEW e \in Execs
  PROVE  /\ IsInjective(Remember(e))
         /\ Range(Remember(e)) = Range(finished) \cup {e}
<1>1. CASE e \in Range(finished)
  BY <1>1 DEF Remember
<1>2. CASE e \notin Range(finished)
  <2>1. Remember(e) = Append(finished, e)
    BY <1>2, RoomToRemember DEF Remember
  <2>2. /\ Append(finished, e) \in Seq(Execs)
        /\ Len(Append(finished, e)) = Len(finished) + 1
        /\ Append(finished, e)[Len(finished) + 1] = e
        /\ \A i \in 1 .. Len(finished) : Append(finished, e)[i] = finished[i]
    OBVIOUS
  <2>3. IsInjective(Append(finished, e))
    BY <1>2, <2>2 DEF IsInjective, Range
  <2>4. Range(Append(finished, e)) = Range(finished) \cup {e}
    BY <2>2 DEF Range
  <2> QED BY <2>1, <2>3, <2>4
<1> QED BY <1>1, <1>2

\* What the steps do to the verdicts: begin a run, go on, record a verdict,
\* replace one whose send was cancelled, tell it, refuse to run at all.
Same      == UNCHANGED <<pc, out, resultVars>>
Starts(e) == /\ pc[e] = "none" /\ e \notin Incompatible /\ e \notin Range(finished)
             /\ Goto(e, "created") /\ UNCHANGED <<out, resultVars>>
Moves(e)  == /\ pc[e] # "none"
             /\ \/ \E a \in Leaving : Goto(e, a)
                \/ pc[e] \in Unrecorded /\ \E a \in Unrecorded : Goto(e, a)
             /\ UNCHANGED <<out, resultVars>>
Records(e) == /\ pc[e] \in Unrecorded
              /\ \E v \in Verdicts, a \in {"report", "handler"} : Record(e, v, a)
              /\ told' = told
TellsNow(e) == told' = [told EXCEPT ![e] = @ \cup {out[e]}]
Overrules(e) == /\ pc[e] = "report" /\ Record(e, "stopped", "handler")
                /\ told' = told \/ TellsNow(e)
Tells(e)   == /\ pc[e] \in {"report", "handler"} /\ TellsNow(e)
              /\ \E a \in Leaving : Goto(e, a)
              /\ UNCHANGED <<out, recorded, finished>>

VerdictMove ==
  \/ Same
  \/ \E e \in Execs : \/ Starts(e) \/ Moves(e) \/ Records(e) \/ Overrules(e) \/ Tells(e)
                      \/ RefuseStart(e)

\* The finally clause goes on to an await of its own, or ends.
LEMMA LeaveLeaves ==
  ASSUME NEW e \in Execs, Leave(e) \/ Release(e) \/ TakeRelease(e)
  PROVE  \E a \in Leaving : Goto(e, a)
<1>1. TakeRelease(e) => \E a \in Leaving : Goto(e, a)
  BY DEF TakeRelease, Leaving
<1>2. Release(e) => \E a \in Leaving : Goto(e, a)
  BY <1>1 DEF Release, Leaving
<1> QED BY <1>1, <1>2 DEF Leave, Leaving

\* Every step of a task is one of them.
LEMMA ContinueMoves ==
  ASSUME NEW e \in Execs, Continue(e)
  PROVE  VerdictMove
<1>s. SUFFICES Moves(e) \/ Records(e) \/ Tells(e)
  BY DEF VerdictMove
<1>v. "error" \in Verdicts /\ "stopped" \in Verdicts /\ Outcomes \subseteq Verdicts
  BY DEF Verdicts
<1>t. ASSUME TakeEnsure(e) PROVE \E a \in Unrecorded : Goto(e, a)
  BY <1>t DEF TakeEnsure, Unrecorded
<1>1. CASE Begin(e)
  <2>1. pc[e] \in Unrecorded /\ pc[e] # "none" /\ told' = told
    BY <1>1 DEF Begin, At, Unrecorded
  <2>2. \/ Fail(e)
        \/ (\E a \in Unrecorded : Goto(e, a)) /\ UNCHANGED <<out, recorded, finished>>
    BY <1>1, <1>t DEF Begin, Unrecorded
  <2> QED BY <1>v, <2>1, <2>2 DEF Fail, Records, Moves, resultVars
<1>2. CASE EnsureLocked(e)
  BY <1>2, <1>t DEF EnsureLocked, At, Moves, Unrecorded
<1>3. CASE Started(e) \/ Ready(e)
  BY <1>3 DEF Started, Ready, At, Moves, Unrecorded
<1>4. CASE StartFails(e) \/ NotReady(e)
  BY <1>4, <1>v DEF StartFails, NotReady, At, Fail, Records, Unrecorded
<1>5. CASE Setup(e)
  BY <1>5, <1>v DEF Setup, At, Fail, Records, Moves, Unrecorded, resultVars
<1>6. CASE Run(e)
  BY <1>6, <1>v DEF Run, At, Fail, Records, Unrecorded
<1>7. CASE Reported(e)
  BY <1>7, LeaveLeaves DEF Reported, At, Written, Tells, TellsNow
<1>8. CASE Converge(e)
  BY <1>8, <1>v DEF Converge, At, Records, Unrecorded
<1>9. CASE Quit(e) \/ ReleaseLocked(e)
  BY <1>9, LeaveLeaves DEF Quit, ReleaseLocked, At, Moves
<1>10. CASE Stopped(e)
  BY <1>10 DEF Stopped, At, Moves, Leaving
<1> QED BY <1>1, <1>2, <1>3, <1>4, <1>5, <1>6, <1>7, <1>8, <1>9, <1>10 DEF Continue

\* So is every cancellation.
LEMMA CancelMoves ==
  ASSUME NEW e \in Execs, Cancel(e)
  PROVE  VerdictMove
<1>s. SUFFICES Moves(e) \/ Records(e) \/ Overrules(e) \/ Tells(e)
  BY DEF VerdictMove
<1>v. "stopped" \in Verdicts
  BY DEF Verdicts
<1>1. CASE CancelCreated(e)
  BY <1>1 DEF CancelCreated, Thrown, Moves, Leaving
<1>2. CASE CancelEnsure(e)
  BY <1>2, <1>v DEF CancelEnsure, Thrown, Records, Unrecorded
<1>3. CASE CancelRun(e)
  BY <1>3, <1>v DEF CancelRun, Thrown, Using, Records, Moves, Unrecorded, resultVars
<1>4. CASE CancelReport(e)
  BY <1>4 DEF CancelReport, Thrown, Written, Overrules, TellsNow
<1>5. CASE CancelHandler(e)
  <2>1. (\E a \in Leaving : Goto(e, a)) /\ UNCHANGED <<out, recorded, finished>>
    BY <1>5, LeaveLeaves DEF CancelHandler
  <2>2. told' = told \/ (pc[e] = "handler" /\ TellsNow(e))
    BY <1>5 DEF CancelHandler, Written, TellsNow
  <2>3. pc[e] # "none"
    BY <1>5 DEF CancelHandler, Thrown
  <2> QED BY <2>1, <2>2, <2>3 DEF Moves, Tells, resultVars
<1>6. CASE CancelCleanup(e)
  BY <1>6 DEF CancelCleanup, Thrown, Moves, Leaving
<1> QED BY <1>1, <1>2, <1>3, <1>4, <1>5, <1>6 DEF Cancel

\* And everything else.
LEMMA NextMoves == [Next]_vars => VerdictMove
<1> SUFFICES ASSUME [Next]_vars PROVE VerdictMove
  OBVIOUS
<1>1. CASE \/ UNCHANGED vars
           \/ \E call \in {"start", "stop"} : FinishThread(call)
           \/ Drop \/ Reconnect \/ Crash \/ Exit \/ Closed
  <2>1. Same
    BY <1>1 DEF vars, FinishThread, Drop, Reconnect, Crash, Exit, Closed, taskVars, Same
  <2> QED BY <2>1 DEF VerdictMove
<1>2. ASSUME NEW e \in Execs, Receive(e) PROVE VerdictMove
  <2>1. StartTest(e) => Starts(e)
    BY DEF StartTest, Starts
  <2>2. StopTest(e) => Same
    BY DEF StopTest, Same
  <2> QED BY <1>2, <2>1, <2>2 DEF Receive, VerdictMove
<1> QED BY <1>1, <1>2, ContinueMoves, CancelMoves DEF Next

\* The memory grows with what is recorded, and is never anything else.
LEMMA RememberedStep ==
  ASSUME MemorySuffices, IInv, Remembered, VerdictMove
  PROVE  Remembered'
<1>0. finished \in Seq(Execs)
  BY DEF IInv, TypeOK
<1>1. CASE UNCHANGED <<recorded, finished>>
  BY <1>1 DEF Remembered
<1>2. ASSUME NEW e \in Execs, recorded' = recorded \cup {e}, finished' = Remember(e)
      PROVE  Remembered'
  BY <1>0, <1>2, RememberAdds DEF Remembered
<1>3. \/ UNCHANGED <<recorded, finished>>
      \/ \E e \in Execs : recorded' = recorded \cup {e} /\ finished' = Remember(e)
  BY DEF VerdictMove, Same, Starts, Moves, Records, Overrules, Tells, RefuseStart, Record,
         resultVars
<1> QED BY <1>1, <1>2, <1>3

\* Nothing is told of an execution but what its run recorded.
LEMMA ToldStep ==
  ASSUME IInv, Remembered, ToldInv, VerdictMove
  PROVE  ToldInv'
<1>0. /\ pc \in [Execs -> Awaits] /\ out \in [Execs -> Verdicts]
      /\ recorded \subseteq Execs /\ told \in [Execs -> SUBSET Verdicts]
      /\ recorded = Range(finished)
  BY DEF IInv, TypeOK, Remembered
<1> DEFINE Inv(e) == /\ e \notin recorded => told[e] = {}
                     /\ pc[e] \in Unrecorded => e \notin recorded
                     /\ pc[e] \in {"report", "handler"} => e \in recorded
                     /\ pc[e] = "report" => told[e] = {}
                     /\ pc[e] = "handler" => out[e] = "stopped" \/ told[e] = {}
                     /\ e \in Incompatible => pc[e] = "none" /\ told[e] \subseteq {"error"}
                     /\ \E v \in Verdicts : told[e] \subseteq {v, "stopped"}
           Inv1(e) == /\ e \notin recorded' => told'[e] = {}
                      /\ pc'[e] \in Unrecorded => e \notin recorded'
                      /\ pc'[e] \in {"report", "handler"} => e \in recorded'
                      /\ pc'[e] = "report" => told'[e] = {}
                      /\ pc'[e] = "handler" => out'[e] = "stopped" \/ told'[e] = {}
                      /\ e \in Incompatible => pc'[e] = "none" /\ told'[e] \subseteq {"error"}
                      /\ \E v \in Verdicts : told'[e] \subseteq {v, "stopped"}
<1>i. \A e \in Execs : Inv(e)
  BY DEF ToldInv
<1>s. SUFFICES ASSUME NEW f \in Execs PROVE Inv1(f)
  BY DEF ToldInv
<1>k. ASSUME pc'[f] = pc[f], out'[f] = out[f], told'[f] = told[f],
             f \in recorded' <=> f \in recorded
      PROVE  Inv1(f)
  BY <1>i, <1>k
<1>1. CASE Same
  BY <1>1, <1>k DEF Same, resultVars
<1>2. ASSUME NEW e \in Execs, Starts(e) PROVE Inv1(f)
  <2>1. /\ pc' = [pc EXCEPT ![e] = "created"] /\ e \notin Incompatible /\ e \notin recorded
        /\ UNCHANGED <<out, told, recorded>>
    BY <1>0, <1>2 DEF Starts, Goto, resultVars
  <2>2. CASE f # e
    BY <1>0, <1>k, <2>1, <2>2
  <2>3. CASE f = e
    BY <1>0, <1>i, <2>1, <2>3
  <2> QED BY <2>2, <2>3
<1>3. ASSUME NEW e \in Execs, Moves(e) PROVE Inv1(f)
  <2>1. PICK a \in Leaving \cup Unrecorded : /\ pc' = [pc EXCEPT ![e] = a]
                                             /\ a \in Unrecorded => pc[e] \in Unrecorded
    BY <1>3 DEF Moves, Goto, Leaving, Unrecorded
  <2>2. UNCHANGED <<out, told, recorded>> /\ pc[e] # "none"
    BY <1>3 DEF Moves, resultVars
  <2>3. CASE f # e
    BY <1>0, <1>k, <2>1, <2>2, <2>3
  <2>4. CASE f = e
    <3>1. pc'[f] = a /\ a \notin {"report", "handler"}
      BY <1>0, <2>1, <2>4 DEF Leaving, Unrecorded
    <3> QED BY <1>i, <2>1, <2>2, <2>4, <3>1
  <2> QED BY <2>3, <2>4
<1>4. ASSUME NEW e \in Execs, Records(e) PROVE Inv1(f)
  <2>1. PICK v \in Verdicts, a \in {"report", "handler"} :
          /\ pc' = [pc EXCEPT ![e] = a] /\ out' = [out EXCEPT ![e] = v]
          /\ recorded' = recorded \cup {e}
    BY <1>4 DEF Records, Record, Goto
  <2>2. told' = told /\ pc[e] \in Unrecorded
    BY <1>4 DEF Records
  <2>3. CASE f # e
    BY <1>0, <1>k, <2>1, <2>2, <2>3
  <2>4. CASE f = e
    <3>1. pc'[f] = a /\ a \notin Unrecorded /\ f \in recorded'
      BY <1>0, <2>1, <2>4 DEF Unrecorded
    <3>2. told'[f] = {} /\ f \notin Incompatible
      BY <1>i, <2>2, <2>4 DEF Unrecorded
    <3> QED BY <3>1, <3>2
  <2> QED BY <2>3, <2>4
<1>5. ASSUME NEW e \in Execs, Overrules(e) PROVE Inv1(f)
  <2>1. /\ pc' = [pc EXCEPT ![e] = "handler"] /\ out' = [out EXCEPT ![e] = "stopped"]
        /\ recorded' = recorded \cup {e} /\ pc[e] = "report"
        /\ told' = told \/ told' = [told EXCEPT ![e] = @ \cup {out[e]}]
    BY <1>5 DEF Overrules, Record, Goto, TellsNow
  <2>2. CASE f # e
    BY <1>0, <1>k, <2>1, <2>2
  <2>3. CASE f = e
    <3>1. pc'[f] = "handler" /\ out'[f] = "stopped" /\ f \in recorded'
      BY <1>0, <2>1, <2>3
    <3>2. told[f] = {} /\ f \notin Incompatible
      BY <1>i, <2>1, <2>3
    <3>3. told'[f] \subseteq {out[f], "stopped"} /\ out[f] \in Verdicts
      BY <1>0, <2>1, <2>3, <3>2
    <3> QED BY <3>1, <3>2, <3>3 DEF Unrecorded
  <2> QED BY <2>2, <2>3
<1>6. ASSUME NEW e \in Execs, Tells(e) PROVE Inv1(f)
  <2>1. PICK a \in Leaving : pc' = [pc EXCEPT ![e] = a]
    BY <1>6 DEF Tells, Goto
  <2>2. /\ told' = [told EXCEPT ![e] = @ \cup {out[e]}] /\ UNCHANGED <<out, recorded>>
        /\ pc[e] \in {"report", "handler"}
    BY <1>6 DEF Tells, TellsNow
  <2>3. CASE f # e
    BY <1>0, <1>k, <2>1, <2>2, <2>3
  <2>4. CASE f = e
    <3>1. pc'[f] \in Leaving /\ told'[f] = told[f] \cup {out[f]} /\ out[f] \in Verdicts
      BY <1>0, <2>1, <2>2, <2>4
    <3>2. f \notin Incompatible
      BY <1>i, <2>2, <2>4
    <3>3. \E v \in Verdicts : told'[f] \subseteq {v, "stopped"}
      <4>1. CASE told[f] = {}
        BY <3>1, <4>1
      <4>2. CASE out[f] = "stopped"
        BY <1>i, <3>1, <4>2
      <4> QED BY <1>i, <2>2, <2>4, <4>1, <4>2
    <3>4. f \in recorded'
      BY <1>i, <2>2, <2>4
    <3> QED BY <3>1, <3>2, <3>3, <3>4 DEF Leaving, Unrecorded
  <2> QED BY <2>3, <2>4
<1>7. ASSUME NEW e \in Execs, RefuseStart(e) PROVE Inv1(f)
  <2>1. /\ e \in Incompatible /\ recorded' = recorded \cup {e} /\ UNCHANGED <<pc, out>>
        /\ told' = [told EXCEPT ![e] = @ \cup {"error"}]
    BY <1>7 DEF RefuseStart, taskVars
  <2>2. CASE f # e
    BY <1>0, <1>k, <2>1, <2>2
  <2>3. CASE f = e
    <3>1. told[f] \subseteq {"error"} /\ pc[f] = "none"
      BY <1>i, <2>1, <2>3
    <3>2. told'[f] \subseteq {"error"} /\ pc'[f] = "none" /\ f \in recorded'
      BY <1>0, <2>1, <2>3, <3>1
    <3> QED BY <3>2 DEF Verdicts, Unrecorded
  <2> QED BY <2>2, <2>3
<1> QED BY <1>1, <1>2, <1>3, <1>4, <1>5, <1>6, <1>7 DEF VerdictMove

\* Both parts of the invariant hold in every reachable state.
LEMMA MemoryInductive ==
  ASSUME MemorySuffices
  PROVE  Spec => [](IInv /\ MemInv)
<1>1. Init => MemInv
  <2> SUFFICES ASSUME Init PROVE MemInv
    OBVIOUS
  <2>1. Range(finished) = {} /\ IsInjective(finished)
    BY DEF Init, Range, IsInjective
  <2> QED BY <2>1 DEF Init, MemInv, Remembered, ToldInv, Unrecorded, Verdicts
<1>2. IInv /\ MemInv /\ [Next]_vars => MemInv'
  BY NextMoves, RememberedStep, ToldStep DEF MemInv
<1> QED BY <1>1, <1>2, InitInv, StepInv, PTL DEF Spec

\* While the agent's memory is large enough for all its executions, the
\* server is told one verdict of each, whatever is sent again, lost or
\* cancelled; only a stop may come after it.
THEOREM OneOutcomeTold ==
  ASSUME MemorySuffices
  PROVE  Spec => []OneOutcome
<1>1. IInv /\ MemInv => OneOutcome
  <2> SUFFICES ASSUME ToldInv, NEW e \in Execs
               PROVE  Cardinality(told[e] \ {"stopped"}) <= 1
    BY DEF MemInv, OneOutcome
  <2>1. PICK v \in Verdicts : told[e] \subseteq {v, "stopped"}
    BY DEF ToldInv
  <2>2. told[e] \ {"stopped"} \subseteq {v}
    BY <2>1
  <2>3. IsFiniteSet({v}) /\ Cardinality({v}) = 1
    BY FS_Singleton
  <2> QED BY <2>2, <2>3, FS_Subset
<1> QED BY <1>1, MemoryInductive, PTL

\* Under the same condition an execution whose verdict was recorded is never
\* run again, however often its start_test arrives and whatever came between.
THEOREM RecordedNeverRuns ==
  ASSUME MemorySuffices
  PROVE  Spec => NeverRunAgain
<1>1. IInv /\ MemInv /\ [Next]_vars
        => [\A e \in recorded : pc[e] = "none" => pc'[e] = "none"]_vars
  <2> SUFFICES ASSUME IInv, Remembered, VerdictMove, NEW e \in recorded, pc[e] = "none"
               PROVE  pc'[e] = "none"
    BY NextMoves DEF MemInv
  <2>1. e \in Range(finished) /\ e \in Execs /\ pc \in [Execs -> Awaits]
    BY DEF Remembered, IInv, TypeOK
  <2>2. CASE Same
    BY <2>2 DEF Same
  <2>3. ASSUME NEW f \in Execs, Starts(f) PROVE pc'[e] = "none"
    BY <2>1, <2>3 DEF Starts, Goto
  <2>4. ASSUME NEW f \in Execs, Moves(f) \/ Records(f) \/ Overrules(f) \/ Tells(f)
        PROVE  pc'[e] = "none"
    <3>1. f # e
      BY <2>4 DEF Moves, Records, Overrules, Tells, Unrecorded
    <3>2. \E a : Goto(f, a)
      BY <2>4 DEF Moves, Records, Overrules, Tells, Record
    <3> QED BY <2>1, <3>1, <3>2 DEF Goto
  <2>5. ASSUME NEW f \in Execs, RefuseStart(f) PROVE pc'[e] = "none"
    BY <2>5 DEF RefuseStart, taskVars
  <2> QED BY <2>2, <2>3, <2>4, <2>5 DEF VerdictMove
<1> QED BY <1>1, MemoryInductive, PTL DEF Spec, NeverRunAgain

=============================================================================
