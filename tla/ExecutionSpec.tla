---------------------------- MODULE ExecutionSpec ----------------------------
(***************************************************************************)
(* What the scheduler promises, without its rows, sessions and tasks: an   *)
(* execution waits, holds its device while it is active, may go back to    *)
(* waiting only by giving the device back, and is settled once and for     *)
(* all.  A verdict may come before the settlement; the device of an        *)
(* execution that has one may already be given away.                       *)
(***************************************************************************)
EXTENDS Naturals

CONSTANTS Execs, Devices, DeviceOf
NoExec == 0

VARIABLES phase,   \* [Execs -> {"waiting", "active", "ended", "settled"}]
          holder   \* [Devices -> Execs \cup {NoExec}]

Init == /\ phase  = [e \in Execs |-> "waiting"]
        /\ holder = [d \in Devices |-> NoExec]

\* The device is taken by an execution that waits for it.
Take(e) ==
  /\ phase[e] = "waiting" /\ holder[DeviceOf[e]] = NoExec
  /\ phase'  = [phase EXCEPT ![e] = "active"]
  /\ holder' = [holder EXCEPT ![DeviceOf[e]] = e]

\* The execution goes back to the queue and the device is free again.
GiveBack(e) ==
  /\ phase[e] = "active" /\ holder[DeviceOf[e]] = e
  /\ phase'  = [phase EXCEPT ![e] = "waiting"]
  /\ holder' = [holder EXCEPT ![DeviceOf[e]] = NoExec]

\* The verdict is known, the settlement is yet to come.
End(e) ==
  /\ phase[e] = "active"
  /\ phase' = [phase EXCEPT ![e] = "ended"]
  /\ UNCHANGED holder

\* Executions are settled, for ever, and hold nothing; devices whose holder
\* has its verdict may be freed with them or before.
Settle(S, D) ==
  /\ \A e \in S : phase[e] # "settled"
  /\ \A d \in D : holder[d] \in Execs /\ phase[holder[d]] = "ended"
  /\ phase'  = [e \in Execs |-> IF e \in S THEN "settled" ELSE phase[e]]
  /\ holder' = [d \in Devices |-> IF holder[d] \in S \/ d \in D THEN NoExec ELSE holder[d]]

Next ==
  \/ \E e \in Execs : Take(e) \/ GiveBack(e) \/ End(e)
  \/ \E S \in SUBSET Execs, D \in SUBSET Devices : Settle(S, D)

Spec == Init /\ [][Next]_<<phase, holder>>
=============================================================================
