---------------------------- MODULE MCWorkerPool ----------------------------
(* Small instances of WorkerPool for TLC.                                  *)
EXTENDS WorkerPool

\* The first and the third execution want the same device.
TwoDevices == [e \in Execs |-> IF e = 2 THEN "d2" ELSE "d1"]

=============================================================================
