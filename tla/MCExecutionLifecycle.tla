------------------------ MODULE MCExecutionLifecycle ------------------------
(* Small instances of ExecutionLifecycle for TLC.                           *)
EXTENDS ExecutionLifecycle

\* Two executions that want the same device.
OneDevice == [e \in Execs |-> "d1"]
OneAgent  == [d \in Devices |-> "a1"]

\* A merge meets no blocking child, or some: stopped, failed, in error.
SomeChildren == {{}, {"stopped"}, {"failed"}, {"failed", "error"}}
NoChildren   == {{}}

=============================================================================
