------------------------- MODULE MCAgentExecutions -------------------------
(* Small instances of AgentExecutions for TLC.                              *)
EXTENDS AgentExecutions, TLC

\* Executions whose start_test is as it should be are interchangeable.
Interchangeable == Permutations(Execs \ (Incompatible \cup Malformed))

=============================================================================
