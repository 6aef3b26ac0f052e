---------------------------- MODULE MCResultRows ----------------------------
EXTENDS ResultRows
CONSTANTS suite, case, hook, node, step
OneCase == [c \in {case} |-> suite]
Tree == [l \in {hook, node, step} |-> IF l = hook THEN suite ELSE case]
=============================================================================
