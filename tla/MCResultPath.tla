---------------------------- MODULE MCResultPath ----------------------------
(***************************************************************************)
(* An instance of ResultPath: a suite with an assertion as its setup and a *)
(* case of one action, and a suite with only a setup action.  The case     *)
(* also has a step with an assertion, which the runner leaves alone.       *)
(***************************************************************************)
EXTENDS ResultPath
CONSTANTS suite, suite2, case, hook, hook2, node, step

OneCase == [c \in {case} |-> suite]
Tree    == [l \in {hook, hook2, node, step} |->
              IF l = hook THEN suite ELSE IF l = hook2 THEN suite2 ELSE case]
Order   == <<suite, suite2>>
InSuite == [u \in {suite, suite2} |-> IF u = suite THEN <<case>> ELSE <<>>]
Before  == [r \in {suite, suite2, case} |->
              IF r = suite THEN <<hook>> ELSE IF r = suite2 THEN <<hook2>> ELSE <<>>]
Main    == [c \in {case} |-> <<node>>]
After   == [r \in {suite, suite2, case} |-> <<>>]
=============================================================================
