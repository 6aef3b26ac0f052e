-------------------------- MODULE MCProfiledIntake --------------------------
(* A small project for TLC: suites s1, s2 and the deleted s3, the live     *)
(* cases a and b, the deleted case c, and the variables x, y and t.        *)
EXTENDS ProfiledIntake

AllRequestOrders == Permutations(Requests)

Node(key, kind, phase, uses, sets) ==
  [key |-> key, kind |-> kind, phase |-> phase, uses |-> uses, finds |-> {}, sets |-> sets]
Finding(node, names) == [node EXCEPT !.finds = names]
Hook(key, phase, own, uses, sets) ==
  [key |-> key, kind |-> "action", phase |-> phase, own |-> own, uses |-> uses,
   finds |-> {}, sets |-> sets]
Member(id, case, overrides) == [id |-> id, case |-> case, overrides |-> overrides]

\* Case a reads t off the screen and uses it.  Case b begins with an assertion,
\* which looks for an element by the name w that only the next node sets.
Reader == Node("a1", "action", "main", {}, {"t"})
FlowA == <<Node("a4", "action", "teardown", {}, {}),
           Node("a0", "action", "setup", {"x"}, {}),
           Reader,
           Finding(Node("a2", "assertion", "main", {"t", "x"}, {}), {"t"}),
           Node("a3", "action", "main", {}, {})>>
Setter == Node("b2", "action", "main", {"y"}, {"w"})
FlowB == <<Finding(Node("b1", "assertion", "main", {}, {}), {"w"}),
           Setter,
           Node("b3", "assertion", "main", {"y"}, {})>>
Base == [suites  |-> <<"s1", "s2">>,
         hooks   |-> [s1 |-> <<Hook("h1", "setup", "main", {"x"}, {"t"}),
                               Hook("h2", "setup", "setup", {}, {}),
                               Hook("h3", "teardown", "main", {"t"}, {})>>,
                      s2 |-> <<Hook("g1", "setup", "main", {"y"}, {}),
                               Hook("g2", "teardown", "main", {}, {"y"})>>,
                      s3 |-> <<>>],
         members |-> [s1 |-> <<Member("m1", "a", {}), Member("m2", "b", {}),
                               Member("m3", "a", {"x"})>>,
                      s2 |-> <<Member("m4", "b", {}), Member("m5", "c", {})>>,
                      s3 |-> <<Member("m6", "a", {})>>],
         flow    |-> [a |-> FlowA, b |-> FlowB]]

MCLayoutOf ==
  [base     |-> Base,
   noReader |-> [Base EXCEPT !.flow.a = SelectSeq(FlowA, LAMBDA n : n # Reader)],
   moved    |-> [Base EXCEPT !.members.s1 = <<Member("m3", "a", {"x"}), Member("m1", "a", {})>>,
                             !.flow.b = SelectSeq(FlowB, LAMBDA n : n # Setter)]]

Defined == [global |-> {"x", "y"}, project |-> {"x"},
            suite |-> [s1 |-> {"y"}, s2 |-> {}, s3 |-> {}],
            case |-> [a |-> {"x"}, b |-> {"y"}, c |-> {}]]
MCVarsOf ==
  [base     |-> Defined,
   noReader |-> [Defined EXCEPT !.project = {"t"}],
   moved    |-> [Defined EXCEPT !.global = {}, !.suite.s1 = {"x", "y"}]]

NoRules == [suites |-> {}, members |-> {}, nodes |-> {}, hooks |-> {},
            pinned |-> [m \in {"m1", "m2", "m3", "m4", "m5", "m6"} |-> {}]]
MCRulesOf ==
  [none   |-> NoRules,
   nodes  |-> [NoRules EXCEPT !.nodes = {<<"action", "m1", "a1">>, <<"assertion", "m1", "a2">>,
                                         <<"action", "m3", "a3">>, <<"assertion", "m2", "b2">>},
                              !.hooks = {<<"s1", "h2">>}],
   cases  |-> [NoRules EXCEPT !.members = {"m1"},
                              !.nodes = {<<"action", "m4", "b2">>, <<"assertion", "m4", "b1">>,
                                         <<"assertion", "m4", "b3">>},
                              !.pinned = [@ EXCEPT !["m2"] = {"y"}, !["m3"] = {"t"}]],
   reader |-> [NoRules EXCEPT !.suites = {"s2"}, !.nodes = {<<"action", "m3", "a1">>}]]

Target(scope) == [scope |-> scope, suites |-> <<>>, suite |-> NoSuite, case |-> "a",
                  member |-> NoMember, excluded |-> {}, pre |-> FALSE, post |-> FALSE,
                  params |-> {}]
MCTargetOf ==
  [one     |-> [Target("case") EXCEPT !.pre = TRUE],
   context |-> [Target("context") EXCEPT !.suite = "s1", !.member = "m3", !.post = TRUE],
   unbound |-> [Target("context") EXCEPT !.suite = "s2"],
   suites  |-> [Target("suites") EXCEPT !.suites = <<"s2", "s3", "s1">>, !.pre = TRUE],
   all     |-> [Target("all") EXCEPT !.excluded = {"s2"}, !.params = {"t"}]]

MCAssets  == DOMAIN MCLayoutOf
MCConfigs == DOMAIN MCRulesOf
MCTargets == DOMAIN MCTargetOf

MCOneTarget == {"all"}

MCAssetEdits == {<<"base", "noReader">>, <<"noReader", "moved">>, <<"moved", "base">>}
MCConfigEdits == {<<"none", "nodes">>, <<"nodes", "cases">>, <<"cases", "reader">>,
                  <<"reader", "none">>}

=============================================================================
