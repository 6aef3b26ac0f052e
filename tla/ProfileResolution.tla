------------------------- MODULE ProfileResolution -------------------------
(***************************************************************************)
(* What a preview or a creation turns a target into: which suites, cases   *)
(* and nodes of the project run under an APP profile, which are left out   *)
(* and why, and where each variable a node mentions gets its value         *)
(* (services/profile_resolver.py with profile_resolver_nodes.py and        *)
(* profile_resolver_load.py); the rows an execution is materialised into   *)
(* (repositories/execution_tree.py) and the completeness test a retry puts *)
(* them through (repositories/executions.py).                              *)
(*                                                                         *)
(* The inputs are four records.                                            *)
(*   layout : suites, the live suites in the order of their names; hooks   *)
(*            and members of each suite; flow of each live case            *)
(*   defs   : global, project, suite[s], case[c], the names defined there  *)
(*   rules  : suites, members, nodes, hooks the profile skips; pinned[m],  *)
(*            the names it overrides for one occurrence                    *)
(*   target : scope, suite(s), case, member, excluded suites, the options  *)
(*            pre and post, params, the names the run options give         *)
(* A node is [key, kind, phase, uses, finds, sets]: the names its texts    *)
(* mention, those the locators of its elements mention (a smart locator's  *)
(* are left to the agent and not among them), those its run sets.  A hook  *)
(* has a phase of its own beside the list it stands in, `own`.  The place  *)
(* of a node in its sequence is its order.  A value is not kept, only the  *)
(* scope it comes from.                                                    *)
(***************************************************************************)
EXTENDS Naturals, Sequences, FiniteSets, SequencesExt, FiniteSetsExt

NoSuite  == "no suite"
NoMember == "no member"
NoCase   == "no case"
NoKey    == "no key"

Phases == {"setup", "main", "teardown"}

\* The members of s at the places in I, in their order.  (What SelectSeq does,
\* in a form whose definition the provers can expand.)
Only(s, I) == FlattenSeq([i \in DOMAIN s |-> IF i \in I THEN <<s[i]>> ELSE <<>>])

----------------------------------------------------------------------------
(* Variables.                                                              *)

\* Each layer covers the ones before it.
Bindings(layers) ==
  [x \in UNION {layers[i].names : i \in DOMAIN layers} |->
     layers[Max({i \in DOMAIN layers : x \in layers[i].names})].scope]

Layer(scope, names) == [scope |-> scope, names |-> names]

CaseVariablesOfCaseLast(defs, rules, target, suite, m) ==  \* mutant: the case covers its suite
  Bindings(<<Layer("global",  defs.global),
             Layer("project", defs.project),
             Layer("suite",   IF suite = NoSuite THEN {} ELSE defs.suite[suite]),
             Layer("case",    defs.case[m.case]),
             Layer("member",  m.overrides),
             Layer("params",  target.params),
             Layer("pinned",  IF m.id = NoMember THEN {} ELSE rules.pinned[m.id])>>)

\* merge_variables
CaseVariables(defs, rules, target, suite, m) ==
  Bindings(<<Layer("global",  defs.global),
             Layer("project", defs.project),
             Layer("case",    defs.case[m.case]),
             Layer("suite",   IF suite = NoSuite THEN {} ELSE defs.suite[suite]),
             Layer("member",  m.overrides),
             Layer("params",  target.params),
             Layer("pinned",  IF m.id = NoMember THEN {} ELSE rules.pinned[m.id])>>)

\* merge_suite_variables
SuiteVariables(defs, target, suite) ==
  Bindings(<<Layer("global",  defs.global),
             Layer("project", defs.project),
             Layer("suite",   defs.suite[suite]),
             Layer("params",  target.params)>>)

\* What the profile page shows for an occurrence (definitions_for_case, then
\* the member's overrides and the profile's).
PageVariables(defs, rules, suite, m) ==
  Bindings(<<Layer("global",  defs.global),
             Layer("project", defs.project),
             Layer("case",    defs.case[m.case]),
             Layer("suite",   defs.suite[suite]),
             Layer("member",  m.overrides),
             Layer("pinned",  rules.pinned[m.id])>>)

RuntimeNamesOfAll(nodes, i) ==  \* mutant: of later nodes too
  UNION {nodes[j].sets : j \in DOMAIN nodes}

\* What a run of earlier nodes leaves for a later one.
RuntimeNames(nodes, i) == UNION {nodes[j].sets : j \in 1 .. i - 1}

\* render_text on every node, in the order they run; then element_snapshot on
\* the locators, with the names that any of the nodes sets.
Undefined(nodes, bound) ==
  \E i \in DOMAIN nodes :
    \/ ~ nodes[i].uses \subseteq DOMAIN bound \cup RuntimeNames(nodes, i)
    \/ ~ nodes[i].finds \subseteq DOMAIN bound \cup RuntimeNames(nodes, Len(nodes) + 1)

Source(bound, x) == IF x \in DOMAIN bound THEN bound[x] ELSE "runtime"

PlaceInKind(nodes, i) ==  \* mutant: assertions are counted apart
  Cardinality({j \in 1 .. i : nodes[j].phase = nodes[i].phase /\ nodes[j].kind = nodes[i].kind})

\* assign_order: places are counted in each phase.
PlaceInPhase(nodes, i) ==
  Cardinality({j \in 1 .. i : nodes[j].phase = nodes[i].phase})

Places(nodes) == [i \in DOMAIN nodes |-> PlaceInPhase(nodes, i)]

\* assign_order on the hooks of a list: it counts by the phase each hook has of
\* its own, which _finalize_suite_step then replaces by that of the list.
HookPlaces(hooks) ==
  [i \in DOMAIN hooks |->
     Cardinality({j \in 1 .. i : hooks[j].phase = hooks[i].phase /\ hooks[j].own = hooks[i].own})]

Snapshot(nodes, bound, order) ==
  [i \in DOMAIN nodes |->
     [key   |-> nodes[i].key, kind |-> nodes[i].kind, phase |-> nodes[i].phase,
      sets  |-> nodes[i].sets, order |-> order[i],
      reads |-> [x \in nodes[i].uses |-> Source(bound, x)],
      finds |-> [x \in nodes[i].finds |-> Source(bound, x)]]]

----------------------------------------------------------------------------
(* One case, one suite.                                                    *)

\* select_steps_for_run
SelectSteps(flow, target) ==
  LET asked == {"main"} \cup (IF target.pre THEN {"setup"} ELSE {})
                        \cup (IF target.post THEN {"teardown"} ELSE {})
      enabled == IF \E i \in DOMAIN flow : flow[i].phase \in asked
                 THEN asked ELSE Phases
      In(phase) == Only(flow, {i \in DOMAIN flow : flow[i].phase = phase /\ phase \in enabled})
  IN In("setup") \o In("main") \o In("teardown")

NodeSkippedAnywhere(rules, m, n) ==  \* mutant: in every occurrence of the case
  \E x \in rules.nodes : x[1] = n.kind /\ x[3] = n.key

\* A rule names the kind of the node and one occurrence of its case.
NodeSkipped(rules, m, n) == <<n.kind, m.id, n.key>> \in rules.nodes

Exclusion(type, suite, m, pos, key, source) ==
  [type |-> type, suite |-> suite, member |-> m.id, case |-> m.case,
   pos |-> pos, key |-> key, source |-> source]

NoOccurrence == [id |-> NoMember, case |-> NoCase]

EmptyCaseUnreported(kept, suite, m, pos) == {}  \* mutant

\* A case that loses all its nodes is left out as well.
EmptyCase(kept, suite, m, pos) ==
  IF kept = <<>> THEN {Exclusion("case", suite, m, pos, NoKey, "empty")} ELSE {}

\* _resolve_case
ResolveCase(layout, defs, rules, target, suite, m, pos) ==
  LET steps == SelectSteps(layout.flow[m.case], target)
      skips == {i \in DOMAIN steps : NodeSkipped(rules, m, steps[i])}
      kept  == Only(steps, DOMAIN steps \ skips)
      bound == CaseVariables(defs, rules, target, suite, m)
      left  == {Exclusion(steps[i].kind, suite, m, pos, steps[i].key, "direct") : i \in skips}
  IN [undefined  |-> Undefined(kept, bound),
      case       |-> [member |-> m.id, case |-> m.case, pos |-> pos,
                      flow |-> Snapshot(kept, bound, Places(kept))],
      exclusions |-> left \cup EmptyCase(kept, suite, m, pos),
      overrides  |-> IF m.id = NoMember THEN 0 ELSE Cardinality(rules.pinned[m.id])]

\* The members _build_suite resolves: live cases the profile does not skip.
Wanted(layout, rules, spec) ==
  {i \in DOMAIN spec.members :
     /\ spec.members[i].case \in DOMAIN layout.flow
     /\ spec.virtual \/ spec.members[i].id \notin rules.members}

HooksOf(layout, spec, phase) ==
  LET hooks == layout.hooks[spec.suite]
  IN IF spec.virtual THEN <<>>
     ELSE Only(hooks, {i \in DOMAIN hooks : hooks[i].phase = phase})

KeptHooks(rules, suite, hooks) ==
  Only(hooks, {i \in DOMAIN hooks : <<suite, hooks[i].key>> \notin rules.hooks})

\* What _build_suite makes of the results of the suite's hooks and cases.
SuiteOf(layout, spec, allHooks, hooks, bound, results) ==
  LET suite == spec.suite
      live  == {i \in DOMAIN results : results[i].case.flow # <<>>}
      skips == {i \in DOMAIN spec.members :
                  /\ spec.members[i].case \in DOMAIN layout.flow
                  /\ i \notin DOMAIN results}
  IN [suite |-> suite, virtual |-> spec.virtual, na |-> live = {},
      undefined |-> \/ ~ spec.virtual /\ Undefined(hooks, bound)
                    \/ \E i \in DOMAIN results : results[i].undefined,
      hooks |-> IF spec.virtual THEN <<>> ELSE Snapshot(hooks, bound, HookPlaces(hooks)),
      cases |-> FlattenSeq([i \in DOMAIN spec.members |->
                              IF i \in live THEN <<results[i].case>> ELSE <<>>]),
      exclusions |->
        {Exclusion("suite_step", suite, NoOccurrence, 0, n.key, "direct") :
           n \in ToSet(allHooks) \ ToSet(hooks)}
        \cup {Exclusion("case", suite, spec.members[i], i, NoKey, "direct") :
                i \in skips}
        \cup (UNION {results[i].exclusions : i \in DOMAIN results})
        \cup (IF live = {} /\ ~ spec.virtual
              THEN {Exclusion("suite", suite, NoOccurrence, 0, NoKey, "empty")}
              ELSE {}),
      overrides |-> MapThenSumSet(LAMBDA i : results[i].overrides, DOMAIN results)]

\* _build_suite over a suite that is live, or over the virtual one
BuildLiveSuite(layout, defs, rules, target, spec) ==
  LET hooks == HooksOf(layout, spec, "setup") \o HooksOf(layout, spec, "teardown")
  IN SuiteOf(layout, spec, hooks, KeptHooks(rules, spec.suite, hooks),
             SuiteVariables(defs, target, spec.suite),
             [i \in Wanted(layout, rules, spec) |->
                ResolveCase(layout, defs, rules, target, spec.suite, spec.members[i], i)])

\* _build_suite
BuildSuite(layout, defs, rules, target, spec) ==
  IF spec.virtual \/ spec.suite \in ToSet(layout.suites)
  THEN BuildLiveSuite(layout, defs, rules, target, spec)
  ELSE [suite |-> spec.suite, virtual |-> FALSE, na |-> TRUE, undefined |-> FALSE,
        hooks |-> <<>>, cases |-> <<>>, overrides |-> 0,
        exclusions |-> {Exclusion("suite", spec.suite, NoOccurrence, 0, NoKey, "direct")}]

----------------------------------------------------------------------------
(* The target (resolve).                                                   *)

WholeSuites(layout, ids) ==
  [i \in DOMAIN ids |-> [suite |-> ids[i], virtual |-> FALSE,
                         members |-> layout.members[ids[i]]]]

Occurrences(layout, target) ==
  LET members == layout.members[target.suite]
  IN Only(members, {i \in DOMAIN members : members[i].case = target.case})

\* A case in a suite's context: its place must be given or be the only one
\* (_unique_context_membership); a case the suite does not hold runs unbound.
ContextMembers(layout, target) ==
  LET places == Occurrences(layout, target)
  IN IF target.member # NoMember
     THEN Only(places, {i \in DOMAIN places : places[i].id = target.member})
     ELSE IF places = <<>>
          THEN <<[id |-> NoMember, case |-> target.case, overrides |-> {}]>>
          ELSE places

ContextInvalid(layout, rules, target) ==
  /\ target.scope = "context"
  /\ IF target.member # NoMember
     THEN ContextMembers(layout, target) = <<>>
     ELSE target.suite \notin rules.suites /\ Len(ContextMembers(layout, target)) > 1

Specs(layout, rules, target) ==
  LET Kept(ids, left) == Only(ids, {i \in DOMAIN ids : ids[i] \notin rules.suites \cup left})
  IN CASE target.scope = "case" ->
            <<[suite |-> NoSuite, virtual |-> TRUE,
               members |-> <<[id |-> NoMember, case |-> target.case, overrides |-> {}]>>]>>
       [] target.scope = "context" ->
            IF target.suite \in rules.suites THEN <<>>
            ELSE <<[suite |-> target.suite, virtual |-> FALSE,
                    members |-> ContextMembers(layout, target)]>>
       [] target.scope = "suites" -> WholeSuites(layout, Kept(target.suites, {}))
       [] target.scope = "all" ->
            WholeSuites(layout, Kept(layout.suites, target.excluded))

ActionsOf(nodes) == {i \in DOMAIN nodes : nodes[i].kind = "action"}

Summary(specs, suites, exclusions) ==
  LET runs == {i \in DOMAIN suites : ~ suites[i].na}
      Of(type) == {x \in exclusions : x.type = type}
      CountCases(i, Count(_)) ==
        MapThenSumSet(LAMBDA k : Count(suites[i].cases[k].flow), DOMAIN suites[i].cases)
      ActionCount(flow) == Cardinality(ActionsOf(flow))
      AssertionCount(flow) == Len(flow) - ActionCount(flow)
  IN [source_suites     |-> Len(specs),
      source_cases      |-> MapThenSumSet(LAMBDA i : Len(specs[i].members), DOMAIN specs),
      executable_suites |-> Cardinality(runs),
      executable_cases  |-> MapThenSumSet(LAMBDA i : Len(suites[i].cases), runs),
      executable_steps  |-> MapThenSumSet(LAMBDA i : Len(suites[i].hooks)
                                             + CountCases(i, ActionCount), runs),
      executable_assertions |-> MapThenSumSet(LAMBDA i : CountCases(i, AssertionCount), runs),
      na_suites         |-> Cardinality(Of("suite")),
      na_cases          |-> Cardinality({x \in Of("case") : x.suite = NoSuite}),
      na_suite_cases    |-> Cardinality({x \in Of("case") : x.suite # NoSuite}),
      na_steps          |-> Cardinality(Of("action")),
      na_assertions     |-> Cardinality(Of("assertion")),
      na_suite_steps    |-> Cardinality(Of("suite_step")),
      overrides         |-> MapThenSumSet(LAMBDA i : suites[i].overrides, DOMAIN suites)]

\* resolve: a rule or variable error comes before the test for emptiness.
TargetResult(invalid, specs, suites) ==
  LET exclusions == UNION {suites[i].exclusions : i \in DOMAIN suites}
  IN IF invalid \/ \E i \in DOMAIN suites : suites[i].undefined
     THEN [outcome |-> "rule error"]
     ELSE IF \A i \in DOMAIN suites : suites[i].na
          THEN [outcome |-> "empty"]
          ELSE [outcome |-> "resolved", suites |-> suites, exclusions |-> exclusions,
                summary |-> Summary(specs, suites, exclusions)]

ResolveTarget(layout, defs, rules, target) ==
  LET specs == Specs(layout, rules, target)
  IN TargetResult(ContextInvalid(layout, rules, target), specs,
                  [i \in DOMAIN specs |-> BuildSuite(layout, defs, rules, target, specs[i])])

----------------------------------------------------------------------------
(* The rows of an execution, and the test a retry puts them through.       *)

\* ResolvedCase.steps_snapshot: actions in one numbering, each with the
\* assertions that follow it; an assertion before the first action has none.
StepsOf(flow) ==
  LET actions == Only([i \in DOMAIN flow |-> i], ActionsOf(flow))
      End(k) == IF k = Len(actions) THEN Len(flow) ELSE actions[k + 1] - 1
  IN [k \in DOMAIN actions |->
        [phase |-> flow[actions[k]].phase, order |-> k,
         assertions |-> End(k) - actions[k]]]

Keys(rows) == {<<rows[i].phase, rows[i].order>> : i \in DOMAIN rows}

\* materialize_snapshot: a suite's hooks are numbered again in each phase.
HookRows(hooks) ==
  [i \in DOMAIN hooks |-> [phase |-> hooks[i].phase, order |-> PlaceInPhase(hooks, i)]]

Materialize(result) ==
  LET Tree(s) == [hooks |-> s.hooks, hookRows |-> HookRows(s.hooks),
                  cases |-> [k \in DOMAIN s.cases |->
                               [flow  |-> s.cases[k].flow,  nodeRows |-> s.cases[k].flow,
                                steps |-> StepsOf(s.cases[k].flow),
                                stepRows |-> StepsOf(s.cases[k].flow)]]]
      live == Only(result.suites, {i \in DOMAIN result.suites : ~ result.suites[i].na})
  IN [i \in DOMAIN live |-> Tree(live[i])]

\* Rows are found by phase and order: there must be one for each snapshot
\* node, and two nodes must not share one.
RowsMatch(rows, nodes) ==
  /\ Cardinality(Keys(rows)) = Len(nodes)
  /\ Keys(nodes) \subseteq Keys(rows)

\* _validate_snapshot_tree
SnapshotReadyRows(tree) ==
  /\ tree # <<>>
  /\ \A i \in DOMAIN tree :
       /\ RowsMatch(tree[i].hookRows, tree[i].hooks)
       /\ \A k \in DOMAIN tree[i].cases :
            LET c == tree[i].cases[k]
            IN /\ RowsMatch(c.stepRows, c.steps)
               /\ RowsMatch(c.nodeRows, c.flow)
               /\ \A j \in DOMAIN c.steps :
                    c.stepRows[j].assertions = c.steps[j].assertions

=============================================================================
