--------------------------- MODULE ProfiledIntake ---------------------------
(***************************************************************************)
(* ExecutionIntake with the resolver in it: an execution's content is what *)
(* ProfileResolution makes of the assets, the rules and the target that    *)
(* its request read.                                                       *)
(***************************************************************************)
EXTENDS ExecutionIntake, ProfileResolution

CONSTANTS LayoutOf,  \* [Assets -> layouts]
          VarsOf,    \* [Assets -> variable definitions]
          RulesOf,   \* [Configs -> rules]
          TargetOf   \* [Targets -> targets]

\* The values of ExecutionIntake's constants.  Each outcome carries whether
\* the rows it is materialised into are complete.
OutcomeOf(result) ==
  [result |-> result,
   ready  |-> result.outcome = "resolved" /\ SnapshotReadyRows(Materialize(result))]

Contents == [layout : Assets, vars : Assets, config : Configs, target : Targets]

LayoutFor(e) == LayoutOf[e.layout]
VarsFor(e)   == VarsOf[e.vars]
RulesFor(e)  == RulesOf[e.config]
TargetFor(e) == TargetOf[e.target]

Outcomes ==
  [e \in Contents |->
     OutcomeOf(ResolveTarget(LayoutFor(e), VarsFor(e), RulesFor(e), TargetFor(e)))]

ResolvesTo(outcome) == outcome.result.outcome = "resolved"
RowsReady(outcome) == outcome.ready

ASSUME ResolverIsWired ==
  /\ Resolution = Outcomes
  /\ \A e \in Contents : Resolves(Outcomes[e]) <=> ResolvesTo(Outcomes[e])

\* What the tables and the schemas make sure of.  A suite and a membership have
\* ids of their own; a node of a case has a key of its own (_ensure_node_key,
\* validate_keys) and one of two kinds; a request names suites of the project,
\* which may have been deleted since, each once (resolve drops a repeated one).
IsSequence(s) == s \in Seq(ToSet(s))

LayoutStands(layout) ==
  /\ IsSequence(layout.suites) /\ IsInjective(layout.suites)
  /\ ToSet(layout.suites) \subseteq DOMAIN layout.members \cap DOMAIN layout.hooks
  /\ \A suite \in DOMAIN layout.hooks : IsSequence(layout.hooks[suite])
  /\ NoSuite \notin DOMAIN layout.members
  /\ \A suite \in DOMAIN layout.members :
       LET members == layout.members[suite]
       IN /\ IsSequence(members)
          /\ \A i, j \in DOMAIN members : members[i].id = members[j].id => i = j
          /\ \A i \in DOMAIN members : members[i].id # NoMember
  /\ \A case \in DOMAIN layout.flow :
       LET flow == layout.flow[case]
       IN /\ IsSequence(flow)
          /\ \A i, j \in DOMAIN flow : flow[i].key = flow[j].key => i = j
          /\ \A i \in DOMAIN flow : flow[i].kind \in {"action", "assertion"}

TargetStands(layout, target) ==
  \/ target.scope \in {"case", "all"}
  \/ target.scope = "context" /\ target.suite \in DOMAIN layout.members
  \/ /\ target.scope = "suites"
     /\ IsSequence(target.suites) /\ IsInjective(target.suites)
     /\ ToSet(target.suites) \subseteq DOMAIN layout.members

ASSUME InputsStand ==
  \A layout \in Assets :
    /\ LayoutStands(LayoutOf[layout])
    /\ \A target \in Targets : TargetStands(LayoutOf[layout], TargetOf[target])

----------------------------------------------------------------------------
(* What holds of the content of a new execution: what its request read and *)
(* its target determine it.                                                *)

Content(e)  == Outcomes[e].result
SpecsFor(e) == Specs(LayoutFor(e), RulesFor(e), TargetFor(e))

Executed == {e \in Contents : Content(e).outcome = "resolved"}

\* Every execution made from the profile has one of these contents.
NewContentIn(contents) ==
  \A i \in DOMAIN executions' :
    Created(i) /\ executions'[i].retryOf = 0 =>
      ContentOf(executions'[i].reads, executions'[i].target) \in contents

Gone(e, s) == ~ s.virtual /\ s.suite \notin ToSet(LayoutFor(e).suites)

CaseRuns(suite, pos, key) ==
  /\ ~ suite.na
  /\ \E k \in DOMAIN suite.cases :
       /\ suite.cases[k].pos = pos
       /\ \E n \in DOMAIN suite.cases[k].flow : suite.cases[k].flow[n].key = key

LeftOut(e, types, s, pos, key) ==
  \E x \in Content(e).exclusions :
    /\ x.type \in types /\ x.source = "direct"
    /\ x.suite = s.suite /\ x.pos = pos /\ x.key = key

\* Every node of every live case of the target either runs, or is left out by
\* a rule for this very occurrence, of its case or of the node, and then an
\* exclusion says so; never both, never neither.
Accounted(e) ==
  \A j \in DOMAIN SpecsFor(e) :
    LET s == SpecsFor(e)[j]
        flow == LayoutFor(e).flow
    IN ~ Gone(e, s) =>
       \A pos \in DOMAIN s.members :
         s.members[pos].case \in DOMAIN flow =>
         \A n \in ToSet(SelectSteps(flow[s.members[pos].case], TargetFor(e))) :
           LET m == s.members[pos]
               caseOut == LeftOut(e, {"case"}, s, pos, NoKey)
               nodeOut == LeftOut(e, {n.kind}, s, pos, n.key)
               runs    == CaseRuns(Content(e).suites[j], pos, n.key)
           IN /\ caseOut <=> ~ s.virtual /\ m.id \in RulesFor(e).members
              /\ nodeOut <=> ~ caseOut /\ <<n.kind, m.id, n.key>> \in RulesFor(e).nodes
              /\ runs <=> ~ caseOut /\ ~ nodeOut

\* The numbers of the preview and the report add up: every suite and every
\* case of the target is counted as executable or as left out, but for the
\* cases that are deleted or whose suite is.
AddsUp(e) ==
  LET n == Content(e).summary
      specs == SpecsFor(e)
      Dead(i) == {p \in DOMAIN specs[i].members :
                    Gone(e, specs[i])
                      \/ specs[i].members[p].case \notin DOMAIN LayoutFor(e).flow}
  IN /\ n.source_suites = n.executable_suites + n.na_suites
     /\ n.source_cases = n.executable_cases + n.na_cases + n.na_suite_cases
          + MapThenSumSet(LAMBDA i : Cardinality(Dead(i)), DOMAIN specs)

\* A name that the snapshot leaves to the run is set by a node of the same
\* snapshot, one that runs: for a text an earlier one, for a locator any.
SetByNodes(nodes) ==
  \A i \in DOMAIN nodes :
    /\ \A x \in DOMAIN nodes[i].reads :
         nodes[i].reads[x] = "runtime" => \E j \in 1 .. i - 1 : x \in nodes[j].sets
    /\ \A x \in DOMAIN nodes[i].finds :
         nodes[i].finds[x] = "runtime" => \E j \in DOMAIN nodes : x \in nodes[j].sets

RunSuites(e) == {s \in ToSet(Content(e).suites) : ~ s.na}

Bound(e) ==
  \A s \in RunSuites(e) :
    /\ SetByNodes(s.hooks)
    /\ \A k \in DOMAIN s.cases : SetByNodes(s.cases[k].flow)

\* A value comes from where the profile's page says it does, when the request
\* gives no variables of its own.
Shown(e) ==
  TargetFor(e).params = {} =>
    \A s \in RunSuites(e) : \A k \in DOMAIN s.cases :
      s.cases[k].member # NoMember =>
        LET c == s.cases[k]
            m == CHOOSE m \in ToSet(LayoutFor(e).members[s.suite]) : m.id = c.member
            page == PageVariables(VarsFor(e), RulesFor(e), s.suite, m)
        IN \A i \in DOMAIN c.flow :
             /\ \A x \in DOMAIN c.flow[i].reads : c.flow[i].reads[x] = Source(page, x)
             /\ \A x \in DOMAIN c.flow[i].finds : c.flow[i].finds[x] = Source(page, x)

AccountedContents == {e \in Executed : Accounted(e)}
AddingUpContents  == {e \in Executed : AddsUp(e)}
BoundContents     == {e \in Executed : Bound(e)}
ShownContents     == {e \in Executed : Shown(e)}
ReadyContents     == {e \in Executed : RowsReady(Outcomes[e])}

\* Every node of the target runs or has an exclusion, by a rule for its own
\* occurrence (_build_suite, _resolve_case, filter_nodes).
EveryNodeAccounted == [][NewContentIn(AccountedContents)]_vars

\* The summary adds up (resolve).
SummaryAddsUp == [][NewContentIn(AddingUpContents)]_vars

\* No node runs with a name that nothing defines: skipping the node that
\* would have set it is found at resolution (render_text, runtime_variables).
\* A text needs an earlier node; a locator is resolved with the names of all
\* nodes, so the one that sets its name may be a later one (_resolve_case).
NothingUndefined == [][NewContentIn(BoundContents)]_vars

\* The resolver and the page, which compute the precedence of variables each
\* for itself, agree (merge_variables, definitions_for_case).
PageShowsWhatRuns == [][NewContentIn(ShownContents)]_vars

\* An execution made from a profile can be retried once it is settled: the
\* rows it is materialised into pass the test of a retry (clone_snapshot).
RetryIsPossible == [][NewContentIn(ReadyContents)]_vars

=============================================================================
