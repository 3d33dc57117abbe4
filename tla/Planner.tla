------------------------------- MODULE Planner -------------------------------
(***************************************************************************)
(* The capability planner (application/planner.py).  A plan is built by    *)
(* the fluent calls of the query object; CapabilityPlanner.plan then walks *)
(* its nodes from the scan outward, places each one against the target's   *)
(* capabilities, and finally runs the completeness check it asserts.       *)
(* An action per node type of the loop; the loop visits the nodes in the   *)
(* order scan, filter, project, limit, skipping those the plan lacks.      *)
(***************************************************************************)
EXTENDS ExecutionPlan

CONSTANTS
  Predicates,        \* conjunct sequences a caller may pass to where()
  ProjectionChoices, \* expression lists a caller may pass to select()
  LimitChoices,      \* counts a caller may pass to limit() and preview()
  Targets,           \* planning targets: scan and engine capabilities
  NoTarget,          \* the target before a planning call
  MaxClauses         \* bound: conjuncts a caller accumulates in one plan

PlanningTargets ==
  [scan : PushdownCapabilities, engine : EngineCapabilities, reachable : BOOLEAN]

ASSUME PlannerInputs ==
  /\ Predicates \subseteq Seq(Clauses)
  /\ ProjectionChoices \subseteq Projections
  /\ LimitChoices \subseteq Nat
  /\ Targets \subseteq PlanningTargets
  /\ NoTarget \notin Targets
  /\ MaxClauses \in Nat

VARIABLES
  phase,       \* "building" | "planning" | "planned" | "assertion_failed"
  plan,        \* the logical plan
  target,      \* the target being planned for
  pending,     \* plan nodes the loop has not visited
  nodes,       \* explain node of every visited operation
  staging_required,
  diagnostics, \* operations with an error diagnostic, in order
  pushed, residual,
  problems     \* what check_completeness returned

plannerVars ==
  <<phase, plan, target, pending, nodes, staging_required, diagnostics, pushed, residual, problems>>

Unplanned == "unplanned"

RejectionCodes ==
  {"staging_required", "rejected_engine_unsupported_expression",
   "rejected_engine_unsupported_operation"}

executable == \A op \in Operations : nodes[op] # "rejected"

-----------------------------------------------------------------------------
(* Building: QueryPlan.where, select and limit.                            *)

PlannerInit ==
  /\ phase = "building"
  /\ plan = ScanPlan
  /\ target = NoTarget
  /\ pending = {}
  /\ nodes = [op \in Operations |-> Unplanned]
  /\ staging_required = FALSE
  /\ diagnostics = <<>>
  /\ pushed = NoOperations
  /\ residual = NoOperations
  /\ problems = {}

Build(newPlan) ==
  /\ phase = "building"
  /\ plan' = newPlan
  /\ UNCHANGED <<phase, target, pending, nodes, staging_required, diagnostics,
                 pushed, residual, problems>>

Where(clauses) ==
  /\ Len(plan.predicate) + Len(clauses) <= MaxClauses
  /\ Build(where(plan, clauses))

Select(expressions) == expressions # <<>> /\ Build(select(plan, expressions))

Limit(count) == Build(limit(plan, count))

-----------------------------------------------------------------------------
(* Planning.                                                               *)

StartPlanning(t) ==
  /\ phase = "building"
  /\ phase' = "planning"
  /\ target' = t
  /\ pending' = NodesOf(plan)
  /\ UNCHANGED <<plan, nodes, staging_required, diagnostics, pushed, residual, problems>>

(* The loop reaches op: every node before it has been visited.             *)
Visit(op) ==
  /\ phase = "planning"
  /\ op \in pending
  /\ \A other \in pending : Order[op] <= Order[other]
  /\ pending' = pending \ {op}
  /\ UNCHANGED <<phase, plan, target, problems>>

(* Append an explain node; a rejection also appends a diagnostic.          *)
Explain(op, disposition, code) ==
  /\ nodes' = [nodes EXCEPT ![op] = disposition]
  /\ diagnostics' = IF disposition = "rejected"
                    THEN Append(diagnostics, [node |-> op, code |-> code])
                    ELSE diagnostics

PlanScan ==
  /\ Visit("scan")
  /\ IF target.reachable
     THEN /\ Explain("scan", "pushed", "pushdown_full")
          /\ UNCHANGED staging_required
     ELSE /\ Explain("scan", "rejected", "staging_required")
          /\ staging_required' = TRUE
  /\ UNCHANGED <<pushed, residual>>

(* Mutant of PushesClause: the engine is asked about every conjunct, not   *)
(* only about those it has to recheck.                                     *)
PushesCheckedClause(t, clause) ==
  /\ t.scan.predicate # "none"
  /\ ScanSupports(t.scan, clause)
  /\ EngineSupports(t.engine, clause)

(* Where one conjunct goes.  A conjunct a partial scan accepts is pushed   *)
(* as a relaxation and rechecked by the engine; with an engine that cannot *)
(* recheck it, it is rejected even though the scan would accept it.        *)
PushesClause(t, clause) ==
  /\ t.scan.predicate # "none"
  /\ ScanSupports(t.scan, clause)
  /\ t.scan.predicate = "partial" => EngineSupports(t.engine, clause)

ResidualClause(t, clause) ==
  /\ EngineSupports(t.engine, clause)
  /\ ~ (t.scan.predicate = "full" /\ ScanSupports(t.scan, clause))

PlanFilter ==
  LET all == DOMAIN plan.predicate
      pushed_parts == {i \in all : PushesClause(target, plan.predicate[i])}
      residual_parts == {i \in all : ResidualClause(target, plan.predicate[i])}
      rejected_parts == all \ (pushed_parts \cup residual_parts)
  IN  /\ Visit("filter")
      /\ pushed' = [pushed EXCEPT !.predicate = pushed_parts]
      /\ residual' = [residual EXCEPT !.predicate = residual_parts]
      /\ Explain("filter",
                 IF rejected_parts # {} THEN "rejected"
                 ELSE IF residual_parts = {} THEN "pushed"
                 ELSE IF pushed_parts = {} THEN "residual"
                 ELSE "partial",
                 "rejected_engine_unsupported_expression")
      /\ UNCHANGED staging_required

PushWholeProjection ==
  /\ pushed' = [pushed EXCEPT !.projection = output_names(plan.projection)]
  /\ Explain("project", "pushed", "pushdown_full")
  /\ UNCHANGED residual

(* Mutant of PruneAndProject: "residual" although columns were pruned.     *)
ProjectWithoutNotice ==
  /\ residual' = [residual EXCEPT !.projection = plan.projection]
  /\ pushed' = [pushed EXCEPT !.projection =
                  IF target.scan.projection # "none"
                  THEN NeededColumns(plan, residual.predicate) ELSE <<>>]
  /\ Explain("project", "residual", "residual_computed_projection")

PruneAndProject ==
  LET needed == NeededColumns(plan, residual.predicate)
      pushed_projection == IF target.scan.projection # "none" THEN needed ELSE <<>>
      unsupported == {i \in DOMAIN plan.projection :
                        ~ EngineSupports(target.engine, plan.projection[i])}
  IN  /\ residual' = [residual EXCEPT !.projection = plan.projection]
      /\ pushed' = [pushed EXCEPT !.projection = pushed_projection]
      /\ IF ~ target.engine.residual_projection
         THEN Explain("project", "rejected", "rejected_engine_unsupported_operation")
         ELSE IF unsupported # {}
         THEN Explain("project", "rejected", "rejected_engine_unsupported_expression")
         ELSE Explain("project",
                      IF pushed_projection = <<>> THEN "residual" ELSE "partial",
                      "residual_computed_projection")

PlanProject ==
  /\ Visit("project")
  /\ IF PushesWholeProjection(plan, target.scan, residual.predicate)
     THEN PushWholeProjection
     ELSE PruneAndProject
  /\ UNCHANGED staging_required

(* The engine re-applies the limit, alone or after the scan's own.         *)
LimitInEngine(alsoPushed) ==
  IF target.engine.residual_limit
  THEN /\ pushed' = IF alsoPushed THEN [pushed EXCEPT !.limit = plan.limit] ELSE pushed
       /\ residual' = [residual EXCEPT !.limit = plan.limit]
       /\ Explain("limit", IF alsoPushed THEN "partial" ELSE "residual", "residual_limit")
  ELSE /\ UNCHANGED <<pushed, residual>>
       /\ Explain("limit", "rejected", "rejected_engine_unsupported_operation")

(* Mutant of PlanLimit: the limit is pushed below a residual filter.       *)
PlanLimitBelowFilter ==
  /\ Visit("limit")
  /\ IF target.scan.limit = "full"
     THEN /\ pushed' = [pushed EXCEPT !.limit = plan.limit]
          /\ Explain("limit", "pushed", "pushdown_full")
          /\ UNCHANGED residual
     ELSE LimitInEngine(target.scan.limit = "partial")
  /\ UNCHANGED staging_required

PlanLimit ==
  /\ Visit("limit")
  /\ IF residual.predicate # {} THEN LimitInEngine(FALSE)
     ELSE IF target.scan.limit = "full"
     THEN /\ pushed' = [pushed EXCEPT !.limit = plan.limit]
          /\ Explain("limit", "pushed", "pushdown_full")
          /\ UNCHANGED residual
     ELSE LimitInEngine(target.scan.limit = "partial")
  /\ UNCHANGED staging_required

(* check_completeness(execution_plan) on the finished plan.                *)
check_completeness ==
  LET rejected == {op \in Operations : nodes[op] = "rejected"}
  IN  IF ~ executable
      THEN {p \in {"plan marked not executable but no node is rejected"} : rejected = {}}
      ELSE PlacementProblems(plan, target.scan, target.engine, pushed, residual)

Finish ==
  /\ phase = "planning"
  /\ pending = {}
  /\ problems' = check_completeness
  /\ phase' = IF problems' = {} THEN "planned" ELSE "assertion_failed"
  /\ UNCHANGED <<plan, target, pending, nodes, staging_required, diagnostics, pushed, residual>>

PlanNode == PlanScan \/ PlanFilter \/ PlanProject \/ PlanLimit

PlannerNext ==
  \/ \E clauses \in Predicates : Where(clauses)
  \/ \E expressions \in ProjectionChoices : Select(expressions)
  \/ \E count \in LimitChoices : Limit(count)
  \/ \E t \in Targets : StartPlanning(t)
  \/ PlanNode
  \/ Finish

PlannerSpec == PlannerInit /\ [][PlannerNext]_plannerVars

-----------------------------------------------------------------------------
(* Type invariant: the planner's state has the shape its dataclasses say.  *)
PlannerTypeOK ==
  /\ phase \in {"building", "planning", "planned", "assertion_failed"}
  /\ plan \in QueryPlans
  /\ target \in Targets \cup {NoTarget}
  /\ phase # "building" => target \in Targets
  /\ pending \subseteq Operations
  /\ nodes \in [Operations -> Dispositions \cup {Unplanned}]
  /\ staging_required \in BOOLEAN
  /\ diagnostics \in Seq([node : Operations, code : RejectionCodes])
  /\ pushed \in PushedOperations
  /\ residual \in ResidualOperations

(* FF-05: for no plan and no capabilities does the planner's own assertion *)
(* "planner violated the completeness invariant" fire.  The check restates *)
(* every placement rule independently of the loop that applied them.       *)
CompletenessHolds == phase # "assertion_failed"

(* A rejection is never avoidable: when the planner refuses a plan on a    *)
(* reachable target, no way of splitting it between the scan and the       *)
(* engine would pass the completeness check.  (Greedy decisions, taken     *)
(* node by node, lose no executable placement.)                            *)
RejectsOnlyTheImpossible ==
  phase = "planned" /\ ~ executable /\ target.reachable =>
    ~ \E inScan, inEngine \in SUBSET DOMAIN plan.predicate :
        /\ PredicateProblems(plan, target.scan, target.engine,
                             [pushed EXCEPT !.predicate = inScan],
                             [residual EXCEPT !.predicate = inEngine]) = {}
        /\ \E p \in {<<>>, output_names(plan.projection), NeededColumns(plan, inEngine)},
             r \in {<<>>, plan.projection} :
             ProjectionProblems(plan, target.scan, target.engine,
                                [pushed EXCEPT !.projection = p],
                                [residual EXCEPT !.projection = r, !.predicate = inEngine]) = {}
        /\ \E p, r \in {NoLimit, plan.limit} :
             LimitProblems(plan, target.scan, target.engine,
                           [pushed EXCEPT !.limit = p],
                           [residual EXCEPT !.limit = r, !.predicate = inEngine]) = {}

(* Explain output is true: what it says of a node ("pushed" for nothing    *)
(* left to the engine, "residual" for nothing given to the scan, "partial" *)
(* for both) is what the execution plan will run.                          *)
RunsIn(op, place) ==
  CASE op = "filter" -> place.predicate # {}
    [] op = "project" -> place.projection # <<>>
    [] op = "limit" -> place.limit # NoLimit

ExplainIsTruthful ==
  phase = "planned" /\ executable =>
    \A op \in NodesOf(plan) \ {"scan"} :
      /\ nodes[op] \in {"pushed", "partial"} <=> RunsIn(op, pushed)
      /\ nodes[op] \in {"residual", "partial"} <=> RunsIn(op, residual)

=============================================================================
