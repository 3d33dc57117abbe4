------------------------- MODULE QueryExecutionProofs -------------------------
(***************************************************************************)
(* QueryExecution implements LogicalQuery, for every plan, every           *)
(* capabilities and every scan they allow: the engine reads only what the  *)
(* scan delivered, and the answer is one the logical query admits.         *)
(***************************************************************************)
EXTENDS QueryExecution, PlannerProofs

-----------------------------------------------------------------------------
(* The inductive invariant: the planner's, that a finished plan has no     *)
(* pending node, that nothing is scanned before, and that what was scanned *)
(* is what the target's capabilities allow for the plan.                   *)

NotBegun == phase # "planned" => delivered = NotScanned /\ answer = NoAnswer

AllVisited == phase = "planned" => pending = {}

DeliveredAsPlanned ==
  delivered # NotScanned =>
    /\ phase = "planned" /\ executable
    /\ delivered.columns \in ScannedColumns
    /\ \E rows \in FilteredRows : delivered.rows \in ScannedRows(rows)

QueryInv == PlacementInv /\ NotBegun /\ AllVisited /\ DeliveredAsPlanned

-----------------------------------------------------------------------------
(* What the completeness check says of an executable plan.                 *)

LEMMA PlannedPlacement ==
  ASSUME QueryInv, phase = "planned", executable
  PROVE  /\ PredicateProblems(plan, target.scan, target.engine, pushed, residual) = {}
         /\ ProjectionProblems(plan, target.scan, target.engine, pushed, residual) = {}
         /\ LimitProblems(plan, target.scan, target.engine, pushed, residual) = {}
<1>1. check_completeness = {}
  BY FinishedPlanIsComplete DEF QueryInv, AllVisited
<1>2. PlacementProblems(plan, target.scan, target.engine, pushed, residual) = {}
  BY <1>1 DEF check_completeness
<1> QED BY <1>2 DEF PlacementProblems

(* Each conjunct is run by the scan or by the engine; by the engine too    *)
(* unless the scan is exact.                                               *)
LEMMA PlannedFilter ==
  ASSUME QueryInv, phase = "planned", executable
  PROVE  /\ DOMAIN plan.predicate = pushed.predicate \cup residual.predicate
         /\ target.scan.predicate = "full" \/ pushed.predicate \subseteq residual.predicate
<1>1. CASE "filter" \in NodesOf(plan)
  <2>1. Visited("filter")
    BY <1>1 DEF Visited, QueryInv, AllVisited
  <2>2. nodes["filter"] # "rejected"
    BY DEF executable, Operations
  <2>3. /\ pushed.predicate =
             {i \in DOMAIN plan.predicate : PushesClause(target, plan.predicate[i])}
        /\ residual.predicate =
             {i \in DOMAIN plan.predicate : ResidualClause(target, plan.predicate[i])}
        /\ DOMAIN plan.predicate = pushed.predicate \cup residual.predicate
    BY <2>1, <2>2 DEF QueryInv, PlacementInv, FilterPlaced
  <2>4. ASSUME target.scan.predicate # "full", NEW i \in pushed.predicate
        PROVE  i \in residual.predicate
    <3>1. target.scan.predicate \in Support
      BY PlannerInputs
      DEF QueryInv, PlacementInv, PlannerTypeOK, PlanningTargets, PushdownCapabilities
    <3>2. i \in DOMAIN plan.predicate /\ PushesClause(target, plan.predicate[i])
      BY <2>3
    <3>3. target.scan.predicate = "partial"
      BY <2>4, <3>1, <3>2 DEF Support, PushesClause
    <3>4. ResidualClause(target, plan.predicate[i])
      BY <2>4, <3>2, <3>3 DEF PushesClause, ResidualClause
    <3> QED BY <2>3, <3>2, <3>4
  <2> QED BY <2>3, <2>4
<1>2. CASE "filter" \notin NodesOf(plan)
  <2>1. DOMAIN plan.predicate = {}
    BY <1>2 DEF NodesOf, Operations
  <2>2. pushed.predicate = {} /\ residual.predicate = {}
    BY <1>2 DEF QueryInv, PlacementInv, FilterPlaced, Visited
  <2> QED BY <2>1, <2>2
<1> QED BY <1>1, <1>2

(* The placed bounds: the scan gets the limit only when the engine filters *)
(* nothing, and the engine gets it unless the scan applies it exactly.     *)
LEMMA PlannedBounds ==
  ASSUME QueryInv, phase = "planned", executable
  PROVE  /\ pushed.limit = IF residual.predicate # {} \/ target.scan.limit = "none"
                           THEN NoLimit ELSE plan.limit
         /\ residual.limit = IF residual.predicate = {} /\ target.scan.limit = "full"
                             THEN NoLimit ELSE plan.limit
<1>1. LimitProblems(plan, target.scan, target.engine, pushed, residual) = {}
  BY PlannedPlacement
<1> QED BY <1>1 DEF LimitProblems

(* The placed projection: by the scan alone, by the engine over the needed *)
(* columns, or by the engine over the whole table.                         *)
LEMMA PlannedProjection ==
  ASSUME QueryInv, phase = "planned", executable
  PROVE  LET needed == NeededColumns(plan, residual.predicate)
             names == output_names(plan.projection)
         IN  \/ plan.projection = <<>> /\ pushed.projection = <<>> /\ residual.projection = <<>>
             \/ /\ plan.projection # <<>> /\ residual.projection = <<>>
                /\ target.scan.projection = "full" /\ pushed.projection = names /\ needed = names
             \/ /\ plan.projection # <<>> /\ residual.projection = plan.projection
                /\ pushed.projection = needed \/ pushed.projection = <<>>
<1>1. ProjectionProblems(plan, target.scan, target.engine, pushed, residual) = {}
  BY PlannedPlacement
<1> QED BY <1>1 DEF ProjectionProblems, PushesWholeProjection

-----------------------------------------------------------------------------
(* Rows.                                                                   *)

KeptRows == Keep(Rows, DOMAIN plan.predicate)

(* Whatever the scan let through, the engine's WHERE leaves exactly the    *)
(* rows the logical predicate keeps.                                       *)
LEMMA ScanIsSufficient ==
  ASSUME QueryInv, phase = "planned", executable, NEW rows \in FilteredRows
  PROVE  rows \subseteq Rows /\ Keep(rows, residual.predicate) = KeptRows
<1> DEFINE all == DOMAIN plan.predicate
<1>1. all = pushed.predicate \cup residual.predicate
  BY PlannedFilter
<1>2. CASE target.scan.predicate = "full"
  <2>1. rows = Keep(Rows, pushed.predicate)
    BY <1>2 DEF FilteredRows
  <2> QED BY <1>1, <2>1 DEF Keep, KeptRows
<1>3. CASE target.scan.predicate # "full"
  <2>1. pushed.predicate \subseteq residual.predicate
    BY <1>3, PlannedFilter
  <2>2. rows \subseteq Rows /\ Keep(Rows, pushed.predicate) \subseteq rows
    BY <1>3 DEF FilteredRows
  <2> QED BY <1>1, <2>1, <2>2 DEF Keep, KeptRows
<1> QED BY <1>2, <1>3

LEMMA SubsetSizes ==
  ASSUME NEW A \in SUBSET Rows, NEW B \in SUBSET A
  PROVE  /\ Cardinality(A) \in Nat /\ Cardinality(B) \in Nat
         /\ Cardinality(B) <= Cardinality(A)
         /\ Cardinality(B) >= Cardinality(A) => B = A
<1>1. IsFiniteSet(A) /\ IsFiniteSet(B)
  BY RowsFinite, FS_Subset
<1>2. Cardinality(A) \in Nat /\ Cardinality(B) \in Nat
  BY <1>1, FS_CardinalityType
<1>3. Cardinality(B) <= Cardinality(A) /\ (Cardinality(A) = Cardinality(B) => A = B)
  BY <1>1, FS_Subset
<1> QED BY <1>2, <1>3

(* The engine's bound over the scan's returns as many of the kept rows as  *)
(* the logical limit allows.                                               *)
LEMMA AnswerSize ==
  ASSUME QueryInv, phase = "planned", executable,
         NEW rows \in FilteredRows, NEW returned \in ScannedRows(rows),
         NEW answered \in SUBSET Keep(returned, residual.predicate),
         Cardinality(answered) = BoundedSize(Keep(returned, residual.predicate), residual.limit)
  PROVE  /\ answered \subseteq KeptRows
         /\ Cardinality(answered) = BoundedSize(KeptRows, plan.limit)
<1>1. rows \subseteq Rows /\ Keep(rows, residual.predicate) = KeptRows
  BY ScanIsSufficient
<1>2. returned \subseteq rows
  BY DEF ScannedRows
<1>3. /\ Cardinality(rows) \in Nat /\ Cardinality(returned) \in Nat
      /\ Cardinality(returned) <= Cardinality(rows)
      /\ Cardinality(returned) >= Cardinality(rows) => returned = rows
  BY <1>1, <1>2, SubsetSizes
<1>4. answered \subseteq KeptRows
  BY <1>1, <1>2 DEF Keep
<1>5. plan.limit \in LimitCount
  BY DEF QueryInv, PlacementInv, PlannerTypeOK, QueryPlans
<1>6. ASSUME pushed.limit = NoLimit, residual.limit = plan.limit
      PROVE  Cardinality(answered) = BoundedSize(KeptRows, plan.limit)
  <2>1. returned = rows
    BY <1>3, <1>6 DEF ScannedRows, BoundedSize
  <2> QED BY <1>1, <1>6, <2>1
<1>7. ASSUME residual.predicate = {}, pushed.limit = plan.limit
      PROVE  Cardinality(answered) = BoundedSize(KeptRows, plan.limit)
  <2>1. rows = KeptRows /\ Keep(returned, residual.predicate) = returned
    BY <1>1, <1>7 DEF Keep
  <2>2. CASE target.scan.limit = "full"
    <3>1. residual.limit = NoLimit
      BY <1>7, <2>2, PlannedBounds
    <3>2. Cardinality(returned) = BoundedSize(rows, plan.limit)
      BY <1>7, <2>2 DEF ScannedRows
    <3> QED BY <2>1, <3>1, <3>2 DEF BoundedSize
  <2>3. CASE target.scan.limit # "full"
    <3>1. residual.limit = plan.limit
      BY <1>7, <2>3, PlannedBounds
    <3>2. Cardinality(returned) >= BoundedSize(rows, plan.limit)
      BY <1>7, <2>3 DEF ScannedRows
    <3>3. BoundedSize(returned, plan.limit) = BoundedSize(rows, plan.limit)
      BY <1>3, <1>5, <3>2 DEF BoundedSize, Lesser, LimitCount, NoLimit
    <3> QED BY <2>1, <3>1, <3>3
  <2> QED BY <2>2, <2>3
<1>8. CASE residual.predicate # {} \/ target.scan.limit = "none"
  BY <1>4, <1>6, <1>8, PlannedBounds
<1>9. CASE residual.predicate = {} /\ target.scan.limit # "none"
  BY <1>4, <1>7, <1>9, PlannedBounds
<1> QED BY <1>8, <1>9

-----------------------------------------------------------------------------
(* Columns.                                                                *)

LogicalColumns ==
  IF plan.projection = <<>> THEN TableColumns ELSE output_names(plan.projection)

(* The needed columns hold every column of the projection and of the       *)
(* conjuncts left to the engine.                                           *)
LEMMA NeededColumnsRead ==
  ASSUME QueryInv, phase = "planned", executable, NEW c,
         \/ \E i \in DOMAIN plan.projection : Has(plan.projection[i].columns, c)
         \/ \E i \in residual.predicate : Has(plan.predicate[i].columns, c)
  PROVE  Has(NeededColumns(plan, residual.predicate), c)
<1>1. plan \in QueryPlans
  BY DEF QueryInv, PlacementInv, PlannerTypeOK
<1>2. residual.predicate \subseteq DOMAIN plan.predicate
  BY PlannedFilter
<1>3. \/ \E i \in DOMAIN plan.projection :
           \E j \in DOMAIN plan.projection[i].columns : plan.projection[i].columns[j] = c
      \/ \E i \in residual.predicate \cap DOMAIN plan.predicate :
           \E j \in DOMAIN plan.predicate[i].columns : plan.predicate[i].columns[j] = c
  BY <1>2 DEF Has
<1> DEFINE positions == residual.predicate
<1> HIDE DEF positions
<1>4. \E k \in DOMAIN NeededColumns(plan, positions) : NeededColumns(plan, positions)[k] = c
  <2>1. \/ \E i \in DOMAIN plan.projection :
             \E j \in DOMAIN plan.projection[i].columns : plan.projection[i].columns[j] = c
        \/ \E i \in positions \cap DOMAIN plan.predicate :
             \E j \in DOMAIN plan.predicate[i].columns : plan.predicate[i].columns[j] = c
    BY <1>3 DEF positions
  <2> QED BY <1>1, <2>1, NeededColumnsComplete
<1> QED BY <1>4 DEF Has, positions

LEMMA NamesNotEmpty ==
  ASSUME QueryInv, plan.projection # <<>>
  PROVE  output_names(plan.projection) # <<>>
<1>1. plan.projection \in Seq(OutputExpressions)
  BY DEF QueryInv, PlacementInv, PlannerTypeOK, QueryPlans, Projections
<1>2. Len(plan.projection) \in Nat /\ Len(plan.projection) # 0
  BY <1>1, EmptySeq, LenProperties
<1>3. /\ DOMAIN output_names(plan.projection) = DOMAIN plan.projection
      /\ DOMAIN plan.projection = 1..Len(plan.projection)
  BY <1>1, LenProperties DEF output_names
<1> QED BY <1>2, <1>3

LEMMA AnswerColumns ==
  ASSUME QueryInv, phase = "planned", executable, delivered.columns \in ScannedColumns
  PROVE  ReadsOnlyDelivered /\ OutputColumns = LogicalColumns
<1> DEFINE needed == NeededColumns(plan, residual.predicate)
           names == output_names(plan.projection)
<1>1. \A c \in Columns : Has(TableColumns, c)
  BY TableOrder DEF Has
<1>2. delivered.columns = TableColumns => ReadsOnlyDelivered
  BY <1>1 DEF ReadsOnlyDelivered
<1>3. CASE plan.projection = <<>>
  <2>1. pushed.projection = <<>> /\ residual.projection = <<>>
    BY <1>3, PlannedProjection
  <2>2. delivered.columns = TableColumns
    BY <2>1 DEF ScannedColumns
  <2> QED BY <1>2, <1>3, <2>1, <2>2 DEF OutputColumns, LogicalColumns
<1>4. CASE plan.projection # <<>> /\ residual.projection = <<>>
  <2>1. target.scan.projection = "full" /\ pushed.projection = names /\ needed = names
    BY <1>4, PlannedProjection
  <2>2. names # <<>>
    BY <1>4, NamesNotEmpty
  <2>3. delivered.columns = names /\ delivered.columns = needed
    BY <2>1, <2>2 DEF ScannedColumns
  <2>4. ReadsOnlyDelivered
    BY <1>4, <2>3, NeededColumnsRead DEF ReadsOnlyDelivered
  <2> QED BY <1>4, <2>3, <2>4 DEF OutputColumns, LogicalColumns
<1>5. CASE plan.projection # <<>> /\ residual.projection # <<>>
  <2>1. residual.projection = plan.projection
    BY <1>5, PlannedProjection
  <2>2. pushed.projection = needed \/ pushed.projection = <<>>
    BY <1>5, PlannedProjection
  <2>3. delivered.columns = needed \/ delivered.columns = TableColumns
    BY <2>2 DEF ScannedColumns
  <2>4. delivered.columns = needed => ReadsOnlyDelivered
    BY <2>1, NeededColumnsRead DEF ReadsOnlyDelivered
  <2> QED BY <1>2, <1>5, <2>1, <2>3, <2>4 DEF OutputColumns, LogicalColumns
<1> QED BY <1>3, <1>4, <1>5

-----------------------------------------------------------------------------
(* The invariant.                                                          *)

LEMMA QueryInit == Init => QueryInv
<1> SUFFICES ASSUME Init PROVE QueryInv
  OBVIOUS
<1>1. PlacementInv /\ phase = "building"
  BY PlacementInit DEF Init, PlannerInit
<1> QED BY <1>1 DEF QueryInv, NotBegun, AllVisited, DeliveredAsPlanned, Init

(* A step of the planner other than a stutter ends, at the latest, in the  *)
(* planned phase, and only with every node visited.                        *)
LEMMA PlannerMoves ==
  ASSUME QueryInv, PlannerNext
  PROVE  phase \in {"building", "planning"} /\ (phase' = "planned" => pending' = {})
<1>1. ASSUME NEW newPlan, Build(newPlan) PROVE phase = "building" /\ phase' = "building"
  BY <1>1 DEF Build
<1>2. ASSUME NEW op, Visit(op) PROVE phase = "planning" /\ phase' = "planning"
  BY <1>2 DEF Visit
<1>3. CASE PlanNode
  BY <1>2, <1>3 DEF PlanNode, PlanScan, PlanFilter, PlanProject, PlanLimit
<1>4. CASE Finish
  BY <1>4 DEF Finish
<1>5. ASSUME NEW t \in Targets, StartPlanning(t) PROVE phase = "building" /\ phase' = "planning"
  BY <1>5 DEF StartPlanning
<1>6. CASE \/ \E clauses \in Predicates : Where(clauses)
           \/ \E expressions \in ProjectionChoices : Select(expressions)
           \/ \E count \in LimitChoices : Limit(count)
  BY <1>1, <1>6 DEF Where, Select, Limit
<1> QED BY <1>3, <1>4, <1>5, <1>6 DEF PlannerNext

LEMMA QueryStep == QueryInv /\ [Next]_vars => QueryInv'
<1> SUFFICES ASSUME QueryInv, [Next]_vars PROVE QueryInv'
  OBVIOUS
<1>1. ASSUME UNCHANGED plannerVars
      PROVE  /\ PlacementInv' /\ AllVisited'
             /\ UNCHANGED <<phase, plan, target, nodes, pushed, residual>>
             /\ FilteredRows' = FilteredRows /\ ScannedColumns' = ScannedColumns
             /\ executable' = executable
             /\ \A rows : ScannedRows(rows)' = ScannedRows(rows)
  <2>1. PlacementInv'
    BY <1>1, PlacementStep DEF QueryInv
  <2>2. UNCHANGED <<phase, plan, target, pending, nodes, pushed, residual>>
    BY <1>1 DEF plannerVars
  <2> QED BY <2>1, <2>2 DEF QueryInv, AllVisited, FilteredRows, ScannedColumns, ScannedRows,
                            executable, Keep
<1>2. CASE Plan
  <2>1. PlacementInv'
    BY <1>2, PlacementStep DEF QueryInv, Plan
  <2>2. phase # "planned" /\ AllVisited' /\ UNCHANGED <<delivered, answer>>
    BY <1>2, PlannerMoves DEF Plan, AllVisited
  <2>3. delivered' = NotScanned /\ answer' = NoAnswer
    BY <2>2 DEF QueryInv, NotBegun
  <2> QED BY <2>1, <2>2, <2>3 DEF QueryInv, NotBegun, DeliveredAsPlanned
<1>3. CASE Scan
  <2>1. phase = "planned" /\ executable /\ UNCHANGED plannerVars
    BY <1>3 DEF Scan
  <2>2. /\ delivered'.columns \in ScannedColumns
        /\ \E rows \in FilteredRows : delivered'.rows \in ScannedRows(rows)
    BY <1>3 DEF Scan
  <2>3. NotBegun' /\ DeliveredAsPlanned'
    BY <1>1, <2>1, <2>2 DEF NotBegun, DeliveredAsPlanned
  <2> QED BY <1>1, <2>1, <2>3 DEF QueryInv
<1>4. CASE UNCHANGED <<plannerVars, delivered>> /\ (UNCHANGED answer \/ phase = "planned")
  <2>1. NotBegun' /\ DeliveredAsPlanned'
    BY <1>1, <1>4 DEF QueryInv, NotBegun, DeliveredAsPlanned
  <2> QED BY <1>1, <1>4, <2>1 DEF QueryInv
<1>5. CASE Evaluate
  BY <1>4, <1>5 DEF Evaluate, QueryInv, DeliveredAsPlanned
<1>6. CASE Refuse
  BY <1>4, <1>6 DEF Refuse
<1>7. CASE Compile
  BY <1>4, <1>7 DEF Compile
<1>8. CASE UNCHANGED vars
  BY <1>4, <1>8 DEF vars
<1> QED BY <1>2, <1>3, <1>5, <1>6, <1>7, <1>8 DEF Next

LEMMA QueryInvariant == Spec => []QueryInv
BY QueryInit, QueryStep, PTL DEF Spec

-----------------------------------------------------------------------------
(* Column pruning never starves the engine: for every plan, every          *)
(* capabilities and every scan they allow, the columns that the engine's   *)
(* WHERE and SELECT read are among those the scan was told to return.      *)
THEOREM EngineReadsDelivered == Spec => []EngineColumnsDelivered
<1>1. QueryInv => EngineColumnsDelivered
  BY AnswerColumns DEF QueryInv, DeliveredAsPlanned, EngineColumnsDelivered
<1> QED BY <1>1, QueryInvariant, PTL

(* What an evaluated query returns.                                        *)
LEMMA EvaluatedAnswer ==
  ASSUME QueryInv, Evaluate
  PROVE  \E rows \in SUBSET KeptRows :
           /\ Cardinality(rows) = BoundedSize(KeptRows, plan.limit)
           /\ answer' = [columns |-> LogicalColumns, rows |-> rows]
<1>1. /\ phase = "planned" /\ executable /\ delivered.columns \in ScannedColumns
      /\ \E rows \in FilteredRows : delivered.rows \in ScannedRows(rows)
  BY DEF Evaluate, QueryInv, DeliveredAsPlanned
<1>2. PICK rows \in FilteredRows : delivered.rows \in ScannedRows(rows)
  BY <1>1
<1>3. ReadsOnlyDelivered /\ OutputColumns = LogicalColumns
  BY <1>1, AnswerColumns
<1>4. PICK answered \in SUBSET Keep(delivered.rows, residual.predicate) :
        /\ Cardinality(answered) = BoundedSize(Keep(delivered.rows, residual.predicate),
                                               residual.limit)
        /\ answer' = [columns |-> OutputColumns, rows |-> answered]
  BY <1>3 DEF Evaluate
<1>5. answered \subseteq KeptRows /\ Cardinality(answered) = BoundedSize(KeptRows, plan.limit)
  BY <1>1, <1>2, <1>4, AnswerSize
<1> QED BY <1>3, <1>4, <1>5

(* What a compiled query returns: the same, as each operation is in the    *)
(* pushed or the residual part.                                            *)
LEMMA CompiledAnswer ==
  ASSUME QueryInv, Compile
  PROVE  \E rows \in SUBSET KeptRows :
           /\ Cardinality(rows) = BoundedSize(KeptRows, plan.limit)
           /\ answer' = [columns |-> LogicalColumns, rows |-> rows]
<1>1. phase = "planned" /\ executable
  BY DEF Compile
<1>2. Keep(Rows, pushed.predicate \cup residual.predicate) = KeptRows
  BY <1>1, PlannedFilter DEF KeptRows
<1>3. CompiledLimit = plan.limit
  <2>1. target.scan.limit = "full"
    BY DEF Compile, SparkTarget
  <2>2. CASE residual.predicate = {}
    <3>1. pushed.limit = plan.limit /\ residual.limit = NoLimit
      BY <1>1, <2>1, <2>2, PlannedBounds
    <3> QED BY <3>1 DEF CompiledLimit
  <2>3. CASE residual.predicate # {}
    <3>1. pushed.limit = NoLimit /\ residual.limit = plan.limit
      BY <1>1, <2>3, PlannedBounds
    <3> QED BY <3>1 DEF CompiledLimit
  <2> QED BY <2>2, <2>3
<1>4. CompiledColumns = LogicalColumns
  <2>1. CASE plan.projection = <<>>
    <3>1. pushed.projection = <<>> /\ residual.projection = <<>>
      BY <1>1, <2>1, PlannedProjection
    <3> QED BY <2>1, <3>1 DEF CompiledColumns, LogicalColumns
  <2>2. CASE plan.projection # <<>> /\ residual.projection = <<>>
    <3>1. pushed.projection = output_names(plan.projection)
      BY <1>1, <2>2, PlannedProjection
    <3>2. pushed.projection # <<>>
      BY <2>2, <3>1, NamesNotEmpty
    <3> QED BY <2>2, <3>1, <3>2 DEF CompiledColumns, LogicalColumns
  <2>3. CASE plan.projection # <<>> /\ residual.projection # <<>>
    <3>1. residual.projection = plan.projection
      BY <1>1, <2>3, PlannedProjection
    <3> QED BY <2>3, <3>1 DEF CompiledColumns, LogicalColumns
  <2> QED BY <2>1, <2>2, <2>3
<1>5. PICK rows \in SUBSET Keep(Rows, pushed.predicate \cup residual.predicate) :
        /\ Cardinality(rows) = BoundedSize(Keep(Rows, pushed.predicate \cup residual.predicate),
                                           CompiledLimit)
        /\ answer' = [columns |-> CompiledColumns, rows |-> rows]
  BY DEF Compile
<1> QED BY <1>2, <1>3, <1>4, <1>5

(* Output names of well-formed projections are output names.               *)
LEMMA OutputNamesType ==
  ASSUME NEW expressions \in Seq(OutputExpressions)
  PROVE  output_names(expressions) \in Seq(OutputNames)
<1>1. /\ DOMAIN expressions = 1..Len(expressions) /\ Len(expressions) \in Nat
      /\ \A i \in DOMAIN expressions : expressions[i] \in OutputExpressions
  BY ElementOfSeq, LenProperties
<1>2. \A i \in 1..Len(expressions) : expressions[i].name \in OutputNames
  BY <1>1 DEF OutputExpressions
<1>3. output_names(expressions) \in [1..Len(expressions) -> OutputNames]
  BY <1>1, <1>2 DEF output_names
<1> QED BY <1>1, <1>3

(* The scan's and the answer's columns and rows are the source's.          *)
THEOREM QueryTypeCorrect == Spec => []TypeOK
<1> DEFINE Scans == [columns : Seq(Columns), rows : SUBSET Rows]
           Answers == [columns : Seq(OutputNames), rows : SUBSET Rows]
<1>1. Init => TypeOK
  BY PlannerTypeInit DEF Init, TypeOK
<1>2. QueryInv /\ TypeOK /\ [Next]_vars => TypeOK'
  <2> SUFFICES ASSUME QueryInv, TypeOK, [Next]_vars PROVE TypeOK'
    OBVIOUS
  <2>1. PlannerTypeOK' /\ PlannerTypeOK
    <3>1. [PlannerNext]_plannerVars
      BY DEF Next, vars, Plan, Scan, Evaluate, Compile, Refuse
    <3> QED BY <3>1, PlannerTypeStep DEF TypeOK
  <2>2. CASE UNCHANGED <<delivered, answer>>
    BY <2>1, <2>2 DEF TypeOK
  <2>3. CASE Scan
    <3>1. PICK rows \in FilteredRows, columns \in ScannedColumns :
            \E returned \in ScannedRows(rows) :
              delivered' = [columns |-> columns, rows |-> returned]
      BY <2>3 DEF Scan
    <3>2. PICK returned \in ScannedRows(rows) :
            delivered' = [columns |-> columns, rows |-> returned]
      BY <3>1
    <3>3. columns \in Seq(Columns)
      BY <2>1, <3>1, TableOrder DEF ScannedColumns, PlannerTypeOK, PushedOperations
    <3>4. returned \subseteq Rows
      BY <3>1, <3>2 DEF ScannedRows, FilteredRows, Keep
    <3>5. delivered' \in Scans
      BY <3>2, <3>3, <3>4
    <3> QED BY <2>1, <2>3, <3>5 DEF TypeOK, Scan
  <2>4. CASE Evaluate \/ Compile
    <3>1. PICK rows \in SUBSET KeptRows : answer' = [columns |-> LogicalColumns, rows |-> rows]
      BY <2>4, EvaluatedAnswer, CompiledAnswer
    <3>2. LogicalColumns \in Seq(OutputNames)
      <4>1. TableColumns \in Seq(OutputNames)
        BY TableOrder, ColumnsAreNames
      <4>2. output_names(plan.projection) \in Seq(OutputNames)
        <5>1. plan.projection \in Seq(OutputExpressions)
          BY <2>1 DEF PlannerTypeOK, QueryPlans, Projections
        <5> QED BY <5>1, OutputNamesType
      <4> QED BY <4>1, <4>2 DEF LogicalColumns
    <3>3. rows \subseteq Rows
      BY DEF KeptRows, Keep
    <3>4. answer' \in Answers
      BY <3>1, <3>2, <3>3
    <3> QED BY <2>1, <2>4, <3>4 DEF TypeOK, Evaluate, Compile
  <2>5. CASE Refuse
    BY <2>1, <2>5 DEF TypeOK, Refuse
  <2> QED BY <2>2, <2>3, <2>4, <2>5 DEF Next, vars, Plan
<1> QED BY <1>1, <1>2, QueryInvariant, PTL DEF Spec

-----------------------------------------------------------------------------
(* Refinement.                                                             *)

LEMMA BuildingRefines ==
  ASSUME QueryInv, Plan, phase = "building"
  PROVE  [Logical!Next]_Logical!queryVars
<1>1. answer = NoAnswer /\ answer' = answer /\ plan \in QueryPlans
  BY DEF QueryInv, NotBegun, Plan, PlacementInv, PlannerTypeOK
<1>2. ASSUME NEW clauses \in Predicates, Where(clauses) PROVE Logical!Narrow
  <2>1. plan' = where(plan, clauses)
    BY <1>2 DEF Where, Build
  <2>2. /\ plan.predicate \in Seq(Clauses) /\ clauses \in Seq(Clauses)
        /\ plan'.predicate = plan.predicate \o clauses
        /\ plan'.projection = plan.projection /\ plan'.limit = plan.limit
    BY <1>1, <2>1, PlannerInputs DEF QueryPlans, where
  <2>3. \A i \in DOMAIN plan.predicate :
          i \in DOMAIN plan'.predicate /\ plan'.predicate[i] = plan.predicate[i]
    BY <2>2, ConcatProperties, LenProperties
  <2>4. KeptRows' \subseteq KeptRows
    BY <2>3 DEF KeptRows, Keep
  <2>5. LogicalColumns' = LogicalColumns
    BY <2>2 DEF LogicalColumns, output_names
  <2> QED BY <1>1, <2>2, <2>4, <2>5 DEF Logical!Narrow, KeptRows, LogicalColumns
<1>3. ASSUME NEW expressions \in ProjectionChoices, Select(expressions)
      PROVE  [Logical!Show]_Logical!queryVars
  <2>1. plan' = [plan EXCEPT !.projection = expressions]
    BY <1>3 DEF Select, Build, select
  <2>2. plan'.predicate = plan.predicate /\ plan'.limit = plan.limit
    BY <1>1, <2>1 DEF QueryPlans
  <2>3. KeptRows' = KeptRows
    BY <2>2 DEF KeptRows, Keep
  <2> QED BY <1>1, <2>2, <2>3 DEF Logical!Show, Logical!queryVars, KeptRows
<1>4. ASSUME NEW count \in LimitChoices, Limit(count) PROVE Logical!Bound
  <2>1. plan' = limit(plan, count)
    BY <1>4 DEF Limit, Build
  <2>2. count \in Nat /\ plan.limit \in LimitCount
    BY <1>1, PlannerInputs DEF QueryPlans
  <2>3. /\ plan'.predicate = plan.predicate /\ plan'.projection = plan.projection
        /\ plan'.limit = IF plan.limit = NoLimit THEN count ELSE Lesser(plan.limit, count)
    BY <1>1, <2>1 DEF QueryPlans, limit
  <2>4. plan'.limit # NoLimit /\ (plan.limit # NoLimit => plan'.limit <= plan.limit)
    BY <2>2, <2>3 DEF Lesser, LimitCount, NoLimit
  <2>5. KeptRows' = KeptRows /\ LogicalColumns' = LogicalColumns
    BY <2>3 DEF KeptRows, Keep, LogicalColumns, output_names
  <2> QED BY <1>1, <2>4, <2>5 DEF Logical!Bound, KeptRows, LogicalColumns
<1>5. ASSUME UNCHANGED plan PROVE UNCHANGED Logical!queryVars
  BY <1>1, <1>5 DEF Logical!queryVars, Keep, output_names
<1>6. ~ PlanNode /\ ~ Finish
  BY DEF PlanNode, PlanScan, PlanFilter, PlanProject, PlanLimit, Visit, Finish
<1>7. ASSUME NEW t \in Targets, StartPlanning(t) PROVE UNCHANGED plan
  BY <1>7 DEF StartPlanning
<1> QED BY <1>2, <1>3, <1>4, <1>5, <1>6, <1>7 DEF Plan, PlannerNext, Logical!Next

(* The abstract module instantiates FiniteSets for itself.                 *)
LEMMA SameCardinality == \A S : Logical!Cardinality(S) = Cardinality(S)
BY DEF Cardinality, Logical!Cardinality, IsFiniteSet, Logical!IsFiniteSet

LEMMA BoundedSizes ==
  ASSUME QueryInv, plan.limit # NoLimit
  PROVE  LET kept == Cardinality(KeptRows)
         IN  BoundedSize(KeptRows, plan.limit) = IF kept < plan.limit THEN kept ELSE plan.limit
<1>1. plan.limit \in Nat
  BY DEF QueryInv, PlacementInv, PlannerTypeOK, QueryPlans, LimitCount
<1>2. Cardinality(KeptRows) \in Nat
  BY SubsetSizes DEF KeptRows, Keep
<1> QED BY <1>1, <1>2 DEF BoundedSize, Lesser

LEMMA StepRefines == QueryInv /\ [Next]_vars => [Logical!Next]_Logical!queryVars
<1> SUFFICES ASSUME QueryInv, [Next]_vars PROVE [Logical!Next]_Logical!queryVars
  OBVIOUS
<1>1. ASSUME UNCHANGED <<plan, answer>> PROVE UNCHANGED Logical!queryVars
  BY <1>1 DEF Logical!queryVars, Keep, output_names
<1>2. CASE Plan /\ phase = "building"
  BY <1>2, BuildingRefines
<1>3. CASE Plan /\ phase # "building"
  <2>1. ASSUME NEW newPlan PROVE ~ Build(newPlan)
    BY <1>3 DEF Build
  <2>2. ASSUME NEW op, Visit(op) PROVE UNCHANGED plan
    BY <2>2 DEF Visit
  <2>3. PlanNode \/ Finish
    BY <1>3, <2>1 DEF Plan, PlannerNext, Where, Select, Limit, StartPlanning
  <2>4. UNCHANGED <<plan, answer>>
    BY <1>3, <2>2, <2>3 DEF Plan, PlanNode, PlanScan, PlanFilter, PlanProject, PlanLimit, Finish
  <2> QED BY <1>1, <2>4
<1>4. CASE Scan
  BY <1>1, <1>4 DEF Scan, plannerVars
<1>5. CASE Evaluate \/ Compile
  <2>1. UNCHANGED plan /\ answer = NoAnswer
    BY <1>5 DEF Evaluate, Compile, plannerVars
  <2>2. PICK rows \in SUBSET KeptRows :
          /\ Cardinality(rows) = BoundedSize(KeptRows, plan.limit)
          /\ answer' = [columns |-> LogicalColumns, rows |-> rows]
    BY <1>5, EvaluatedAnswer, CompiledAnswer
  <2>3. BoundedSize(KeptRows, plan.limit) = Logical!Bounded(Logical!Cardinality(KeptRows), plan.limit)
    <3>1. Logical!Cardinality(KeptRows) = Cardinality(KeptRows)
      BY SameCardinality
    <3>2. CASE plan.limit = NoLimit
      BY <3>1, <3>2 DEF BoundedSize, Logical!Bounded
    <3>3. CASE plan.limit # NoLimit
      BY <3>1, <3>3, BoundedSizes DEF Logical!Bounded, Logical!Smaller
    <3> QED BY <3>2, <3>3
  <2>4. KeptRows' = KeptRows /\ LogicalColumns' = LogicalColumns
    BY <2>1 DEF KeptRows, Keep, LogicalColumns, output_names
  <2>5. Logical!Answer
    BY <2>1, <2>2, <2>3, <2>4, SameCardinality DEF Logical!Answer, KeptRows, LogicalColumns
  <2> QED BY <2>5 DEF Logical!Next
<1>6. CASE Refuse
  <2>1. UNCHANGED plan /\ answer = NoAnswer /\ answer' = Refused
    BY <1>6 DEF Refuse, plannerVars
  <2>2. Logical!Refuse
    BY <2>1 DEF Logical!Refuse, Keep, output_names
  <2> QED BY <2>2 DEF Logical!Next
<1>7. CASE UNCHANGED vars
  BY <1>1, <1>7 DEF vars, plannerVars
<1> QED BY <1>2, <1>3, <1>4, <1>5, <1>6, <1>7 DEF Next

(* ADR-0003 for every plan, every pair of capabilities, every scan they    *)
(* allow and every finite set of rows: planning and executing implements   *)
(* the logical query, so no placement loses or weakens an operation.       *)
THEOREM QueryImplementsLogical == Spec => ImplementsLogicalQuery
<1>1. Init => Logical!Init
  BY EmptySeq DEF Init, PlannerInit, ScanPlan, Keep, Logical!Init
<1>2. QueryInv /\ [Next]_vars => [Logical!Next]_Logical!queryVars
  BY StepRefines
<1> QED BY <1>1, <1>2, QueryInvariant, PTL DEF Spec, ImplementsLogicalQuery, Logical!Spec

=============================================================================
