---------------------------- MODULE ExecutionPlan ----------------------------
(***************************************************************************)
(* Portable expression trees (domain/expressions.py), the immutable        *)
(* logical plan over them (domain/plan.py), and execution plans with the   *)
(* pushdown completeness check, FF-05 (domain/execution.py).               *)
(*                                                                         *)
(* A tree is reduced to the four things planning and execution can tell    *)
(* apart: the node kinds it contains, the columns its walk meets (in walk  *)
(* order, once each), the rows on which it is TRUE (not FALSE and not      *)
(* NULL) when it is used as a WHERE clause, and its output name when it is *)
(* projected.                                                              *)
(*                                                                         *)
(* A placement says which part of the logical plan the scan runs (pushed)  *)
(* and which the engine runs (residual).  A placed predicate is the set of *)
(* positions, in the logical predicate, of the conjuncts that and_all()    *)
(* joins; the empty set is None.                                           *)
(***************************************************************************)
EXTENDS Integers, FiniteSets, Sequences

CONSTANTS
  Columns,      \* column names of the source
  OutputNames,  \* names a projection may produce; every column is one
  Rows          \* identities of the source's rows

ASSUME ColumnsAreNames == Columns \subseteq OutputNames
ASSUME RowsFinite == IsFiniteSet(Rows)

ExpressionKinds ==
  {"column", "literal", "parameter", "comparison", "and", "or", "not",
   "is_null", "in", "like", "arithmetic", "alias"}

(* One conjunct of a WHERE predicate.                                      *)
Clauses ==
  [kinds : SUBSET ExpressionKinds, columns : Seq(Columns), keeps : SUBSET Rows]

(* A projected expression is a column reference or an alias, so a tree     *)
(* whose only kind is "column" is a Column node.                           *)
IsColumn(expression) == expression.kinds = {"column"}

OutputExpressions ==
  {e \in [kinds : SUBSET ExpressionKinds, columns : Seq(Columns), name : OutputNames] :
     \/ IsColumn(e) /\ e.columns = <<e.name>>
     \/ "alias" \in e.kinds}

output_names(expressions) == [i \in DOMAIN expressions |-> expressions[i].name]

(***************************************************************************)
(* referenced_columns: the columns named by a list of trees, in            *)
(* first-seen order.  An occurrence is a position in the walk; the first   *)
(* occurrence of each column is kept, ranked by its place in the walk.     *)
(***************************************************************************)
Occurrences(expressions) ==
  UNION {{i} \X DOMAIN expressions[i].columns : i \in DOMAIN expressions}

ColumnAt(expressions, p) == expressions[p[1]].columns[p[2]]

Precedes(p, q) == p[1] < q[1] \/ (p[1] = q[1] /\ p[2] < q[2])

FirstOccurrences(expressions) ==
  {p \in Occurrences(expressions) :
     \A q \in Occurrences(expressions) :
       Precedes(q, p) => ColumnAt(expressions, q) # ColumnAt(expressions, p)}

WalkRank(expressions, p) ==
  Cardinality({q \in FirstOccurrences(expressions) : ~ Precedes(p, q)})

referenced_columns(expressions) ==
  [k \in 1..Cardinality(FirstOccurrences(expressions)) |->
     ColumnAt(expressions,
              CHOOSE p \in FirstOccurrences(expressions) : WalkRank(expressions, p) = k)]

-----------------------------------------------------------------------------
(* The plan: scan -> filter -> project -> limit.  A predicate is the       *)
(* sequence of its conjuncts, as conjuncts() flattens it; the empty        *)
(* sequence is Python's None, and so are the empty projection and NoLimit. *)

NoLimit == -1

LimitCount == Nat \cup {NoLimit}

(* Project.__post_init__: output names are distinct.                       *)
Projections ==
  {exprs \in Seq(OutputExpressions) :
     \A i, j \in DOMAIN exprs : exprs[i].name = exprs[j].name => i = j}

QueryPlans ==
  [predicate : Seq(Clauses), projection : Projections, limit : LimitCount]

ScanPlan == [predicate |-> <<>>, projection |-> <<>>, limit |-> NoLimit]

Lesser(m, n) == IF m < n THEN m ELSE n

where(plan, clauses) == [plan EXCEPT !.predicate = @ \o clauses]

select(plan, expressions) == [plan EXCEPT !.projection = expressions]

(* Mutant of limit: the last call wins.                                    *)
LimitOverwrites(plan, count) == [plan EXCEPT !.limit = count]

limit(plan, count) ==
  [plan EXCEPT !.limit = IF @ = NoLimit THEN count ELSE Lesser(@, count)]

(* The operations of a plan's node chain and their place in it.            *)
Operations == {"scan", "filter", "project", "limit"}

Order == [scan |-> 0, filter |-> 1, project |-> 2, limit |-> 3]

NodesOf(plan) ==
  {op \in Operations :
     /\ op = "filter" => plan.predicate # <<>>
     /\ op = "project" => plan.projection # <<>>
     /\ op = "limit" => plan.limit # NoLimit}

-----------------------------------------------------------------------------
(* Capability descriptors (domain/capabilities.py): what a scan target can *)
(* push down and what an engine can evaluate as residual work.             *)

Support == {"full", "partial", "none"}

PushdownCapabilities ==
  [projection : Support, predicate : Support, limit : Support,
   expressions : SUBSET ExpressionKinds, parameters : BOOLEAN]

EngineCapabilities ==
  [residual_expressions : SUBSET ExpressionKinds,
   residual_projection : BOOLEAN, residual_limit : BOOLEAN]

(* PushdownCapabilities.supports_expression: every node kind is declared,  *)
(* and a parameter node needs the parameters flag as well.                 *)
ScanSupports(scan, expression) ==
  /\ expression.kinds \subseteq scan.expressions
  /\ "parameter" \in expression.kinds => scan.parameters

(* EngineCapabilities.supports_expression on a conjunct or an output       *)
(* expression, neither of which is itself a conjunction.                   *)
EngineSupports(engine, expression) ==
  expression.kinds \subseteq engine.residual_expressions

-----------------------------------------------------------------------------
NoOperations == [projection |-> <<>>, predicate |-> {}, limit |-> NoLimit]

PushedOperations ==
  [projection : Seq(Columns), predicate : SUBSET Nat, limit : LimitCount]

ResidualOperations ==
  [projection : Projections, predicate : SUBSET Nat, limit : LimitCount]

Dispositions == {"pushed", "partial", "residual", "rejected"}

ClausesAt(plan, positions) == {plan.predicate[i] : i \in positions}

(* The multiplicity of a clause in a placed predicate (a Counter in the    *)
(* code: equal clauses at different positions are the same key).           *)
Count(plan, positions, clause) ==
  Cardinality({i \in positions : plan.predicate[i] = clause})

(* Columns read by the projection and then by the predicate the engine     *)
(* runs; a conjunct the engine does not run contributes none.              *)
NeededColumns(plan, positions) ==
  referenced_columns(
    plan.projection
    \o [i \in DOMAIN plan.predicate |->
         [columns |-> IF i \in positions THEN plan.predicate[i].columns ELSE <<>>]])

PureColumns(plan) == \A i \in DOMAIN plan.projection : IsColumn(plan.projection[i])

(* Mutants of PushesWholeProjection: computed columns pushed by name; the  *)
(* columns of the residual predicate forgotten.                            *)
PushesAnyProjection(plan, scan, positions) == scan.projection = "full"

PushesDespiteFilter(plan, scan, positions) ==
  scan.projection = "full" /\ PureColumns(plan)

(* A projection is run by the scan alone when it only selects columns and  *)
(* nothing else has to be read for the engine.                             *)
PushesWholeProjection(plan, scan, positions) ==
  /\ scan.projection = "full"
  /\ PureColumns(plan)
  /\ NeededColumns(plan, positions) = output_names(plan.projection)

(***************************************************************************)
(* check_completeness for a plan marked executable, one set per block of   *)
(* the function; a problem is named by the message's first words.          *)
(***************************************************************************)
PredicateProblems(plan, scan, engine, pushed, residual) ==
  LET all == DOMAIN plan.predicate
      clauses == ClausesAt(plan, all \cup pushed.predicate \cup residual.predicate)
      inPlan(c) == Count(plan, all, c)
      inPushed(c) == Count(plan, pushed.predicate, c)
      inResidual(c) == Count(plan, residual.predicate, c)
  IN  {p \in {"pushed predicate exceeds scan capabilities"} :
         \E c \in ClausesAt(plan, pushed.predicate) :
           scan.predicate = "none" \/ ~ ScanSupports(scan, c)}
      \cup
      {p \in {"partial predicate coverage differs"} :
         /\ scan.predicate = "partial"
         /\ \E c \in clauses : inResidual(c) # inPlan(c) \/ inPushed(c) > inPlan(c)}
      \cup
      {p \in {"predicate conjuncts differ"} :
         /\ scan.predicate # "partial"
         /\ \E c \in clauses :
              \/ inPushed(c) > 0 /\ inResidual(c) > 0
              \/ inPushed(c) + inResidual(c) # inPlan(c)}
      \cup
      {p \in {"residual predicate exceeds engine capabilities"} :
         \E c \in ClausesAt(plan, residual.predicate) : ~ EngineSupports(engine, c)}

ProjectionProblems(plan, scan, engine, pushed, residual) ==
  LET needed == NeededColumns(plan, residual.predicate)
      whole == PushesWholeProjection(plan, scan, residual.predicate)
      expectedPushed ==
        IF whole THEN output_names(plan.projection)
        ELSE IF scan.projection # "none" THEN needed ELSE <<>>
      expectedResidual == IF whole THEN <<>> ELSE plan.projection
  IN  {p \in {"projection placement differs"} :
         /\ plan.projection # <<>>
         /\ pushed.projection # expectedPushed \/ residual.projection # expectedResidual}
      \cup
      {p \in {"projection applied without a logical projection"} :
         /\ plan.projection = <<>>
         /\ pushed.projection # <<>> \/ residual.projection # <<>>}
      \cup
      {p \in {"residual projection exceeds engine capabilities"} :
         /\ residual.projection # <<>>
         /\ \/ ~ engine.residual_projection
            \/ \E i \in DOMAIN residual.projection :
                 ~ EngineSupports(engine, residual.projection[i])}

LimitProblems(plan, scan, engine, pushed, residual) ==
  LET expectedPushed ==
        IF residual.predicate # {} \/ scan.limit = "none" THEN NoLimit ELSE plan.limit
      expectedResidual ==
        IF residual.predicate = {} /\ scan.limit = "full" THEN NoLimit ELSE plan.limit
  IN  {p \in {"limit placement differs"} :
         /\ plan.limit # NoLimit
         /\ pushed.limit # expectedPushed \/ residual.limit # expectedResidual}
      \cup
      {p \in {"limit applied without a logical limit"} :
         /\ plan.limit = NoLimit
         /\ pushed.limit # NoLimit \/ residual.limit # NoLimit}
      \cup
      {p \in {"residual limit exceeds engine capabilities"} :
         residual.limit # NoLimit /\ ~ engine.residual_limit}

PlacementProblems(plan, scan, engine, pushed, residual) ==
  PredicateProblems(plan, scan, engine, pushed, residual)
  \cup ProjectionProblems(plan, scan, engine, pushed, residual)
  \cup LimitProblems(plan, scan, engine, pushed, residual)

=============================================================================
