--------------------------- MODULE QueryExecution ---------------------------
(***************************************************************************)
(* A query from the builder to its rows: the planner, then the scan doing  *)
(* the pushed operations, then the engine doing the residual ones          *)
(* (DuckDBEngine.execute, whose SQL is an inner SELECT or a source's       *)
(* stream with an outer SELECT over it), or the Spark engine compiling     *)
(* both into one lazy relation.  The scan is any scan its declared         *)
(* capabilities allow: a "partial" predicate may let further rows          *)
(* through, a "partial" limit may return more rows than asked, a "partial" *)
(* projection may return further columns.                                  *)
(***************************************************************************)
EXTENDS Planner

CONSTANTS
  TableColumns, \* the source's columns, in table order
  NoAnswer, Refused, EngineFailure, NotScanned

ASSUME TableOrder ==
  /\ TableColumns \in Seq(Columns)
  /\ Columns = {TableColumns[i] : i \in DOMAIN TableColumns}

VARIABLES
  delivered, \* what the scan returned: its columns and rows
  answer     \* what the caller got

vars == <<plannerVars, delivered, answer>>

Init ==
  /\ PlannerInit
  /\ delivered = NotScanned
  /\ answer = NoAnswer

(* Rows on which every clause at the positions is TRUE.                    *)
Keep(rows, positions) ==
  {r \in rows : \A i \in positions : r \in plan.predicate[i].keeps}

BoundedSize(rows, count) ==
  IF count = NoLimit THEN Cardinality(rows) ELSE Lesser(count, Cardinality(rows))

Has(columns, c) == \E i \in DOMAIN columns : columns[i] = c

-----------------------------------------------------------------------------
(* The scan.                                                               *)

FilteredRows ==
  IF target.scan.predicate = "full" THEN {Keep(Rows, pushed.predicate)}
  ELSE {rows \in SUBSET Rows : Keep(Rows, pushed.predicate) \subseteq rows}

ScannedRows(rows) ==
  {returned \in SUBSET rows :
     IF target.scan.limit = "full"
     THEN Cardinality(returned) = BoundedSize(rows, pushed.limit)
     ELSE Cardinality(returned) >= BoundedSize(rows, pushed.limit)}

ScannedColumns ==
  IF pushed.projection = <<>> THEN {TableColumns}
  ELSE IF target.scan.projection = "full" THEN {pushed.projection}
  ELSE {pushed.projection, TableColumns}

Scan ==
  /\ phase = "planned" /\ executable /\ delivered = NotScanned /\ answer = NoAnswer
  /\ \E rows \in FilteredRows, columns \in ScannedColumns :
       \E returned \in ScannedRows(rows) :
         delivered' = [columns |-> columns, rows |-> returned]
  /\ UNCHANGED <<plannerVars, answer>>

-----------------------------------------------------------------------------
(* The engine: SELECT residual projection FROM scan WHERE ... LIMIT n.     *)

ReadsOnlyDelivered ==
  \A c \in Columns :
    \/ \E i \in DOMAIN residual.projection : Has(residual.projection[i].columns, c)
    \/ \E i \in residual.predicate : Has(plan.predicate[i].columns, c)
    => Has(delivered.columns, c)

OutputColumns ==
  IF residual.projection = <<>> THEN delivered.columns ELSE output_names(residual.projection)

(* Mutant of Evaluate: LIMIT before WHERE.                                 *)
EvaluateLimitFirst ==
  /\ delivered # NotScanned /\ answer = NoAnswer
  /\ \E rows \in SUBSET delivered.rows :
       /\ Cardinality(rows) = BoundedSize(delivered.rows, residual.limit)
       /\ answer' = [columns |-> OutputColumns, rows |-> Keep(rows, residual.predicate)]
  /\ UNCHANGED <<plannerVars, delivered>>

Evaluate ==
  /\ delivered # NotScanned /\ answer = NoAnswer
  /\ IF ReadsOnlyDelivered
     THEN \E rows \in SUBSET Keep(delivered.rows, residual.predicate) :
            /\ Cardinality(rows) = BoundedSize(Keep(delivered.rows, residual.predicate),
                                               residual.limit)
            /\ answer' = [columns |-> OutputColumns, rows |-> rows]
     ELSE answer' = EngineFailure
  /\ UNCHANGED <<plannerVars, delivered>>

-----------------------------------------------------------------------------
(* SparkEngine.compile: the reader declares every support, and the         *)
(* relation has the pushed and the residual operations, in the order of    *)
(* the logical plan.                                                       *)

SparkTarget ==
  /\ target.scan = [projection |-> "full", predicate |-> "full", limit |-> "full",
                    expressions |-> ExpressionKinds, parameters |-> TRUE]
  /\ target.engine = [residual_expressions |-> ExpressionKinds,
                      residual_projection |-> TRUE, residual_limit |-> TRUE]

(* Mutant of CompiledLimit: the pushed limit is left to the reader.        *)
ResidualLimitOnly == residual.limit

(* min() of the limits there are.                                          *)
CompiledLimit ==
  IF NoLimit \in {pushed.limit, residual.limit}
  THEN IF pushed.limit = NoLimit THEN residual.limit ELSE pushed.limit
  ELSE Lesser(pushed.limit, residual.limit)

CompiledColumns ==
  CASE residual.projection # <<>> -> output_names(residual.projection)
    [] residual.projection = <<>> /\ pushed.projection # <<>> -> pushed.projection
    [] OTHER -> TableColumns

Compile ==
  /\ phase = "planned" /\ executable /\ SparkTarget
  /\ delivered = NotScanned /\ answer = NoAnswer
  /\ LET kept == Keep(Rows, pushed.predicate \cup residual.predicate)
     IN \E rows \in SUBSET kept :
          /\ Cardinality(rows) = BoundedSize(kept, CompiledLimit)
          /\ answer' = [columns |-> CompiledColumns, rows |-> rows]
  /\ UNCHANGED <<plannerVars, delivered>>

(* QueryService._executable raises; nothing is scanned.                    *)
Refuse ==
  /\ phase = "planned" /\ ~ executable /\ answer = NoAnswer
  /\ answer' = Refused
  /\ UNCHANGED <<plannerVars, delivered>>

Plan == PlannerNext /\ UNCHANGED <<delivered, answer>>

Next == Plan \/ Scan \/ Evaluate \/ Compile \/ Refuse

Spec == Init /\ [][Next]_vars

-----------------------------------------------------------------------------
TypeOK ==
  /\ PlannerTypeOK
  /\ delivered \in [columns : Seq(Columns), rows : SUBSET Rows] \cup {NotScanned}
  /\ answer \in [columns : Seq(OutputNames), rows : SUBSET Rows]
                  \cup {NoAnswer, Refused, EngineFailure}

(* Whatever the placement, the scan hands the engine every column that the *)
(* residual predicate and the residual projection read, although the scan  *)
(* was told to prune columns.                                              *)
EngineColumnsDelivered == delivered # NotScanned => ReadsOnlyDelivered

(* ADR-0003, "never lose or weaken a logical operation": for every plan,   *)
(* every capabilities and every scan they allow, the answer is one the     *)
(* logical query admits, with its columns in its order, or a refusal.      *)
Logical ==
  INSTANCE LogicalQuery WITH
    AllRows <- Rows,
    AllColumns <- TableColumns,
    Unbounded <- NoLimit,
    kept <- Keep(Rows, DOMAIN plan.predicate),
    shown <- IF plan.projection = <<>> THEN TableColumns ELSE output_names(plan.projection),
    bound <- plan.limit

ImplementsLogicalQuery == Logical!Spec

=============================================================================
